-------------------------- MODULE AgentLoopProofs --------------------------
(***************************************************************************)
(* The type of AgentLoop, what its statuses mean, that no turn is one too  *)
(* many, that hints come once and in order, and that what is sent takes    *)
(* turns, for every budget, reserve, price, threshold and number of        *)
(* iterations, and whatever the compaction keeps (whole turns, for the     *)
(* last of these); and of the detector that the loop asks (StuckDetector), *)
(* that its signals are the patterns of the turns, for every set of turns, *)
(* threshold and window.                                                   *)
(***************************************************************************)
EXTENDS AgentLoop, StuckDetector, SequenceTheorems, FiniteSetTheorems, TLAPS

Over == \E d \in Dims : Spent(used, d)

\* The loop is at work within its budget ...
AtWork == {"next", "compacting", "reading note", "clearing note", "asking", "checking",
           "answering", "verifying", "calling"}

WorkInv ==
    pc \in AtWork => ~Over /\ missed < Threshold /\ result = "none"

\* ... and left for the reason it gives.
ExitInv ==
    pc \in {"exiting", "classifying"} =>
        /\ result = "none"
        /\ reason \in {"tokens", "cost", "stuck", "max_iter"}
        /\ reason \in {"tokens", "cost"} <=> Over
        /\ reason = "stuck" => missed >= Threshold
        /\ reason = "max_iter" => missed < Threshold

LoopInv == TypeOK /\ WorkInv /\ ExitInv /\ StatusFitsUse

-----------------------------------------------------------------------------
LEMMA ReserveType == Reserve \in Nat
  BY LoopAssumption DEF Reserve, Dims

LEMMA LimitType == \A d \in Dims : Cap[d] > 0 => Limit(d) \in Nat \ {0}
  BY LoopAssumption, ReserveType DEF Limit, Dims

\* What is used up stays used up.
LEMMA ChargeType ==
    ASSUME NEW u \in [Dims -> Nat], NEW c \in Charges
    PROVE  Charge(u, c) \in [Dims -> Nat]
  BY LoopAssumption DEF Charge

LEMMA MessageTypes ==
    ASSUME NEW i \in 0..MaxIter, NEW n \in 0..MaxCalls
    PROVE  {Seed, Summary, Reply(i, n), Results(i, n), Feedback(i)} \subseteq MessageType
  BY LoopAssumption DEF Seed, Summary, Reply, Results, Feedback, MessageType

\* A compaction is made of messages of the history and a summary.
LEMMA CompactedType ==
    ASSUME NEW m \in Seq(MessageType), Len(m) - HeadKeep - TailKeep >= MinMiddle
    PROVE  Compacted(m) \in Seq(MessageType)
<1> USE LoopAssumption
<1>1. Summary \in MessageType
  BY DEF Summary, MessageType
<1>2. SubSeq(m, 1, HeadKeep) \in Seq(MessageType)
  BY SubSeqProperties
<1>3. SubSeq(m, Len(m) - TailKeep + 1, Len(m)) \in Seq(MessageType)
  BY SubSeqProperties
<1>4. <<Summary>> \in Seq(MessageType)
  BY <1>1
<1> QED
  BY <1>2, <1>3, <1>4 DEF Compacted

\* The type in three parts: where Run is, what it counts, what it keeps.
PlaceType ==
    /\ pc \in {"next", "compacting", "reading note", "clearing note", "asking", "checking",
               "answering", "verifying", "calling", "exiting", "classifying", "over"}
    /\ verified \in BOOLEAN
    /\ reason \in {"none", "tokens", "cost", "stuck", "max_iter"}
    /\ result \in {"none", "done", "error", "stuck", "max_iterations", "budget_exhausted",
                   "budget_exhausted_with_handoff", "budget_exhausted_verify_passed",
                   "budget_exhausted_verify_failed"}

CountType ==
    /\ iter \in 0..MaxIter
    /\ used \in [Dims -> Nat]
    /\ missed \in Nat
    /\ calls \in 0..MaxCalls
    /\ results \in 0..calls

DataType ==
    /\ msgs \in Seq(MessageType)
    /\ note \in Hints \cup {NoNote}
    /\ taken \in Hints \cup {NoNote}
    /\ posted \in Seq(Hints)
    /\ heard \in Seq(Hints)

LEMMA TypeParts == TypeOK <=> PlaceType /\ CountType /\ DataType
  BY DEF TypeOK, PlaceType, CountType, DataType, Dims

-----------------------------------------------------------------------------
LEMMA LoopInit == Init => LoopInv
<1> SUFFICES ASSUME Init PROVE LoopInv
  OBVIOUS
<1> USE LoopAssumption DEF Init
<1>1. Seed \in MessageType
  BY DEF Seed, MessageType
<1>2. TypeOK
  <2>1. PlaceType
    BY DEF PlaceType
  <2>2. CountType
    BY DEF CountType
  <2>3. DataType
    BY <1>1 DEF DataType
  <2> QED
    BY <2>1, <2>2, <2>3, TypeParts
<1>3. ~Over
  BY LimitType DEF Over, Spent
<1>4. WorkInv
  BY <1>3 DEF WorkInv, AtWork
<1> QED
  BY <1>2, <1>4 DEF LoopInv, ExitInv, StatusFitsUse

LEMMA PlaceNext == PlaceType /\ [Next]_vars => PlaceType'
<1> SUFFICES ASSUME PlaceType, [Next]_vars PROVE PlaceType'
  OBVIOUS
<1> USE DEF PlaceType
<1>1. CASE NextIteration
  BY <1>1 DEF NextIteration
<1>2. CASE OutOfIterations
  BY <1>2 DEF OutOfIterations
<1>3. CASE Compact
  BY <1>3 DEF Compact
<1>4. CASE DontCompact
  BY <1>4 DEF DontCompact
<1>5. CASE ReadNote
  BY <1>5 DEF ReadNote
<1>6. CASE ClearNote
  BY <1>6 DEF ClearNote
<1>7. CASE ProviderFails
  BY <1>7 DEF ProviderFails
<1>8. CASE Answer
  BY <1>8 DEF Answer
<1>9. CASE VerifyPasses
  BY <1>9 DEF VerifyPasses
<1>10. CASE VerifyFails
  BY <1>10 DEF VerifyFails
<1>11. CASE CallTool
  BY <1>11 DEF CallTool
<1>12. CASE Conclude
  BY <1>12 DEF Conclude
<1>13. CASE FinalVerify
  BY <1>13 DEF FinalVerify
<1>14. CASE Classify
  BY <1>14 DEF Classify, Status
<1>15. ASSUME NEW n \in 0..MaxCalls, NEW c \in Charges, Respond(n, c)
       PROVE  PlaceType'
  BY <1>15 DEF Respond
<1>16. ASSUME NEW k \in 0..MaxSignals, CheckStuck(k)
       PROVE  PlaceType'
  BY <1>16 DEF CheckStuck
<1>17. ASSUME NEW h \in Hints, PostHint(h)
       PROVE  PlaceType'
  BY <1>17 DEF PostHint, loopVars
<1>18. CASE UNCHANGED vars
  BY <1>18 DEF vars, loopVars, sharedVars
<1> QED
  BY <1>1, <1>2, <1>3, <1>4, <1>5, <1>6, <1>7, <1>8, <1>9, <1>10, <1>11, <1>12, <1>13, <1>14,
     <1>15, <1>16, <1>17, <1>18 DEF Next, Step

LEMMA CountNext == CountType /\ [Next]_vars => CountType'
<1> SUFFICES ASSUME CountType, [Next]_vars PROVE CountType'
  OBVIOUS
<1> USE LoopAssumption DEF CountType
<1>1. CASE NextIteration
  BY <1>1 DEF NextIteration
<1>2. CASE OutOfIterations
  BY <1>2 DEF OutOfIterations
<1>3. CASE Compact
  BY <1>3 DEF Compact
<1>4. CASE DontCompact
  BY <1>4 DEF DontCompact
<1>5. CASE ReadNote
  BY <1>5 DEF ReadNote
<1>6. CASE ClearNote
  BY <1>6 DEF ClearNote
<1>7. CASE ProviderFails
  BY <1>7 DEF ProviderFails
<1>8. CASE Answer
  BY <1>8 DEF Answer
<1>9. CASE VerifyPasses
  BY <1>9, ChargeType DEF VerifyPasses
<1>10. CASE VerifyFails
  BY <1>10 DEF VerifyFails
<1>11. CASE CallTool
  BY <1>11 DEF CallTool
<1>12. CASE Conclude
  BY <1>12 DEF Conclude
<1>13. CASE FinalVerify
  BY <1>13 DEF FinalVerify
<1>14. CASE Classify
  BY <1>14 DEF Classify
<1>15. ASSUME NEW n \in 0..MaxCalls, NEW c \in Charges, Respond(n, c)
       PROVE  CountType'
  BY <1>15, ChargeType DEF Respond
<1>16. ASSUME NEW k \in 0..MaxSignals, CheckStuck(k)
       PROVE  CountType'
  BY <1>16 DEF CheckStuck
<1>17. ASSUME NEW h \in Hints, PostHint(h)
       PROVE  CountType'
  BY <1>17 DEF PostHint, loopVars
<1>18. CASE UNCHANGED vars
  BY <1>18 DEF vars, loopVars, sharedVars
<1> QED
  BY <1>1, <1>2, <1>3, <1>4, <1>5, <1>6, <1>7, <1>8, <1>9, <1>10, <1>11, <1>12, <1>13, <1>14,
     <1>15, <1>16, <1>17, <1>18 DEF Next, Step

LEMMA DataNext == CountType /\ DataType /\ [Next]_vars => DataType'
<1> SUFFICES ASSUME CountType, DataType, [Next]_vars PROVE DataType'
  OBVIOUS
<1> USE DEF DataType, sharedVars
<1>a. {Reply(iter, calls), Results(iter, results), Feedback(iter)} \subseteq MessageType
  BY MessageTypes, LoopAssumption DEF CountType
<1>1. CASE NextIteration
  BY <1>1 DEF NextIteration
<1>2. CASE OutOfIterations
  BY <1>2 DEF OutOfIterations
<1>3. CASE Compact
  BY <1>3, CompactedType DEF Compact
<1>4. CASE DontCompact
  BY <1>4 DEF DontCompact
<1>5. CASE ReadNote
  <2>1. taken' \in Hints \cup {NoNote} /\ UNCHANGED <<msgs, note, posted>>
    BY <1>5 DEF ReadNote
  <2>2. heard' \in Seq(Hints)
    <3>1. CASE note = NoNote
      BY <1>5, <3>1 DEF ReadNote
    <3>2. CASE note # NoNote
      <4>1. heard' = Append(heard, note) /\ note \in Hints
        BY <1>5, <3>2 DEF ReadNote
      <4> QED
        BY <4>1
    <3> QED
      BY <3>1, <3>2
  <2> QED
    BY <2>1, <2>2
<1>6. CASE ClearNote
  BY <1>6 DEF ClearNote
<1>7. CASE ProviderFails
  BY <1>7 DEF ProviderFails
<1>8. CASE Answer
  BY <1>8, <1>a DEF Answer
<1>9. CASE VerifyPasses
  BY <1>9 DEF VerifyPasses
<1>10. CASE VerifyFails
  BY <1>10, <1>a DEF VerifyFails
<1>11. CASE CallTool
  BY <1>11 DEF CallTool
<1>12. CASE Conclude
  BY <1>12, <1>a DEF Conclude
<1>13. CASE FinalVerify
  BY <1>13 DEF FinalVerify
<1>14. CASE Classify
  BY <1>14 DEF Classify
<1>15. ASSUME NEW n \in 0..MaxCalls, NEW c \in Charges, Respond(n, c)
       PROVE  DataType'
  BY <1>15 DEF Respond
<1>16. ASSUME NEW k \in 0..MaxSignals, CheckStuck(k)
       PROVE  DataType'
  BY <1>16 DEF CheckStuck
<1>17. ASSUME NEW h \in Hints, PostHint(h)
       PROVE  DataType'
  BY <1>17 DEF PostHint, loopVars
<1>18. CASE UNCHANGED vars
  BY <1>18 DEF vars, loopVars, sharedVars
<1> QED
  BY <1>1, <1>2, <1>3, <1>4, <1>5, <1>6, <1>7, <1>8, <1>9, <1>10, <1>11, <1>12, <1>13, <1>14,
     <1>15, <1>16, <1>17, <1>18 DEF Next, Step

LEMMA TypeNext == TypeOK /\ [Next]_vars => TypeOK'
<1> SUFFICES ASSUME TypeOK, [Next]_vars PROVE TypeOK'
  OBVIOUS
<1>1. PlaceType' /\ CountType' /\ DataType'
  BY TypeParts, PlaceNext, CountNext, DataNext
<1> QED
  BY <1>1, TypeParts, PTL

\* StatusFitsUse with what is used spelt Over.
StatusSays ==
    /\ result \in {"done", "budget_exhausted_verify_passed"} => verified
    /\ result \notin {"none", "done", "error"} =>
        /\ result = "budget_exhausted_with_handoff" <=> Grace /\ Over
        /\ result = "stuck" <=> ~Over /\ missed >= Threshold
        /\ result = "max_iterations" <=> ~Over /\ missed < Threshold

LEMMA StatusMeans == StatusFitsUse <=> StatusSays
  BY DEF StatusFitsUse, StatusSays, Over

Rest == WorkInv /\ ExitInv /\ StatusFitsUse

\* A run at work is all right as long as it stays within its limits.
WithinLimits == pc \in AtWork /\ ~Over /\ missed < Threshold /\ result = "none"

LEMMA WorkKeeps == WithinLimits => Rest
  BY DEF WithinLimits, Rest, WorkInv, ExitInv, StatusFitsUse, AtWork

\* Nothing that is said of a run changes with these left alone.
LEMMA RestStays == Rest /\ UNCHANGED <<pc, used, missed, verified, reason, result>> => Rest'
<1> SUFFICES ASSUME Rest, UNCHANGED <<pc, used, missed, verified, reason, result>> PROVE Rest'
  OBVIOUS
<1>1. (Over' <=> Over) /\ (Grace' <=> Grace)
  BY DEF Over, Grace, Spent
<1>2. WorkInv' /\ ExitInv'
  BY <1>1 DEF Rest, WorkInv, ExitInv
<1>3. StatusFitsUse'
  BY DEF Rest, StatusFitsUse, Grace, Spent
<1> QED
  BY <1>2, <1>3 DEF Rest

LEMMA RestNext == TypeOK /\ Rest /\ [Next]_vars => Rest'
<1> SUFFICES ASSUME TypeOK, Rest, [Next]_vars PROVE Rest'
  OBVIOUS
<1>a. WithinLimits' => Rest'
  BY WorkKeeps, PTL
<1> DEFINE Quiet == UNCHANGED <<used, missed, result>>
<1>b. ASSUME Quiet PROVE (Over' <=> Over) /\ (Grace' <=> Grace)
  BY <1>b DEF Over, Grace, Spent
<1>c. ASSUME pc \in AtWork, pc' \in AtWork, Quiet
      PROVE  Rest'
  BY <1>a, <1>b, <1>c DEF Rest, WorkInv, WithinLimits
<1>1. CASE NextIteration
  BY <1>1, <1>c DEF NextIteration, AtWork
<1>2. CASE OutOfIterations
  <2>1. ~Over /\ missed < Threshold /\ result = "none" /\ Quiet
    BY <1>2 DEF OutOfIterations, Rest, WorkInv, AtWork
  <2>2. pc' = "exiting" /\ reason' = "max_iter"
    BY <1>2 DEF OutOfIterations
  <2> QED
    BY <2>1, <2>2, <1>b DEF Rest, WorkInv, ExitInv, StatusFitsUse, AtWork, TypeOK
<1>3. CASE Compact
  BY <1>3, <1>c DEF Compact, AtWork
<1>4. CASE DontCompact
  BY <1>4, <1>c DEF DontCompact, AtWork
<1>5. CASE ReadNote
  BY <1>5, <1>c DEF ReadNote, AtWork
<1>6. CASE ClearNote
  BY <1>6, <1>c DEF ClearNote, AtWork
<1>7. CASE ProviderFails
  BY <1>7 DEF ProviderFails, Rest, WorkInv, ExitInv, StatusFitsUse, AtWork
<1>8. CASE Answer
  BY <1>8, <1>c DEF Answer, AtWork
<1>9. CASE VerifyPasses
  BY <1>9 DEF VerifyPasses, Rest, WorkInv, ExitInv, StatusFitsUse, AtWork
<1>10. CASE VerifyFails
  BY <1>10, <1>c DEF VerifyFails, AtWork
<1>11. CASE CallTool
  BY <1>11, <1>c DEF CallTool, AtWork
<1>12. CASE Conclude
  BY <1>12, <1>c DEF Conclude, AtWork
<1>13. CASE FinalVerify
  <2>1. /\ pc = "exiting" /\ pc' = "classifying" /\ Quiet
        /\ reason' = reason
    BY <1>13 DEF FinalVerify
  <2> QED
    BY <2>1, <1>b DEF Rest, WorkInv, ExitInv, StatusFitsUse, AtWork
<1>14. CASE Classify
  <2>1. /\ pc = "classifying" /\ pc' = "over" /\ result' = Status
        /\ UNCHANGED <<used, missed, reason, verified>>
    BY <1>14 DEF Classify
  <2>2. (Over' <=> Over) /\ (Grace' <=> Grace)
    BY <2>1 DEF Over, Grace, Spent
  <2>3. WorkInv' /\ ExitInv'
    BY <2>1 DEF WorkInv, ExitInv, AtWork
  <2>4. StatusSays'
    BY <2>1, <2>2, LoopAssumption DEF Rest, ExitInv, StatusSays, Status, TypeOK
  <2>5. StatusFitsUse'
    BY <2>4, StatusMeans, PTL
  <2> QED
    BY <2>3, <2>5 DEF Rest
<1>15. ASSUME NEW n \in 0..MaxCalls, NEW c \in Charges, Respond(n, c)
       PROVE  Rest'
  <2>1. /\ pc = "asking" /\ missed' = missed /\ result' = result
        /\ missed < Threshold /\ result = "none" /\ ~Over
    BY <1>15 DEF Respond, Rest, WorkInv, AtWork
  <2>2. CASE Over'
    <3>1. pc' = "exiting" /\ reason' \in {"tokens", "cost"}
      BY <1>15, <2>2 DEF Respond, Over
    <3> QED
      BY <2>1, <2>2, <3>1 DEF Rest, WorkInv, ExitInv, StatusFitsUse, AtWork
  <2>3. CASE ~Over'
    <3>1. pc' = "checking"
      BY <1>15, <2>3 DEF Respond, Over
    <3> QED
      BY <1>a, <2>1, <2>3, <3>1 DEF AtWork, WithinLimits
  <2> QED
    BY <2>2, <2>3
<1>16. ASSUME NEW k \in 0..MaxSignals, CheckStuck(k)
       PROVE  Rest'
  <2>1. /\ pc = "checking" /\ UNCHANGED <<used, result>>
        /\ result = "none" /\ ~Over
    BY <1>16 DEF CheckStuck, Rest, WorkInv, AtWork
  <2>2. ~Over'
    BY <2>1 DEF Over, Spent
  <2>3. missed' \in Nat
    BY <1>16, LoopAssumption DEF CheckStuck, TypeOK
  <2>4. CASE missed' >= Threshold
    <3>1. pc' = "exiting" /\ reason' = "stuck"
      BY <1>16, <2>4 DEF CheckStuck
    <3> QED
      BY <2>1, <2>2, <2>4, <3>1 DEF Rest, WorkInv, ExitInv, StatusFitsUse, AtWork
  <2>5. CASE ~(missed' >= Threshold)
    <3>1. pc' = "answering"
      BY <1>16, <2>5 DEF CheckStuck
    <3>2. missed' < Threshold
      BY <2>3, <2>5, LoopAssumption
    <3> QED
      BY <1>a, <2>1, <2>2, <3>1, <3>2 DEF AtWork, WithinLimits
  <2> QED
    BY <2>4, <2>5
<1>17. ASSUME NEW h \in Hints, PostHint(h)
       PROVE  Rest'
  BY <1>17, RestStays DEF PostHint, loopVars
<1>18. CASE UNCHANGED vars
  BY <1>18, RestStays DEF vars, loopVars
<1> QED
  BY <1>1, <1>2, <1>3, <1>4, <1>5, <1>6, <1>7, <1>8, <1>9, <1>10, <1>11, <1>12, <1>13, <1>14,
     <1>15, <1>16, <1>17, <1>18 DEF Next, Step

LEMMA IterBound == LoopInv => iter <= MaxIter
<1> SUFFICES ASSUME TypeOK PROVE iter <= MaxIter
  BY DEF LoopInv
<1>1. iter \in 0..MaxIter
  BY DEF TypeOK
<1> QED
  BY <1>1, LoopAssumption

LEMMA InvNext == LoopInv /\ [Next]_vars => LoopInv'
  BY TypeNext, RestNext DEF LoopInv, Rest

-----------------------------------------------------------------------------
\* The inductive invariant of AgentLoop.Run: while it works it is within its
\* budget and threshold, and it is left for the reason it gives.
THEOREM LoopInvariant == Safety => []LoopInv
  BY LoopInit, InvNext, PTL DEF Safety

\* Every variable of AgentLoop.Run has its type, for every budget, and no
\* response gets more results than it has tool calls.
THEOREM TypeCorrect == Safety => []TypeOK
  BY LoopInvariant, PTL DEF LoopInv

\* The status at the end of AgentLoop.Run says what happened, for every
\* budget, reserve and price of a response.
THEOREM StatusIsRight == Safety => []StatusFitsUse
  BY LoopInvariant, PTL DEF LoopInv

\* AgentLoop.Run asks for no turn once a budget is spent, the loop is stuck or
\* its iterations are used up, whatever a response costs.
THEOREM NeverOneTooMany == Safety => NoTurnTooMany
<1> DEFINE A == pc' = "asking" /\ pc # "asking" =>
                    /\ \A d \in Dims : ~Spent(used, d)
                    /\ missed < Threshold
                    /\ iter <= MaxIter
<1>1. LoopInv /\ [Next]_vars => [A]_vars
  <2> SUFFICES ASSUME LoopInv, [Next]_vars, pc' = "asking", pc # "asking"
               PROVE  pc \in {"reading note", "clearing note"}
    BY IterBound DEF LoopInv, WorkInv, AtWork, Over
  <2> QED
    BY DEF Next, Step, vars, loopVars, NextIteration, OutOfIterations, Compact, DontCompact,
       ReadNote, ClearNote, ProviderFails, Respond, CheckStuck, Answer, VerifyPasses, VerifyFails,
       CallTool, Conclude, FinalVerify, Classify, PostHint
<1> QED
  BY <1>1, LoopInvariant, PTL DEF Safety, NoTurnTooMany

-----------------------------------------------------------------------------
\* A note that waits is the last one posted, and has not been heard; one that
\* is heard was posted.
Once(s) == \A i, j \in 1..Len(s) : s[i] = s[j] => i = j
WithinOf(h, s) == \A i \in 1..Len(h) : \E p \in 1..Len(s) : s[p] = h[i]
InOrderOf(h, s) ==
    \A i, j \in 1..Len(h) : i < j =>
        \E p, q \in 1..Len(s) : p < q /\ s[p] = h[i] /\ s[q] = h[j]
IsLast(h, s) == Len(s) > 0 /\ s[Len(s)] = h
Missing(h, s) == \A i \in 1..Len(s) : s[i] # h

HintInv ==
    /\ Once(posted) /\ Once(heard)
    /\ WithinOf(heard, posted) /\ InOrderOf(heard, posted)
    /\ note # NoNote => IsLast(note, posted)
    /\ note # NoNote /\ pc # "clearing note" => Missing(note, heard)

LEMMA HintInit == Init => HintInv
  BY DEF Init, HintInv, Once, WithinOf, InOrderOf, Missing

\* What is said of the sequences, one appended to.
LEMMA OnceAppend ==
    ASSUME NEW S, NEW s \in Seq(S), NEW h \in S, Once(s), Missing(h, s)
    PROVE  Once(Append(s, h))
<1> DEFINE t == Append(s, h)
<1>1. Len(t) = Len(s) + 1 /\ t[Len(s) + 1] = h /\ \A i \in 1..Len(s) : t[i] = s[i]
  OBVIOUS
<1>2. Len(s) \in Nat
  OBVIOUS
<1> HIDE DEF t
<1> QED
  BY <1>1, <1>2 DEF Once, Missing, t

LEMMA HeardAppend ==
    ASSUME NEW S, NEW s \in Seq(S), NEW h \in S, NEW p \in Seq(S),
           WithinOf(s, p), InOrderOf(s, p), Missing(h, s), IsLast(h, p)
    PROVE  WithinOf(Append(s, h), p) /\ InOrderOf(Append(s, h), p)
<1> DEFINE t == Append(s, h)
<1>1. Len(t) = Len(s) + 1 /\ t[Len(s) + 1] = h /\ \A i \in 1..Len(s) : t[i] = s[i]
  OBVIOUS
<1>2. Len(s) \in Nat /\ Len(p) \in Nat
  OBVIOUS
<1> HIDE DEF t
<1>3. \A i \in 1..Len(s) : \E k \in 1..Len(p) : k < Len(p) /\ p[k] = s[i]
  <2> TAKE i \in 1..Len(s)
  <2>1. PICK k \in 1..Len(p) : p[k] = s[i]
    BY DEF WithinOf
  <2>2. k # Len(p)
    BY <2>1 DEF Missing, IsLast
  <2> QED
    BY <1>2, <2>1, <2>2
<1>4. WithinOf(t, p)
  BY <1>1, <1>2 DEF WithinOf, IsLast
<1>5. InOrderOf(t, p)
  <2> SUFFICES ASSUME NEW i \in 1..Len(t), NEW j \in 1..Len(t), i < j
               PROVE  \E k, l \in 1..Len(p) : k < l /\ p[k] = t[i] /\ p[l] = t[j]
    BY DEF InOrderOf
  <2>1. i \in 1..Len(s) /\ j \in 1..(Len(s) + 1)
    BY <1>1, <1>2
  <2>2. CASE j \in 1..Len(s)
    BY <1>1, <2>1, <2>2 DEF InOrderOf
  <2>3. CASE j = Len(s) + 1
    BY <1>1, <1>2, <1>3, <2>1, <2>3 DEF IsLast
  <2> QED
    BY <1>2, <2>1, <2>2, <2>3
<1> QED
  BY <1>4, <1>5 DEF t

LEMMA PostedAppend ==
    ASSUME NEW S, NEW s \in Seq(S), NEW p \in Seq(S), NEW h \in S,
           WithinOf(s, p), InOrderOf(s, p), Missing(h, p)
    PROVE  /\ WithinOf(s, Append(p, h)) /\ InOrderOf(s, Append(p, h))
           /\ Missing(h, s) /\ IsLast(h, Append(p, h))
<1> DEFINE t == Append(p, h)
<1>1. Len(t) = Len(p) + 1 /\ t[Len(p) + 1] = h /\ \A i \in 1..Len(p) : t[i] = p[i]
  OBVIOUS
<1>2. Len(s) \in Nat /\ Len(p) \in Nat
  OBVIOUS
<1> HIDE DEF t
<1>3. WithinOf(s, t)
  BY <1>1, <1>2 DEF WithinOf
<1>4. InOrderOf(s, t)
  <2> SUFFICES ASSUME NEW i \in 1..Len(s), NEW j \in 1..Len(s), i < j
               PROVE  \E k, l \in 1..Len(t) : k < l /\ t[k] = s[i] /\ t[l] = s[j]
    BY DEF InOrderOf
  <2>1. PICK k \in 1..Len(p), l \in 1..Len(p) : k < l /\ p[k] = s[i] /\ p[l] = s[j]
    BY DEF InOrderOf
  <2> QED
    BY <1>1, <1>2, <2>1
<1>5. Missing(h, s)
  BY DEF WithinOf, Missing
<1>6. IsLast(h, t)
  BY <1>1, <1>2 DEF IsLast
<1> QED
  BY <1>3, <1>4, <1>5, <1>6 DEF t

LEMMA ReadKeepsHints == ASSUME TypeOK, HintInv, ReadNote PROVE HintInv'
<1>1. heard \in Seq(Hints) /\ posted \in Seq(Hints) /\ note \in Hints \cup {NoNote}
  BY DEF TypeOK
<1>2. CASE note = NoNote
  BY <1>2 DEF ReadNote, sharedVars, HintInv
<1>3. CASE note # NoNote
  <2>1. heard' = Append(heard, note) /\ UNCHANGED <<note, posted>> /\ pc' = "clearing note" /\ note \in Hints
    BY <1>1, <1>3 DEF ReadNote, sharedVars
  <2>2. IsLast(note, posted) /\ Missing(note, heard)
    BY <1>3 DEF HintInv, ReadNote
  <2>3. Once(heard')
    BY <1>1, <2>1, <2>2, OnceAppend DEF HintInv
  <2>4. WithinOf(heard', posted) /\ InOrderOf(heard', posted)
    BY <1>1, <2>1, <2>2, HeardAppend DEF HintInv
  <2> QED
    BY <2>1, <2>2, <2>3, <2>4 DEF HintInv
<1> QED
  BY <1>2, <1>3

LEMMA PostKeepsHints == ASSUME TypeOK, HintInv, NEW h \in Hints, PostHint(h) PROVE HintInv'
<1>1. heard \in Seq(Hints) /\ posted \in Seq(Hints)
  BY DEF TypeOK
<1>2. posted' = Append(posted, h) /\ note' = h /\ UNCHANGED <<heard, pc>> /\ Missing(h, posted)
  BY DEF PostHint, loopVars, Missing
<1>3. Once(posted')
  BY <1>1, <1>2, OnceAppend DEF HintInv
<1>4. WithinOf(heard, posted') /\ InOrderOf(heard, posted') /\ Missing(h, heard) /\ IsLast(h, posted')
  BY <1>1, <1>2, PostedAppend DEF HintInv
<1> QED
  BY <1>2, <1>3, <1>4 DEF HintInv

LEMMA HintNext == TypeOK /\ HintInv /\ [Next]_vars => HintInv'
<1> SUFFICES ASSUME TypeOK, HintInv, [Next]_vars PROVE HintInv'
  OBVIOUS
<1>1. CASE ReadNote
  BY <1>1, ReadKeepsHints
<1>2. CASE ClearNote
  BY <1>2 DEF ClearNote, HintInv
<1>3. CASE \E h \in Hints : PostHint(h)
  BY <1>3, PostKeepsHints
<1>4. CASE ~ReadNote /\ ~ClearNote /\ (Step \/ UNCHANGED vars)
  <2>1. UNCHANGED <<note, heard, posted>> /\ (pc = "clearing note" => pc' = pc)
    BY <1>4 DEF Step, vars, loopVars, sharedVars, NextIteration, OutOfIterations, Compact, DontCompact,
       ProviderFails, Respond, CheckStuck, Answer, VerifyPasses, VerifyFails,
       CallTool, Conclude, FinalVerify, Classify
  <2> QED
    BY <2>1 DEF HintInv
<1> QED
  BY <1>1, <1>2, <1>3, <1>4 DEF Next

\* However the posting of hints and the loop's read and clear of the note come
\* to follow each other (runner.go:574, run_extras.go), a hint is heard once at
\* most and none before an earlier one; it may be lost.
THEOREM HintsOnceInOrder == Safety => []HintsComeOnce
<1>1. HintInv => HintsComeOnce
  BY DEF HintInv, Once, InOrderOf, HintsComeOnce
<1> QED
  BY <1>1, TypeCorrect, HintInit, HintNext, PTL DEF Safety

-----------------------------------------------------------------------------
\* The user's messages stand at odd places, the agent's at even ones, and
\* results stand behind the calls they answer.
Sides(s) == \A i \in 1..Len(s) : ByAgent(s[i]) <=> i % 2 = 0
Follow(s) == \A i \in 1..Len(s) :
    s[i].kind = "results" => i > 1 /\ s[i - 1] = Reply(s[i].turn, s[i].n)

TurnInv ==
    /\ Sides(msgs) /\ Follow(msgs) /\ Len(msgs) > 0
    /\ pc \in {"next", "compacting", "reading note", "clearing note", "asking", "checking", "answering"} =>
         Len(msgs) % 2 = 1
    /\ pc \in {"verifying", "calling"} => Len(msgs) % 2 = 0
    /\ pc = "calling" => msgs[Len(msgs)] = Reply(iter, calls)

LEMMA TurnInit == Init => TurnInv
<1> SUFFICES ASSUME Init PROVE TurnInv
  OBVIOUS
<1>1. Len(msgs) = 1 /\ msgs[1] = Seed /\ pc = "next"
  BY DEF Init
<1> QED
  BY <1>1 DEF TurnInv, Sides, Follow, ByAgent, Seed

\* A message goes where its side's turn is.
LEMMA TurnAppend ==
    ASSUME NEW s \in Seq(MessageType), NEW m \in MessageType, Sides(s), Follow(s), Len(s) > 0,
           ByAgent(m) <=> Len(s) % 2 = 1,
           m.kind = "results" => s[Len(s)] = Reply(m.turn, m.n)
    PROVE  /\ Sides(Append(s, m)) /\ Follow(Append(s, m))
           /\ Len(Append(s, m)) = Len(s) + 1 /\ Append(s, m)[Len(s) + 1] = m
<1> DEFINE t == Append(s, m)
<1>1. Len(t) = Len(s) + 1 /\ t[Len(s) + 1] = m /\ \A i \in 1..Len(s) : t[i] = s[i]
  OBVIOUS
<1>2. Len(s) \in Nat
  OBVIOUS
<1> HIDE DEF t
<1>3. Sides(t)
  <2> SUFFICES ASSUME NEW i \in 1..Len(t) PROVE ByAgent(t[i]) <=> i % 2 = 0
    BY DEF Sides
  <2>1. CASE i \in 1..Len(s)
    BY <1>1, <2>1 DEF Sides
  <2>2. CASE i = Len(s) + 1
    BY <1>1, <1>2, <2>2
  <2> QED
    BY <1>1, <1>2, <2>1, <2>2
<1>4. Follow(t)
  <2> SUFFICES ASSUME NEW i \in 1..Len(t), t[i].kind = "results"
               PROVE  i > 1 /\ t[i - 1] = Reply(t[i].turn, t[i].n)
    BY DEF Follow
  <2>1. CASE i \in 1..Len(s)
    <3>1. i > 1 /\ s[i - 1] = Reply(s[i].turn, s[i].n)
      BY <1>1, <2>1 DEF Follow
    <3> QED
      BY <1>1, <1>2, <2>1, <3>1
  <2>2. CASE i = Len(s) + 1
    BY <1>1, <1>2, <2>2
  <2> QED
    BY <1>1, <1>2, <2>1, <2>2
<1> QED
  BY <1>1, <1>3, <1>4 DEF t

LEMMA ConcatPlaces ==
    ASSUME NEW s \in Seq(MessageType), NEW t \in Seq(MessageType)
    PROVE  /\ s \o t \in Seq(MessageType) /\ Len(s \o t) = Len(s) + Len(t)
           /\ \A i \in 1..Len(s) : (s \o t)[i] = s[i]
           /\ \A i \in 1..Len(t) : (s \o t)[Len(s) + i] = t[i]
<1> DEFINE u == s \o t
<1>1. /\ u \in Seq(MessageType) /\ Len(u) = Len(s) + Len(t)
      /\ \A i \in 1..(Len(s) + Len(t)) : u[i] = IF i <= Len(s) THEN s[i] ELSE t[i - Len(s)]
  BY ConcatProperties
<1>2. Len(s) \in Nat /\ Len(t) \in Nat
  OBVIOUS
<1> HIDE DEF u
<1>3. \A i \in 1..Len(s) : u[i] = s[i]
  BY <1>1, <1>2
<1>4. \A i \in 1..Len(t) : u[Len(s) + i] = t[i]
  <2> TAKE i \in 1..Len(t)
  <2>1. Len(s) + i \in 1..(Len(s) + Len(t)) /\ ~(Len(s) + i <= Len(s)) /\ Len(s) + i - Len(s) = i
    BY <1>2
  <2> QED
    BY <1>1, <2>1
<1> QED
  BY <1>1, <1>3, <1>4 DEF u

\* What stands where in a compacted history.
LEMMA CompactedPlaces ==
    ASSUME NEW m \in Seq(MessageType), Len(m) - HeadKeep - TailKeep >= MinMiddle
    PROVE  /\ Len(Compacted(m)) = HeadKeep + 1 + TailKeep
           /\ \A i \in 1..HeadKeep : Compacted(m)[i] = m[i]
           /\ Compacted(m)[HeadKeep + 1] = Summary
           /\ \A i \in 1..TailKeep : Compacted(m)[HeadKeep + 1 + i] = m[Len(m) - TailKeep + i]
<1> USE LoopAssumption
<1> DEFINE h == SubSeq(m, 1, HeadKeep)
           t == SubSeq(m, Len(m) - TailKeep + 1, Len(m))
           u == <<Summary>>
<1>1. h \in Seq(MessageType) /\ Len(h) = HeadKeep /\ \A i \in 1..HeadKeep : h[i] = m[i]
  BY SubSeqProperties
<1>2. t \in Seq(MessageType) /\ Len(t) = TailKeep /\ \A i \in 1..TailKeep : t[i] = m[Len(m) - TailKeep + i]
  BY SubSeqProperties
<1>3. u \in Seq(MessageType) /\ Len(u) = 1 /\ u[1] = Summary
  BY DEF Summary, MessageType
<1>4. Compacted(m) = (h \o u) \o t
  BY DEF Compacted
<1> HIDE DEF h, t, u
<1>5. /\ h \o u \in Seq(MessageType) /\ Len(h \o u) = Len(h) + Len(u)
      /\ \A i \in 1..Len(h) : (h \o u)[i] = h[i]
      /\ \A i \in 1..Len(u) : (h \o u)[Len(h) + i] = u[i]
  <2>1. h \in Seq(MessageType) /\ u \in Seq(MessageType)
    BY <1>1, <1>3
  <2> QED
    BY <2>1, ConcatPlaces
<1> DEFINE v == h \o u
           c == v \o t
<1>6. /\ v \in Seq(MessageType) /\ Len(v) = HeadKeep + 1 /\ v[HeadKeep + 1] = Summary
      /\ \A i \in 1..HeadKeep : v[i] = m[i]
  BY <1>1, <1>3, <1>5
<1> HIDE DEF v
<1>7. /\ Len(c) = Len(v) + Len(t)
      /\ \A i \in 1..Len(v) : c[i] = v[i]
      /\ \A i \in 1..Len(t) : c[Len(v) + i] = t[i]
  <2>1. v \in Seq(MessageType) /\ t \in Seq(MessageType)
    BY <1>2, <1>6
  <2> QED
    BY <2>1, ConcatPlaces DEF c
<1> HIDE DEF c
<1>8. Compacted(m) = c
  BY <1>4 DEF c, v
<1>9. /\ Len(c) = HeadKeep + 1 + TailKeep
      /\ \A i \in 1..HeadKeep : c[i] = m[i]
      /\ c[HeadKeep + 1] = Summary
  BY <1>2, <1>6, <1>7
<1>10. \A i \in 1..TailKeep : c[HeadKeep + 1 + i] = m[Len(m) - TailKeep + i]
  BY <1>2, <1>6, <1>7
<1> QED
  BY <1>8, <1>9, <1>10

\* A compaction that keeps whole turns at both ends moves none to the other
\* side's place.
LEMMA TurnCompact ==
    ASSUME NEW m \in Seq(MessageType), Len(m) - HeadKeep - TailKeep >= MinMiddle,
           HeadKeep % 2 = 0, TailKeep % 2 = 0, Len(m) % 2 = 1, Sides(m), Follow(m)
    PROVE  Sides(Compacted(m)) /\ Follow(Compacted(m)) /\ Len(Compacted(m)) % 2 = 1
<1> USE LoopAssumption
<1> DEFINE c == Compacted(m)
           h == HeadKeep
           back == Len(m) - TailKeep - h - 1
<1>1. /\ Len(c) = h + 1 + TailKeep /\ c[h + 1] = Summary
      /\ \A i \in 1..h : c[i] = m[i]
      /\ \A i \in 1..TailKeep : c[h + 1 + i] = m[Len(m) - TailKeep + i]
  BY CompactedPlaces
<1>2. Len(m) \in Nat /\ back \in Nat /\ back % 2 = 0
  OBVIOUS
<1>3. \A i \in (h + 2)..(h + 1 + TailKeep) : c[i] = m[back + i] /\ back + i \in 1..Len(m)
  <2> TAKE i \in (h + 2)..(h + 1 + TailKeep)
  <2>1. i - h - 1 \in 1..TailKeep /\ h + 1 + (i - h - 1) = i
        /\ Len(m) - TailKeep + (i - h - 1) = back + i
    BY <1>2
  <2> DEFINE k == i - h - 1
  <2>2. k \in 1..TailKeep /\ i = h + 1 + k /\ Len(m) - TailKeep + k = back + i
    BY <2>1
  <2> HIDE DEF k, c
  <2>3. c[h + 1 + k] = m[Len(m) - TailKeep + k]
    BY <1>1, <2>2
  <2>4. back + i \in 1..Len(m)
    BY <1>2
  <2> QED
    BY <2>2, <2>3, <2>4
<1> HIDE DEF c, back
<1>4. \A i \in 1..Len(c) : i \in 1..h \/ i = h + 1 \/ i \in (h + 2)..(h + 1 + TailKeep)
  BY <1>1
<1>5. Sides(c)
  <2> SUFFICES ASSUME NEW i \in 1..Len(c) PROVE ByAgent(c[i]) <=> i % 2 = 0
    BY DEF Sides
  <2>1. CASE i \in 1..h
    BY <1>1, <1>2, <2>1, i \in 1..Len(m) DEF Sides, back
  <2>2. CASE i = h + 1
    BY <1>1, <2>2 DEF ByAgent, Summary
  <2>3. CASE i \in (h + 2)..(h + 1 + TailKeep)
    <3>1. ByAgent(m[back + i]) <=> (back + i) % 2 = 0
      BY <1>3, <2>3 DEF Sides
    <3>2. (back + i) % 2 = 0 <=> i % 2 = 0
      BY <1>2, <2>3
    <3> QED
      BY <1>3, <2>3, <3>1, <3>2
  <2> QED
    BY <1>4, <2>1, <2>2, <2>3
<1>6. Follow(c)
  <2> SUFFICES ASSUME NEW i \in 1..Len(c), c[i].kind = "results"
               PROVE  i > 1 /\ c[i - 1] = Reply(c[i].turn, c[i].n)
    BY DEF Follow
  <2>1. CASE i \in 1..h
    <3>1. i > 1 /\ m[i - 1] = Reply(m[i].turn, m[i].n)
      BY <1>1, <1>2, <2>1, i \in 1..Len(m) DEF Follow, back
    <3> QED
      BY <1>1, <2>1, <3>1
  <2>2. i # h + 1
    BY <1>1 DEF Summary
  <2>3. i # h + 2
    BY <1>5 DEF Sides, ByAgent
  <2>4. CASE i \in (h + 3)..(h + 1 + TailKeep)
    <3>1. /\ i \in (h + 2)..(h + 1 + TailKeep) /\ i - 1 \in (h + 2)..(h + 1 + TailKeep)
          /\ back + (i - 1) = (back + i) - 1 /\ i > 1
      <4>1. h \in Nat /\ TailKeep \in Nat /\ back \in Nat
        BY <1>2
      <4> HIDE DEF h
      <4>2. i \in Nat /\ h + 3 <= i /\ i <= h + 1 + TailKeep
        BY <2>4, <4>1
      <4>3. i \in (h + 2)..(h + 1 + TailKeep)
        BY <4>1, <4>2
      <4>4. i - 1 \in (h + 2)..(h + 1 + TailKeep)
        BY <4>1, <4>2
      <4>5. back + (i - 1) = (back + i) - 1 /\ i > 1
        BY <4>1, <4>2
      <4> QED
        BY <4>3, <4>4, <4>5
    <3>2. c[i] = m[back + i] /\ c[i - 1] = m[(back + i) - 1] /\ back + i \in 1..Len(m)
      BY <1>3, <3>1
    <3> DEFINE j == back + i
    <3>3. m[j].kind = "results" /\ j \in 1..Len(m)
      BY <3>2
    <3>4. m[j - 1] = Reply(m[j].turn, m[j].n)
      BY <3>3 DEF Follow
    <3> QED
      BY <3>1, <3>2, <3>4
  <2> QED
    BY <1>4, <2>1, <2>2, <2>3, <2>4
<1> QED
  BY <1>1, <1>5, <1>6 DEF c

LEMMA TurnNext ==
    ASSUME HeadKeep % 2 = 0, TailKeep % 2 = 0, TypeOK, TurnInv, [Next]_vars
    PROVE  TurnInv'
<1>1. msgs \in Seq(MessageType) /\ iter \in 0..MaxIter /\ calls \in 0..MaxCalls /\ results \in 0..calls
  BY DEF TypeOK
<1>2. Len(msgs) \in Nat
  BY <1>1
<1>3. \A i \in 0..MaxIter, n \in 0..MaxCalls : {Reply(i, n), Results(i, n), Feedback(i)} \subseteq MessageType
  BY MessageTypes
<1>4. CASE Compact
  <2>1. pc = "compacting" /\ Len(msgs) - HeadKeep - TailKeep >= MinMiddle
        /\ msgs' = Compacted(msgs) /\ pc' = "reading note"
    BY <1>4 DEF Compact
  <2>2. Sides(msgs') /\ Follow(msgs') /\ Len(msgs') % 2 = 1 /\ Len(msgs') > 0
    <3>1. Sides(msgs) /\ Follow(msgs) /\ Len(msgs) % 2 = 1
      BY <2>1 DEF TurnInv
    <3>2. Sides(Compacted(msgs)) /\ Follow(Compacted(msgs)) /\ Len(Compacted(msgs)) % 2 = 1
      BY <1>1, <2>1, <3>1, TurnCompact
    <3>3. Len(msgs') = HeadKeep + 1 + TailKeep
      BY <1>1, <2>1, CompactedPlaces
    <3>4. HeadKeep \in Nat /\ TailKeep \in Nat
      BY LoopAssumption
    <3>5. Len(msgs') > 0
      BY <3>3, <3>4
    <3> QED
      BY <2>1, <3>2, <3>5
  <2> QED
    BY <2>1, <2>2 DEF TurnInv
<1>5. CASE Answer
  <2>1. /\ pc = "answering" /\ msgs' = Append(msgs, Reply(iter, calls)) /\ pc' \in {"verifying", "calling"}
        /\ UNCHANGED <<iter, calls>>
    BY <1>5 DEF Answer
  <2>2. Reply(iter, calls) \in MessageType /\ ByAgent(Reply(iter, calls)) /\ Reply(iter, calls).kind # "results"
    BY <1>1, <1>3 DEF Reply, ByAgent
  <2>3. /\ Sides(msgs') /\ Follow(msgs') /\ Len(msgs') = Len(msgs) + 1
        /\ msgs'[Len(msgs) + 1] = Reply(iter, calls)
    BY <1>1, <2>1, <2>2, TurnAppend DEF TurnInv
  <2>4. Len(msgs) % 2 = 1 /\ Len(msgs) > 0
    BY <2>1 DEF TurnInv
  <2>5. Len(msgs') > 0 /\ Len(msgs') % 2 = 0 /\ msgs'[Len(msgs')] = Reply(iter', calls')
    BY <1>2, <2>1, <2>3, <2>4
  <2> QED
    BY <2>1, <2>3, <2>5 DEF TurnInv
<1>6. CASE VerifyFails
  <2>1. pc = "verifying" /\ msgs' = Append(msgs, Feedback(iter)) /\ pc' = "next"
    BY <1>6 DEF VerifyFails
  <2>2. Feedback(iter) \in MessageType /\ ~ByAgent(Feedback(iter)) /\ Feedback(iter).kind # "results"
    BY <1>1, <1>3 DEF Feedback, ByAgent
  <2>3. Len(msgs) % 2 = 0 /\ Len(msgs) > 0
    BY <2>1 DEF TurnInv
  <2>4. Sides(msgs') /\ Follow(msgs') /\ Len(msgs') = Len(msgs) + 1
    BY <1>1, <2>1, <2>2, <2>3, TurnAppend DEF TurnInv
  <2> QED
    BY <1>2, <2>1, <2>3, <2>4 DEF TurnInv
<1>7. CASE Conclude
  <2> DEFINE m == Results(iter, calls)
  <2>1. pc = "calling" /\ msgs' = Append(msgs, m) /\ pc' = "next"
    BY <1>7 DEF Conclude
  <2>2. m \in MessageType /\ ~ByAgent(m) /\ m.turn = iter /\ m.n = calls
    BY <1>1, <1>3 DEF Results, ByAgent
  <2>3. Len(msgs) % 2 = 0 /\ Len(msgs) > 0 /\ msgs[Len(msgs)] = Reply(m.turn, m.n)
    BY <2>1, <2>2 DEF TurnInv
  <2> HIDE DEF m
  <2>4. Sides(msgs') /\ Follow(msgs') /\ Len(msgs') = Len(msgs) + 1
    BY <1>1, <2>1, <2>2, <2>3, TurnAppend DEF TurnInv
  <2> QED
    BY <1>2, <2>1, <2>3, <2>4 DEF TurnInv
<1>8. CASE CallTool
  BY <1>8 DEF CallTool, TurnInv
<1>9. CASE ~Compact /\ ~Answer /\ ~VerifyFails /\ ~Conclude /\ ~CallTool
  <2> DEFINE Thinking == {"next", "compacting", "reading note", "clearing note", "asking", "checking", "answering"}
  <2>1. UNCHANGED msgs /\ (\/ pc \in Thinking /\ pc' \in Thinking
                           \/ pc' \in {"exiting", "classifying", "over"}
                           \/ UNCHANGED <<pc, iter, calls>>)
    BY <1>9 DEF Next, Step, vars, loopVars, NextIteration, OutOfIterations, DontCompact,
       ReadNote, ClearNote, ProviderFails, Respond, CheckStuck, VerifyPasses,
       FinalVerify, Classify, PostHint
  <2> QED
    BY <2>1 DEF TurnInv
<1> QED
  BY <1>4, <1>5, <1>6, <1>7, <1>8, <1>9

\* What AgentLoop.Run sends alternates between the sides and keeps results
\* behind their calls, for every length a history may reach, if the compaction
\* keeps whole turns at both ends, as its defaults do (compactor.go:34).
THEOREM TurnsTakeTurns ==
    ASSUME HeadKeep % 2 = 0, TailKeep % 2 = 0
    PROVE  Safety => []TurnsAlternate
<1>1. TypeOK /\ TurnInv => TurnsAlternate
  <2> SUFFICES ASSUME TypeOK, TurnInv, pc = "asking"
               PROVE  /\ ~ByAgent(msgs[1]) /\ ~ByAgent(msgs[Len(msgs)])
                      /\ \A i \in 1..(Len(msgs) - 1) :
                          /\ ByAgent(msgs[i]) # ByAgent(msgs[i + 1])
                          /\ msgs[i + 1].kind = "results" => msgs[i] = Reply(msgs[i + 1].turn, msgs[i + 1].n)
    BY DEF TurnsAlternate
  <2>1. Len(msgs) \in Nat /\ Len(msgs) > 0 /\ Len(msgs) % 2 = 1
    <3>1. msgs \in Seq(MessageType)
      BY DEF TypeOK
    <3> QED
      BY <3>1 DEF TurnInv
  <2>2. ~ByAgent(msgs[1]) /\ ~ByAgent(msgs[Len(msgs)])
    BY <2>1 DEF TurnInv, Sides
  <2>3. ASSUME NEW i \in 1..(Len(msgs) - 1)
        PROVE  /\ ByAgent(msgs[i]) # ByAgent(msgs[i + 1])
               /\ msgs[i + 1].kind = "results" => msgs[i] = Reply(msgs[i + 1].turn, msgs[i + 1].n)
    <3>1. i \in 1..Len(msgs) /\ i + 1 \in 1..Len(msgs) /\ (i + 1) - 1 = i /\ (i % 2 = 0 <=> (i + 1) % 2 # 0)
      BY <2>1
    <3>2. (ByAgent(msgs[i]) <=> i % 2 = 0) /\ (ByAgent(msgs[i + 1]) <=> (i + 1) % 2 = 0)
      BY <3>1 DEF TurnInv, Sides
    <3>3. msgs[i + 1].kind = "results" => msgs[(i + 1) - 1] = Reply(msgs[i + 1].turn, msgs[i + 1].n)
      BY <3>1 DEF TurnInv, Follow
    <3>4. ByAgent(msgs[i]) # ByAgent(msgs[i + 1])
      BY <3>1, <3>2 DEF ByAgent
    <3> QED
      BY <3>1, <3>3, <3>4
  <2> QED
    BY <2>2, <2>3
<1>2. TypeOK /\ TurnInv /\ [Next]_vars => TurnInv'
  BY TurnNext
<1> QED
  BY <1>1, <1>2, TurnInit, TypeCorrect, PTL DEF Safety

-----------------------------------------------------------------------------
\* The detector (core/stuck/detector.go).  The events that the loop emits.
CallOf(c) == [type |-> "tool_call", name |-> c.action.tool, input |-> Input(c.action)]
ResultOf(c) == [type |-> "tool_result", name |-> c.action.tool, out |-> c.out]
Started == [type |-> "iteration_start"]
Response(n) == [type |-> "provider_response", calls |-> n]
Verifies == [type |-> "verify_run"]
Verified(n) == [type |-> "verify_result", passed |-> n]

Deeds == UNION {Range(turn.calls) : turn \in Turns}
Emitted == {Started, Verifies} \cup {Response(n) : n \in Nat} \cup {Verified(n) : n \in Nat}
           \cup {CallOf(c) : c \in Deeds} \cup {ResultOf(c) : c \in Deeds}

Sg == INSTANCE Inductions WITH Op <- SigOn, Claim <- Talks
Rw == INSTANCE Inductions WITH Op <- TalkOn, Claim <- Talks
Gt == INSTANCE Inductions WITH Op <- GatherOn, Claim <- Talks
Wk == INSTANCE Inductions WITH Op <- PairUp, Claim <- Talks

LEMMA FlattenOfOneMore ==
    ASSUME NEW T, NEW s \in Seq(Seq(T)), NEW x \in Seq(T)
    PROVE  FlattenSeq(Append(s, x)) = FlattenSeq(s) \o x
BY Sg!FlatOfOneMore DEF Sg!Flat, Sg!FlattenSeq, FlattenSeq

LEMMA LeastOf ==
    ASSUME NEW S, S \subseteq Nat, S # {}
    PROVE  Min(S) \in S /\ \A m \in S : Min(S) <= m
<1>1. \E n \in S : \A m \in S : n <= m
  BY Sg!Least
<1> QED
  BY <1>1 DEF Min

LEMMA TurnTypes ==
    ASSUME NEW turn \in Turns
    PROVE  turn.passed \in Nat /\ turn.calls \in Seq(Deeds) /\ Len(turn.calls) \in Nat
<1>1. turn.passed \in Nat /\ turn.calls \in Seq(Range(turn.calls))
  BY StuckAssumption
<1>2. Range(turn.calls) \subseteq Deeds
  BY DEF Deeds
<1> DEFINE s == turn.calls
           R == Range(turn.calls)
<1>3. s \in Seq(R) /\ R \subseteq Deeds
  BY <1>1, <1>2
<1> HIDE DEF s, R
<1>4. s \in Seq(Deeds) /\ Len(s) \in Nat
  BY <1>3
<1> QED
  BY <1>1, <1>4 DEF s

LEMMA DeedTypes == \A c \in Deeds : c.action.long \in BOOLEAN
BY StuckAssumption DEF Deeds

LEMMA WhatIsEmitted ==
    ASSUME NEW turn \in Turns
    PROVE  /\ Started \in Emitted /\ Verifies \in Emitted
           /\ \A n \in Nat : Response(n) \in Emitted /\ Verified(n) \in Emitted
           /\ \A c \in Deeds : CallOf(c) \in Emitted /\ ResultOf(c) \in Emitted
BY DEF Emitted

LEMMA CallIsTwoEvents == ASSUME NEW c PROVE CallEvents(c) = <<CallOf(c), ResultOf(c)>>
BY DEF CallEvents, CallOf, ResultOf

\* The kinds of event differ.
LEMMA KindsDiffer ==
    /\ Started.type = "iteration_start" /\ Verifies.type = "verify_run"
    /\ \A n : Response(n).type = "provider_response" /\ Response(n).calls = n
    /\ \A n : Verified(n).type = "verify_result" /\ Verified(n).passed = n
    /\ \A c : CallOf(c).type = "tool_call" /\ CallOf(c).name = c.action.tool /\ CallOf(c).input = Input(c.action)
    /\ \A c : ResultOf(c).type = "tool_result" /\ ResultOf(c).name = c.action.tool /\ ResultOf(c).out = c.out
BY DEF Started, Verifies, Response, Verified, CallOf, ResultOf

LEMMA EventIsOne ==
    ASSUME NEW e \in Emitted
    PROVE  /\ e.type \in {"iteration_start", "verify_run", "provider_response", "verify_result", "tool_call", "tool_result"}
           /\ e.type = "iteration_start" <=> e = Started
           /\ e.type = "verify_run" <=> e = Verifies
           /\ e.type = "provider_response" <=> \E n \in Nat : e = Response(n)
           /\ e.type = "verify_result" <=> \E n \in Nat : e = Verified(n)
           /\ e.type = "tool_call" <=> \E c \in Deeds : e = CallOf(c)
           /\ e.type = "tool_result" <=> \E c \in Deeds : e = ResultOf(c)
<1>1. \/ e = Started \/ e = Verifies \/ (\E n \in Nat : e = Response(n)) \/ (\E n \in Nat : e = Verified(n))
      \/ (\E c \in Deeds : e = CallOf(c)) \/ (\E c \in Deeds : e = ResultOf(c))
  BY DEF Emitted
<1>2. \/ (e.type = "iteration_start" /\ e = Started) \/ (e.type = "verify_run" /\ e = Verifies)
      \/ (e.type = "provider_response" /\ \E n \in Nat : e = Response(n))
      \/ (e.type = "verify_result" /\ \E n \in Nat : e = Verified(n))
      \/ (e.type = "tool_call" /\ \E c \in Deeds : e = CallOf(c))
      \/ (e.type = "tool_result" /\ \E c \in Deeds : e = ResultOf(c))
  BY <1>1, KindsDiffer
<1>3. /\ e = Started => e.type = "iteration_start"
      /\ e = Verifies => e.type = "verify_run"
      /\ (\E n \in Nat : e = Response(n)) => e.type = "provider_response"
      /\ (\E n \in Nat : e = Verified(n)) => e.type = "verify_result"
      /\ (\E c \in Deeds : e = CallOf(c)) => e.type = "tool_call"
      /\ (\E c \in Deeds : e = ResultOf(c)) => e.type = "tool_result"
  BY KindsDiffer
<1> QED
  BY <1>2, <1>3

-----------------------------------------------------------------------------
\* What the detector's walks make of nothing, and of an event more.
LEMMA NoEvents ==
    /\ Sigs(<<>>) = <<>> /\ Row(<<>>) = [cur |-> 0, max |-> 0] /\ Gather(<<>>) = <<>>
<1>1. Sigs(<<>>) = Sg!Fold(<<>>, <<>>)
  BY DEF Sigs, Sg!Fold, FoldLeft, Sg!FoldLeft, MapThenFoldSet, Sg!MapThenFoldSet, Max, Sg!Max
<1>2. Row(<<>>) = Rw!Fold([cur |-> 0, max |-> 0], <<>>)
  BY DEF Row, Rw!Fold, FoldLeft, Rw!FoldLeft, MapThenFoldSet, Rw!MapThenFoldSet, Max, Rw!Max
<1>3. Gather(<<>>) = Gt!Fold(<<>>, <<>>)
  BY DEF Gather, Gt!Fold, FoldLeft, Gt!FoldLeft, MapThenFoldSet, Gt!MapThenFoldSet, Max, Gt!Max
<1> QED
  BY <1>1, <1>2, <1>3, Sg!FoldOfNothing, Rw!FoldOfNothing, Gt!FoldOfNothing

LEMMA OneEventMore ==
    ASSUME NEW w \in Seq(Emitted), NEW e \in Emitted
    PROVE  /\ Sigs(Append(w, e)) = SigOn(Sigs(w), e)
           /\ Row(Append(w, e)) = TalkOn(Row(w), e)
           /\ Gather(Append(w, e)) = GatherOn(Gather(w), e)
<1>1. \A s : Sigs(s) = Sg!Fold(<<>>, s)
  BY DEF Sigs, Sg!Fold, FoldLeft, Sg!FoldLeft, MapThenFoldSet, Sg!MapThenFoldSet, Max, Sg!Max
<1>2. \A s : Row(s) = Rw!Fold([cur |-> 0, max |-> 0], s)
  BY DEF Row, Rw!Fold, FoldLeft, Rw!FoldLeft, MapThenFoldSet, Rw!MapThenFoldSet, Max, Rw!Max
<1>3. \A s : Gather(s) = Gt!Fold(<<>>, s)
  BY DEF Gather, Gt!Fold, FoldLeft, Gt!FoldLeft, MapThenFoldSet, Gt!MapThenFoldSet, Max, Gt!Max
<1>4. Sg!Fold(<<>>, Append(w, e)) = SigOn(Sg!Fold(<<>>, w), e)
  BY Sg!FoldOfOneMore
<1>5. Rw!Fold([cur |-> 0, max |-> 0], Append(w, e)) = TalkOn(Rw!Fold([cur |-> 0, max |-> 0], w), e)
  BY Rw!FoldOfOneMore
<1>6. Gt!Fold(<<>>, Append(w, e)) = GatherOn(Gt!Fold(<<>>, w), e)
  BY Gt!FoldOfOneMore
<1> QED
  BY <1>1, <1>2, <1>3, <1>4, <1>5, <1>6

LEMMA WalkSteps ==
    /\ Walk(<<>>) = [next |-> 1, found |-> {}]
    /\ \A T : \A s \in Seq(T), x \in T : Walk(Append(s, x)) = PairUp(Walk(s), x)
<1>1. \A s : Walk(s) = Wk!Fold([next |-> 1, found |-> {}], s)
  BY DEF Walk, Wk!Fold, FoldLeft, Wk!FoldLeft, MapThenFoldSet, Wk!MapThenFoldSet, Max, Wk!Max
<1>2. ASSUME NEW T, NEW s \in Seq(T), NEW x \in T
      PROVE  Wk!Fold([next |-> 1, found |-> {}], Append(s, x)) = PairUp(Wk!Fold([next |-> 1, found |-> {}], s), x)
  BY Wk!FoldOfOneMore
<1> QED
  BY <1>1, <1>2, Wk!FoldOfNothing

From(w, p) == SubSeq(w, p, Len(w))

LEMMA FromAPlace ==
    ASSUME NEW T, NEW w \in Seq(T), NEW p \in 1..Len(w) + 1
    PROVE  /\ From(w, p) \in Seq(T) /\ Len(From(w, p)) = Len(w) - p + 1
           /\ \A i \in 1..Len(w) - p + 1 : From(w, p)[i] = w[p + i - 1]
BY DEF From

LEMMA FromTheStart == ASSUME NEW T, NEW w \in Seq(T) PROVE From(w, 1) = w
BY DEF From

LEMMA FromOfOneMore ==
    ASSUME NEW T, NEW w \in Seq(T), NEW e \in T
    PROVE  /\ \A p \in 1..Len(w) + 1 : From(Append(w, e), p) = Append(From(w, p), e)
           /\ From(Append(w, e), Len(w) + 2) = <<>>
<1>1. ASSUME NEW p \in 1..Len(w) + 1 PROVE From(Append(w, e), p) = Append(From(w, p), e)
  <2> DEFINE a == Append(w, e)
             f == From(a, p)
             g == From(w, p)
             n == Len(w)
  <2>1. n \in Nat /\ a \in Seq(T) /\ Len(a) = n + 1 /\ a[n + 1] = e /\ (\A i \in 1..n : a[i] = w[i])
        /\ p \in 1..Len(a) + 1 /\ p \in 1..n + 1
    OBVIOUS
  <2>2. g \in Seq(T) /\ Len(g) = n - p + 1 /\ \A i \in 1..n - p + 1 : g[i] = w[p + i - 1]
    BY FromAPlace
  <2> HIDE DEF a, g, n
  <2>3. f \in Seq(T) /\ Len(f) = n - p + 2 /\ \A i \in 1..n - p + 2 : f[i] = a[p + i - 1]
    <3>1. f \in Seq(T) /\ Len(f) = Len(a) - p + 1 /\ \A i \in 1..Len(a) - p + 1 : f[i] = a[p + i - 1]
      BY <2>1, FromAPlace
    <3>2. Len(a) - p + 1 = n - p + 2
      BY <2>1
    <3> QED
      BY <3>1, <3>2
  <2> HIDE DEF f
  <2>4. Append(g, e) \in Seq(T) /\ Len(Append(g, e)) = n - p + 2
    <3>1. Append(g, e) \in Seq(T) /\ Len(Append(g, e)) = Len(g) + 1
      BY <2>2
    <3> QED
      BY <2>1, <2>2, <3>1
  <2>5. ASSUME NEW i \in 1..n - p + 2 PROVE f[i] = Append(g, e)[i]
    <3>1. CASE i = n - p + 2
      <4>1. p + i - 1 = n + 1 /\ i = Len(g) + 1
        BY <2>1, <2>2, <3>1
      <4>2. Append(g, e)[Len(g) + 1] = e
        BY <2>2
      <4> QED
        BY <2>1, <2>3, <4>1, <4>2
    <3>2. CASE i # n - p + 2
      <4>0. n \in Nat /\ p \in 1..n + 1
        BY <2>1
      <4>1. i \in 1..n - p + 1 /\ p + i - 1 \in 1..n
        BY <3>2, <4>0
      <4>2. Append(g, e)[i] = g[i]
        BY <2>2, <4>1
      <4> QED
        BY <2>1, <2>2, <2>3, <4>1, <4>2
    <3> QED
      BY <3>1, <3>2
  <2>6. f = Append(g, e)
    BY <2>3, <2>4, <2>5, SeqEqual
  <2> QED
    BY <2>6 DEF f, g, a
<1>2. From(Append(w, e), Len(w) + 2) = <<>>
  <2>1. Len(w) \in Nat /\ Append(w, e) \in Seq(T) /\ Len(Append(w, e)) = Len(w) + 1
    OBVIOUS
  <2> DEFINE a == Append(w, e)
             p == Len(w) + 2
  <2>2. a \in Seq(T) /\ p \in 1..Len(a) + 1 /\ Len(a) - p + 1 = 0
    BY <2>1
  <2> HIDE DEF a, p
  <2>3. From(a, p) \in Seq(T) /\ Len(From(a, p)) = 0
    BY <2>2, FromAPlace
  <2> QED
    BY <2>3, EmptySeq DEF a, p
<1> QED
  BY <1>1, <1>2

\* The last events of a buffer are those from a place.
LEMMA LastAreFromAPlace ==
    ASSUME NEW T, NEW w \in Seq(T), NEW n \in Nat, n <= Len(w)
    PROVE  LastOf(w, n) = From(w, Len(w) - n + 1) /\ Len(w) - n + 1 \in 1..Len(w) + 1
BY DEF LastOf, From

-----------------------------------------------------------------------------
\* The types of what the walks keep.
CallsMade == {CallOf(c) : c \in Deeds}
Rows == [cur : Nat, max : Nat]
SomeStats == [verified : BOOLEAN, passing : Nat, events : Seq(Emitted)]

LEMMA WithEventType ==
    ASSUME NEW stat \in SomeStats, NEW e \in Emitted PROVE WithEvent(stat, e) \in SomeStats
<1>1. stat.verified \in BOOLEAN /\ stat.passing \in Nat /\ stat.events \in Seq(Emitted)
  BY DEF SomeStats
<1>2. (IF e.type = "verify_result" THEN e.passed ELSE 0) \in Nat
  <2>1. e.type = "verify_result" => \E n \in Nat : e = Verified(n)
    BY EventIsOne
  <2>2. e.type = "verify_result" => e.passed \in Nat
    BY <2>1, KindsDiffer
  <2> QED
    BY <2>2
<1>3. Append(stat.events, e) \in Seq(Emitted)
  BY <1>1
<1>4. (stat.verified \/ e.type = "verify_run") \in BOOLEAN
  OBVIOUS
<1> DEFINE v == stat.verified \/ e.type = "verify_run"
           k == stat.passing + (IF e.type = "verify_result" THEN e.passed ELSE 0)
           s == Append(stat.events, e)
<1>5. v \in BOOLEAN /\ k \in Nat /\ s \in Seq(Emitted)
  <2>1. k \in Nat
    BY <1>1, <1>2
  <2> QED
    BY <1>3, <1>4, <2>1
<1>6. WithEvent(stat, e) = [verified |-> v, passing |-> k, events |-> s]
  BY DEF WithEvent
<1> HIDE DEF v, k, s
<1> QED
  BY <1>5, <1>6 DEF SomeStats

LEMMA NewStatType == NewStat \in SomeStats
<1>1. <<>> \in Seq(Emitted)
  OBVIOUS
<1> QED
  BY <1>1 DEF NewStat, SomeStats

LEMMA SigOnType ==
    ASSUME NEW s \in Seq(CallsMade), NEW e \in Emitted
    PROVE  SigOn(s, e) \in Seq(CallsMade) /\ (e.type = "tool_call" => e \in CallsMade)
<1>1. e.type = "tool_call" => e \in CallsMade
  BY EventIsOne DEF CallsMade
<1> QED
  BY <1>1 DEF SigOn

\* What an event does to the row of talk.
LEMMA TalkOnType ==
    ASSUME NEW r \in Rows, r.cur <= r.max, NEW e \in Emitted
    PROVE  /\ TalkOn(r, e) \in Rows /\ TalkOn(r, e).cur <= TalkOn(r, e).max
           /\ TalkOn(r, e).max = IF TalkOn(r, e).cur > r.max THEN TalkOn(r, e).cur ELSE r.max
           /\ e = Response(0) => TalkOn(r, e).cur = r.cur + 1
           /\ \A n \in Nat \ {0} : e = Response(n) => TalkOn(r, e).cur = 0
           /\ e.type = "tool_result" => TalkOn(r, e).cur = 0
           /\ e.type \notin {"provider_response", "tool_result"} => TalkOn(r, e).cur = r.cur
<1> DEFINE c == CASE e.type = "provider_response" -> IF e.calls = 0 THEN r.cur + 1 ELSE 0
                  [] e.type = "tool_result" -> 0
                  [] OTHER -> r.cur
           m == IF c > r.max THEN c ELSE r.max
<1>1. r.cur \in Nat /\ r.max \in Nat
  BY DEF Rows
<1>2. c \in Nat
  <2>1. CASE e.type = "provider_response"
    BY <1>1, <2>1
  <2>2. CASE e.type = "tool_result"
    BY <1>1, <2>2
  <2>3. CASE e.type \notin {"provider_response", "tool_result"}
    BY <1>1, <2>3
  <2> QED
    BY <2>1, <2>2, <2>3
<1>3. TalkOn(r, e) = [cur |-> c, max |-> m]
  BY DEF TalkOn
<1>4. /\ e = Response(0) => c = r.cur + 1
      /\ \A n \in Nat \ {0} : e = Response(n) => c = 0
      /\ e.type = "tool_result" => c = 0
      /\ e.type \notin {"provider_response", "tool_result"} => c = r.cur
  <2>1. e = Response(0) => c = r.cur + 1
    BY KindsDiffer, 0 = 0
  <2>2. \A n \in Nat \ {0} : e = Response(n) => c = 0
    <3> SUFFICES ASSUME NEW n \in Nat \ {0}, e = Response(n) PROVE c = 0
      OBVIOUS
    <3>1. e.type = "provider_response" /\ e.calls = n /\ n # 0
      BY KindsDiffer
    <3> QED
      BY <3>1
  <2>3. e.type = "tool_result" => c = 0
    OBVIOUS
  <2>4. e.type \notin {"provider_response", "tool_result"} => c = r.cur
    OBVIOUS
  <2> QED
    BY <2>1, <2>2, <2>3, <2>4
<1> HIDE DEF c
<1>5. m \in Nat /\ c <= m
  BY <1>1, <1>2
<1>6. TalkOn(r, e).cur = c /\ TalkOn(r, e).max = m
  BY <1>3
<1>7. TalkOn(r, e) \in Rows
  BY <1>2, <1>3, <1>5 DEF Rows
<1> QED
  BY <1>4, <1>5, <1>6, <1>7

LEMMA GatherOnDoes ==
    ASSUME NEW s \in Seq(SomeStats), NEW e \in Emitted
    PROVE  /\ GatherOn(s, e) \in Seq(SomeStats)
           /\ e = Started => GatherOn(s, e) = Append(s, NewStat)
           /\ e # Started /\ s = <<>> => GatherOn(s, e) = <<>>
           /\ e # Started /\ s # <<>> =>
                /\ Len(GatherOn(s, e)) = Len(s)
                /\ GatherOn(s, e)[Len(s)] = WithEvent(s[Len(s)], e)
                /\ \A j \in 1..Len(s) - 1 : GatherOn(s, e)[j] = s[j]
<1>1. (e.type = "iteration_start" <=> e = Started)
  BY EventIsOne
<1>2. CASE e = Started
  <2>1. GatherOn(s, e) = Append(s, NewStat)
    BY <1>1, <1>2 DEF GatherOn
  <2> QED
    BY <1>2, <2>1, NewStatType
<1>3. CASE e # Started /\ s = <<>>
  <2>1. GatherOn(s, e) = <<>>
    BY <1>1, <1>3 DEF GatherOn
  <2> QED
    BY <1>3, <2>1
<1>4. CASE e # Started /\ s # <<>>
  <2>1. GatherOn(s, e) = [s EXCEPT ![Len(s)] = WithEvent(s[Len(s)], e)]
    BY <1>1, <1>4 DEF GatherOn
  <2>2. Len(s) \in Nat /\ Len(s) # 0 /\ Len(s) \in 1..Len(s)
    BY <1>4, EmptySeq
  <2> DEFINE x == WithEvent(s[Len(s)], e)
  <2>3. x \in SomeStats
    BY <2>2, WithEventType
  <2> HIDE DEF x
  <2>4. GatherOn(s, e) = [s EXCEPT ![Len(s)] = x]
    BY <2>1 DEF x
  <2>5. /\ [s EXCEPT ![Len(s)] = x] \in Seq(SomeStats)
        /\ Len([s EXCEPT ![Len(s)] = x]) = Len(s)
        /\ [s EXCEPT ![Len(s)] = x][Len(s)] = x
        /\ \A j \in 1..Len(s) - 1 : [s EXCEPT ![Len(s)] = x][j] = s[j]
    BY <2>2, <2>3
  <2> QED
    BY <1>4, <2>4, <2>5 DEF x
<1> QED
  BY <1>2, <1>3, <1>4

WalksTyped(w) ==
    /\ Sigs(w) \in Seq(CallsMade)
    /\ Row(w) \in Rows /\ Row(w).cur <= Row(w).max
    /\ Gather(w) \in Seq(SomeStats)

LEMMA WalkTypes == \A w \in Seq(Emitted) : WalksTyped(w)
<1> DEFINE S == {w \in Seq(Emitted) : WalksTyped(w)}
<1>1. <<>> \in S
  <2>1. <<>> \in Seq(Emitted) /\ <<>> \in Seq(CallsMade) /\ <<>> \in Seq(SomeStats)
    OBVIOUS
  <2>2. Row(<<>>) \in Rows /\ Row(<<>>).cur <= Row(<<>>).max
    <3>1. [cur |-> 0, max |-> 0] \in Rows /\ [cur |-> 0, max |-> 0].cur = 0 /\ [cur |-> 0, max |-> 0].max = 0
      BY DEF Rows
    <3> QED
      BY <3>1, NoEvents
  <2>3. WalksTyped(<<>>)
    BY <2>1, <2>2, NoEvents DEF WalksTyped
  <2> QED
    BY <2>1, <2>3
<1>2. ASSUME NEW w \in Seq(Emitted), NEW e \in Emitted, w \in S PROVE Append(w, e) \in S
  <2>1. WalksTyped(w)
    BY <1>2
  <2>2. Sigs(Append(w, e)) = SigOn(Sigs(w), e) /\ Row(Append(w, e)) = TalkOn(Row(w), e)
        /\ Gather(Append(w, e)) = GatherOn(Gather(w), e)
    BY OneEventMore
  <2>3. SigOn(Sigs(w), e) \in Seq(CallsMade)
    BY <2>1, SigOnType DEF WalksTyped
  <2>4. TalkOn(Row(w), e) \in Rows /\ TalkOn(Row(w), e).cur <= TalkOn(Row(w), e).max
    BY <2>1, TalkOnType DEF WalksTyped
  <2>5. GatherOn(Gather(w), e) \in Seq(SomeStats)
    BY <2>1, GatherOnDoes DEF WalksTyped
  <2>6. Append(w, e) \in Seq(Emitted)
    OBVIOUS
  <2> QED
    BY <2>2, <2>3, <2>4, <2>5, <2>6 DEF WalksTyped
<1> HIDE DEF S
<1>3. \A w \in Seq(Emitted) : w \in S
  BY <1>1, <1>2, Sg!SeqSteps
<1> QED
  BY <1>3 DEF S

\* One sequence is the end of another, behind the first m elements of it.
IsEnd(a, b, m) == Len(a) = Len(b) - m /\ \A j \in 1..Len(a) : a[j] = b[m + j]

LEMMA EndOfBoth ==
    ASSUME NEW T, NEW a \in Seq(T), NEW b \in Seq(T), NEW m \in 0..Len(b), IsEnd(a, b, m), NEW x \in T
    PROVE  IsEnd(Append(a, x), Append(b, x), m) /\ m \in 0..Len(Append(b, x))
<1> DEFINE c == Append(a, x)
           d == Append(b, x)
<1>1. /\ c \in Seq(T) /\ Len(c) = Len(a) + 1 /\ c[Len(a) + 1] = x /\ \A i \in 1..Len(a) : c[i] = a[i]
      /\ d \in Seq(T) /\ Len(d) = Len(b) + 1 /\ d[Len(b) + 1] = x /\ \A i \in 1..Len(b) : d[i] = b[i]
      /\ Len(a) \in Nat /\ Len(b) \in Nat
  OBVIOUS
<1> HIDE DEF c, d
<1>2. Len(a) = Len(b) - m /\ \A j \in 1..Len(a) : a[j] = b[m + j]
  BY DEF IsEnd
<1>3. ASSUME NEW j \in 1..Len(c) PROVE c[j] = d[m + j]
  <2>1. CASE j = Len(a) + 1
    <3>1. m + j = Len(b) + 1
      BY <1>1, <1>2, <2>1
    <3> QED
      BY <1>1, <2>1, <3>1
  <2>2. CASE j # Len(a) + 1
    <3>1. j \in 1..Len(a) /\ m + j \in 1..Len(b)
      BY <1>1, <1>2, <2>2
    <3> QED
      BY <1>1, <1>2, <3>1
  <2> QED
    BY <2>1, <2>2
<1>4. Len(c) = Len(d) - m /\ m \in 0..Len(d)
  BY <1>1, <1>2
<1>5. IsEnd(c, d, m)
  BY <1>3, <1>4 DEF IsEnd
<1> QED
  BY <1>4, <1>5 DEF c, d

LEMMA NothingIsAnEnd ==
    ASSUME NEW T, NEW b \in Seq(T)
    PROVE  Len(b) \in 0..Len(b) /\ IsEnd(<<>>, b, Len(b))
<1>1. Len(b) \in Nat /\ Len(<<>>) = 0
  OBVIOUS
<1> QED
  BY <1>1 DEF IsEnd

\* What the walks make of a window's events is the end of what they make of
\* all, or no more than that.
EndsAlike(f, w) ==
    /\ \E m \in 0..Len(Sigs(w)) : IsEnd(Sigs(f), Sigs(w), m)
    /\ \E m \in 0..Len(Gather(w)) : IsEnd(Gather(f), Gather(w), m)
    /\ Row(f).cur <= Row(w).cur /\ Row(f).max <= Row(w).max

LEMMA NothingEndsAlike == ASSUME NEW w \in Seq(Emitted) PROVE EndsAlike(<<>>, w)
<1>1. WalksTyped(w)
  BY WalkTypes
<1>2. \E m \in 0..Len(Sigs(w)) : IsEnd(Sigs(<<>>), Sigs(w), m)
  BY <1>1, NoEvents, NothingIsAnEnd DEF WalksTyped
<1>3. \E m \in 0..Len(Gather(w)) : IsEnd(Gather(<<>>), Gather(w), m)
  BY <1>1, NoEvents, NothingIsAnEnd DEF WalksTyped
<1>4. Row(<<>>).cur = 0 /\ Row(<<>>).max = 0
  BY NoEvents
<1>5. Row(w).cur \in Nat /\ Row(w).max \in Nat
  BY <1>1 DEF WalksTyped, Rows
<1> QED
  BY <1>2, <1>3, <1>4, <1>5 DEF EndsAlike

LEMMA SigsEndAlike ==
    ASSUME NEW a \in Seq(CallsMade), NEW b \in Seq(CallsMade), NEW m \in 0..Len(b), IsEnd(a, b, m), NEW e \in Emitted
    PROVE  \E n \in 0..Len(SigOn(b, e)) : IsEnd(SigOn(a, e), SigOn(b, e), n)
<1>1. CASE e.type = "tool_call"
  <2>1. e \in CallsMade /\ SigOn(a, e) = Append(a, e) /\ SigOn(b, e) = Append(b, e)
    BY <1>1, SigOnType DEF SigOn
  <2>2. IsEnd(Append(a, e), Append(b, e), m) /\ m \in 0..Len(Append(b, e))
    BY <2>1, EndOfBoth
  <2> QED
    BY <2>1, <2>2
<1>2. CASE e.type # "tool_call"
  <2>1. SigOn(a, e) = a /\ SigOn(b, e) = b
    BY <1>2 DEF SigOn
  <2> QED
    BY <2>1
<1> QED
  BY <1>1, <1>2

LEMMA StatsEndAlike ==
    ASSUME NEW a \in Seq(SomeStats), NEW b \in Seq(SomeStats), NEW m \in 0..Len(b), IsEnd(a, b, m), NEW e \in Emitted
    PROVE  \E n \in 0..Len(GatherOn(b, e)) : IsEnd(GatherOn(a, e), GatherOn(b, e), n)
<1>0. Len(a) \in Nat /\ Len(b) \in Nat /\ Len(a) = Len(b) - m /\ \A j \in 1..Len(a) : a[j] = b[m + j]
  BY DEF IsEnd
<1>1. CASE e = Started
  <2>1. GatherOn(a, e) = Append(a, NewStat) /\ GatherOn(b, e) = Append(b, NewStat)
    BY <1>1, GatherOnDoes
  <2>2. IsEnd(Append(a, NewStat), Append(b, NewStat), m) /\ m \in 0..Len(Append(b, NewStat))
    BY NewStatType, EndOfBoth
  <2> QED
    BY <2>1, <2>2
<1>2. CASE e # Started /\ a = <<>>
  <2>1. GatherOn(a, e) = <<>> /\ GatherOn(b, e) \in Seq(SomeStats)
    BY <1>2, GatherOnDoes
  <2> QED
    BY <2>1, NothingIsAnEnd
<1>3. CASE e # Started /\ a # <<>>
  <2> DEFINE c == GatherOn(a, e)
             d == GatherOn(b, e)
  <2>1. Len(a) # 0 /\ b # <<>>
    BY <1>0, <1>3, EmptySeq
  <2>2. /\ c \in Seq(SomeStats) /\ Len(c) = Len(a) /\ c[Len(a)] = WithEvent(a[Len(a)], e)
        /\ \A j \in 1..Len(a) - 1 : c[j] = a[j]
    BY <1>3, GatherOnDoes
  <2>3. /\ d \in Seq(SomeStats) /\ Len(d) = Len(b) /\ d[Len(b)] = WithEvent(b[Len(b)], e)
        /\ \A j \in 1..Len(b) - 1 : d[j] = b[j]
    BY <1>3, <2>1, GatherOnDoes
  <2> HIDE DEF c, d
  <2>4. ASSUME NEW j \in 1..Len(c) PROVE c[j] = d[m + j]
    <3>1. CASE j = Len(a)
      <4>1. m + j = Len(b) /\ j \in 1..Len(a)
        BY <1>0, <2>1, <3>1
      <4> QED
        BY <1>0, <2>2, <2>3, <3>1, <4>1
    <3>2. CASE j # Len(a)
      <4>1. j \in 1..Len(a) - 1 /\ m + j \in 1..Len(b) - 1 /\ j \in 1..Len(a)
        <5>1. Len(c) = Len(a) /\ Len(a) \in Nat /\ Len(b) \in Nat /\ m \in Nat /\ Len(a) = Len(b) - m
          BY <1>0, <2>2
        <5>2. j \in 1..Len(a)
          BY <5>1
        <5>3. j \in 1..Len(a) - 1
          BY <3>2, <5>1, <5>2
        <5>4. m + j \in 1..Len(b) - 1
          BY <5>1, <5>3
        <5> QED
          BY <5>2, <5>3, <5>4
      <4> QED
        BY <1>0, <2>2, <2>3, <4>1
    <3> QED
      BY <3>1, <3>2
  <2>5. IsEnd(c, d, m) /\ m \in 0..Len(d)
    BY <1>0, <2>2, <2>3, <2>4 DEF IsEnd
  <2> QED
    BY <2>5 DEF c, d
<1> QED
  BY <1>1, <1>2, <1>3

LEMMA RowsEndAlike ==
    ASSUME NEW r \in Rows, r.cur <= r.max, NEW q \in Rows, q.cur <= q.max,
           r.cur <= q.cur, r.max <= q.max, NEW e \in Emitted
    PROVE  TalkOn(r, e).cur <= TalkOn(q, e).cur /\ TalkOn(r, e).max <= TalkOn(q, e).max
<1> DEFINE s == TalkOn(r, e)
           t == TalkOn(q, e)
<1>1. /\ s \in Rows /\ s.max = IF s.cur > r.max THEN s.cur ELSE r.max
      /\ e = Response(0) => s.cur = r.cur + 1
      /\ \A n \in Nat \ {0} : e = Response(n) => s.cur = 0
      /\ e.type = "tool_result" => s.cur = 0
      /\ e.type \notin {"provider_response", "tool_result"} => s.cur = r.cur
  BY TalkOnType
<1>2. /\ t \in Rows /\ t.max = IF t.cur > q.max THEN t.cur ELSE q.max
      /\ e = Response(0) => t.cur = q.cur + 1
      /\ \A n \in Nat \ {0} : e = Response(n) => t.cur = 0
      /\ e.type = "tool_result" => t.cur = 0
      /\ e.type \notin {"provider_response", "tool_result"} => t.cur = q.cur
  BY TalkOnType
<1>3. \/ e = Response(0) \/ (\E n \in Nat \ {0} : e = Response(n))
      \/ e.type = "tool_result" \/ e.type \notin {"provider_response", "tool_result"}
  <2>1. e.type = "provider_response" => \E n \in Nat : e = Response(n)
    BY EventIsOne
  <2> QED
    BY <2>1
<1> HIDE DEF s, t
<1>4. /\ r.cur \in Nat /\ r.max \in Nat /\ q.cur \in Nat /\ q.max \in Nat
      /\ s.cur \in Nat /\ s.max \in Nat /\ t.cur \in Nat /\ t.max \in Nat
  BY <1>1, <1>2 DEF Rows
<1>5. s.cur <= t.cur
  BY <1>1, <1>2, <1>3, <1>4
<1>6. s.max <= t.max
  BY <1>1, <1>2, <1>4, <1>5
<1> QED
  BY <1>5, <1>6 DEF s, t

LEMMA EndsAlikeOn ==
    ASSUME NEW f \in Seq(Emitted), NEW w \in Seq(Emitted), EndsAlike(f, w), NEW e \in Emitted
    PROVE  EndsAlike(Append(f, e), Append(w, e))
<1>1. WalksTyped(f) /\ WalksTyped(w)
  BY WalkTypes
<1>2. /\ Sigs(Append(f, e)) = SigOn(Sigs(f), e) /\ Row(Append(f, e)) = TalkOn(Row(f), e)
      /\ Gather(Append(f, e)) = GatherOn(Gather(f), e)
      /\ Sigs(Append(w, e)) = SigOn(Sigs(w), e) /\ Row(Append(w, e)) = TalkOn(Row(w), e)
      /\ Gather(Append(w, e)) = GatherOn(Gather(w), e)
  BY OneEventMore
<1>3. \E m \in 0..Len(SigOn(Sigs(w), e)) : IsEnd(SigOn(Sigs(f), e), SigOn(Sigs(w), e), m)
  BY <1>1, SigsEndAlike DEF WalksTyped, EndsAlike
<1>4. \E m \in 0..Len(GatherOn(Gather(w), e)) : IsEnd(GatherOn(Gather(f), e), GatherOn(Gather(w), e), m)
  BY <1>1, StatsEndAlike DEF WalksTyped, EndsAlike
<1>5. TalkOn(Row(f), e).cur <= TalkOn(Row(w), e).cur /\ TalkOn(Row(f), e).max <= TalkOn(Row(w), e).max
  BY <1>1, RowsEndAlike DEF WalksTyped, EndsAlike
<1> QED
  BY <1>2, <1>3, <1>4, <1>5 DEF EndsAlike

LEMMA WindowsEndAlike ==
    \A w \in Seq(Emitted) : \A p \in 1..Len(w) + 1 : EndsAlike(From(w, p), w)
<1> DEFINE S == {w \in Seq(Emitted) : \A p \in 1..Len(w) + 1 : EndsAlike(From(w, p), w)}
<1>1. <<>> \in S
  <2>1. <<>> \in Seq(Emitted) /\ Len(<<>>) = 0
    OBVIOUS
  <2>2. ASSUME NEW p \in 1..0 + 1 PROVE EndsAlike(From(<<>>, p), <<>>)
    <3>1. p = 1
      OBVIOUS
    <3>2. From(<<>>, 1) = <<>>
      BY <2>1, FromTheStart
    <3> QED
      BY <2>1, <3>1, <3>2, NothingEndsAlike
  <2> QED
    BY <2>1, <2>2
<1>2. ASSUME NEW w \in Seq(Emitted), NEW e \in Emitted, w \in S PROVE Append(w, e) \in S
  <2>1. Len(w) \in Nat /\ Append(w, e) \in Seq(Emitted) /\ Len(Append(w, e)) = Len(w) + 1
    OBVIOUS
  <2>2. ASSUME NEW p \in 1..Len(w) + 2 PROVE EndsAlike(From(Append(w, e), p), Append(w, e))
    <3>1. CASE p \in 1..Len(w) + 1
      <4>1. From(Append(w, e), p) = Append(From(w, p), e)
        BY <3>1, FromOfOneMore
      <4>2. From(w, p) \in Seq(Emitted)
        BY <3>1, FromAPlace
      <4>3. EndsAlike(From(w, p), w)
        BY <1>2, <3>1
      <4> QED
        BY <4>1, <4>2, <4>3, EndsAlikeOn
    <3>2. CASE p = Len(w) + 2
      <4>1. From(Append(w, e), Len(w) + 2) = <<>>
        BY FromOfOneMore
      <4> QED
        BY <2>1, <3>2, <4>1, NothingEndsAlike
    <3> QED
      BY <2>1, <3>1, <3>2
  <2>3. ASSUME NEW p \in 1..Len(Append(w, e)) + 1 PROVE EndsAlike(From(Append(w, e), p), Append(w, e))
    <3>1. p \in 1..Len(w) + 2
      BY <2>1
    <3> QED
      BY <2>2, <3>1
  <2> QED
    BY <2>1, <2>3
<1> HIDE DEF S
<1>3. \A w \in Seq(Emitted) : w \in S
  BY <1>1, <1>2, Sg!SeqSteps
<1> QED
  BY <1>3 DEF S

LEMMA SameNumber ==
    ASSUME NEW S, IsFiniteSet(S), NEW T, NEW f \in [S -> T],
           \A x, y \in S : f[x] = f[y] => x = y, \A t \in T : \E s \in S : f[s] = t
    PROVE  IsFiniteSet(T) /\ Cardinality(T) = Cardinality(S)
<1>1. f \in Bijection(S, T)
  BY DEF Bijection, Injection, IsInjective, Surjection
<1>2. ExistsBijection(S, T)
  BY <1>1 DEF ExistsBijection
<1> QED
  BY <1>2, FS_Bijection

LEMMA NoMore ==
    ASSUME NEW S, NEW T, IsFiniteSet(T), NEW f \in [S -> T], \A x, y \in S : f[x] = f[y] => x = y
    PROVE  IsFiniteSet(S) /\ Cardinality(S) <= Cardinality(T) /\ Cardinality(S) \in Nat /\ Cardinality(T) \in Nat
<1>1. f \in Injection(S, T)
  BY DEF Injection, IsInjective
<1>3. IsFiniteSet(S) /\ Cardinality(S) <= Cardinality(T)
  BY <1>1, FS_Injection
<1> QED
  BY <1>3, FS_CardinalityType

-----------------------------------------------------------------------------
\* In the buffers of the loop a call is followed by its result.
CallPlaces(w) == {i \in 1..Len(w) : w[i].type = "tool_call"}
Answered(w) ==
    \A i \in CallPlaces(w) : /\ i + 1 \in 1..Len(w) /\ w[i + 1].type = "tool_result" /\ w[i + 1].name = w[i].name
Same(w, p) == {i \in CallPlaces(w) : [call |-> w[i], out |-> w[i + 1].out] = p}

LEMMA RepliesOf ==
    ASSUME NEW w \in Seq(Emitted), Answered(w), NEW i \in 1..Len(w)
    PROVE  /\ i \in CallPlaces(w) => Replies(w, i) # {} /\ Min(Replies(w, i)) = i + 1
           /\ i \notin CallPlaces(w) => Replies(w, i) = {}
<1>1. CASE i \in CallPlaces(w)
  <2> DEFINE R == Replies(w, i)
  <2>1. Len(w) \in Nat /\ i + 1 \in 1..Len(w) /\ w[i + 1].type = "tool_result" /\ w[i + 1].name = w[i].name
        /\ w[i].type = "tool_call"
    BY <1>1 DEF Answered, CallPlaces
  <2>2. i + 1 \in R
    BY <2>1 DEF Replies
  <2>3. R \subseteq Nat /\ \A j \in R : i + 1 <= j
    BY <2>1 DEF Replies
  <2> HIDE DEF R
  <2>4. Min(R) \in R /\ \A j \in R : Min(R) <= j
    BY <2>2, <2>3, LeastOf
  <2>5. Min(R) = i + 1
    <3> DEFINE m == Min(R)
    <3>1. m \in Nat /\ i + 1 <= m /\ m <= i + 1 /\ i + 1 \in Nat
      BY <2>2, <2>3, <2>4
    <3> HIDE DEF m
    <3>2. m = i + 1
      BY <3>1
    <3> QED
      BY <3>2 DEF m
  <2> QED
    BY <1>1, <2>2, <2>5 DEF R
<1>2. CASE i \notin CallPlaces(w)
  BY <1>2 DEF CallPlaces, Replies
<1> QED
  BY <1>1, <1>2

WalkedTo(w, k, walk) ==
    /\ walk.found = {<<i, i + 1>> : i \in {j \in CallPlaces(w) : j <= k}}
    /\ walk.next \in Nat /\ \A i \in CallPlaces(w) : i > k => i >= walk.next

LEMMA OneLookMore ==
    ASSUME NEW w \in Seq(Emitted), Answered(w), NEW k \in Nat, k < Len(w), NEW walk, WalkedTo(w, k, walk)
    PROVE  WalkedTo(w, k + 1, PairUp(walk, [at |-> k + 1, replies |-> Replies(w, k + 1)]))
<1> DEFINE i == k + 1
           look == [at |-> i, replies |-> Replies(w, i)]
<1>0. Len(w) \in Nat /\ i \in 1..Len(w) /\ look.at = i /\ look.replies = Replies(w, i) /\ CallPlaces(w) \subseteq 1..Len(w)
  BY DEF CallPlaces
<1>1. CASE i \notin CallPlaces(w)
  <2>1. Replies(w, i) = {}
    BY <1>0, <1>1, RepliesOf
  <2>2. PairUp(walk, look) = walk
    BY <1>0, <2>1 DEF PairUp
  <2>3. {j \in CallPlaces(w) : j <= k} = {j \in CallPlaces(w) : j <= i}
    BY <1>0, <1>1
  <2> HIDE DEF look
  <2>4. WalkedTo(w, i, walk)
    BY <1>0, <2>3 DEF WalkedTo
  <2> QED
    BY <2>2, <2>4 DEF look
<1>2. CASE i \in CallPlaces(w)
  <2>1. Replies(w, i) # {} /\ Min(Replies(w, i)) = i + 1
    BY <1>0, <1>2, RepliesOf
  <2>2. ~(i < walk.next)
    BY <1>2 DEF WalkedTo
  <2>3. PairUp(walk, look) = [next |-> i + 2, found |-> walk.found \cup {<<i, i + 1>>}]
    <3>1. PairUp(walk, look) = [next |-> Min(look.replies) + 1, found |-> walk.found \cup {<<look.at, Min(look.replies)>>}]
      BY <1>0, <2>1, <2>2 DEF PairUp
    <3>2. Min(look.replies) = i + 1 /\ i + 1 + 1 = i + 2
      BY <1>0, <2>1
    <3> QED
      BY <1>0, <3>1, <3>2
  <2>4. walk.found \cup {<<i, i + 1>>} = {<<m, m + 1>> : m \in {j \in CallPlaces(w) : j <= i}}
    <3>1. {j \in CallPlaces(w) : j <= i} = {j \in CallPlaces(w) : j <= k} \cup {i}
      BY <1>0, <1>2
    <3>2. walk.found = {<<m, m + 1>> : m \in {j \in CallPlaces(w) : j <= k}}
      BY DEF WalkedTo
    <3> QED
      BY <3>1, <3>2
  <2>5. ASSUME NEW m \in CallPlaces(w), m > i PROVE m >= i + 2
    <3>1. w[i + 1].type = "tool_result"
      BY <1>2 DEF Answered
    <3>2. m # i + 1
      BY <3>1 DEF CallPlaces
    <3> QED
      BY <1>0, <2>5, <3>2
  <2> DEFINE q == PairUp(walk, look)
  <2>6. q.next = i + 2 /\ q.found = walk.found \cup {<<i, i + 1>>}
    BY <2>3
  <2>7. i + 2 \in Nat
    BY <1>0
  <2> HIDE DEF q, look, i
  <2>8. WalkedTo(w, i, q)
    BY <2>4, <2>5, <2>6, <2>7 DEF WalkedTo
  <2> QED
    BY <2>8 DEF q, look, i
<1> QED
  BY <1>1, <1>2

LEMMA PairsOf ==
    ASSUME NEW w \in Seq(Emitted), Answered(w)
    PROVE  Pairs(w) = {<<i, i + 1>> : i \in CallPlaces(w)}
<1> DEFINE L == Looks(w)
           n == Len(w)
           T == Range(L)
           S == {k \in Nat : k <= n => WalkedTo(w, k, Walk(SubSeq(L, 1, k)))}
<1>1. n \in Nat /\ L \in Seq(T) /\ Len(L) = n /\ \A i \in 1..n : L[i] = [at |-> i, replies |-> Replies(w, i)]
  <2>1. n \in Nat /\ L = [i \in 1..n |-> [at |-> i, replies |-> Replies(w, i)]]
    BY DEF Looks
  <2> DEFINE F(i) == [at |-> i, replies |-> Replies(w, i)]
  <2>2. L = [i \in 1..n |-> F(i)]
    BY <2>1
  <2> HIDE DEF F, L, n
  <2>3. DOMAIN L = 1..n /\ Len(L) = n /\ \A i \in 1..n : L[i] = F(i) /\ L[i] \in T
    BY <2>1, <2>2 DEF Range
  <2>4. L \in Seq(T)
    BY <2>1, <2>2, <2>3
  <2> QED
    BY <2>1, <2>3, <2>4 DEF F
<1> HIDE DEF L, T
<1>2. 0 \in S
  <2>1. SubSeq(L, 1, 0) = <<>>
    BY <1>1
  <2>2. {j \in CallPlaces(w) : j <= 0} = {} /\ \A i \in CallPlaces(w) : i >= 1
    BY DEF CallPlaces
  <2>3. Walk(<<>>).next = 1 /\ Walk(<<>>).found = {}
    BY WalkSteps
  <2>4. WalkedTo(w, 0, Walk(<<>>))
    BY <2>2, <2>3 DEF WalkedTo
  <2> QED
    BY <2>1, <2>4
<1>3. ASSUME NEW k \in Nat, k \in S PROVE k + 1 \in S
  <2> SUFFICES ASSUME k + 1 <= n PROVE WalkedTo(w, k + 1, Walk(SubSeq(L, 1, k + 1)))
    BY k + 1 \in Nat
  <2>1. k < Len(w) /\ k < Len(L) /\ k <= n /\ k + 1 \in 1..n
    BY <1>1
  <2>2. SubSeq(L, 1, k + 1) = Append(SubSeq(L, 1, k), L[k + 1]) /\ SubSeq(L, 1, k) \in Seq(T) /\ L[k + 1] \in T
    BY <1>1, <2>1, Sg!OneMoreTaken
  <2>3. Walk(SubSeq(L, 1, k + 1)) = PairUp(Walk(SubSeq(L, 1, k)), L[k + 1])
    BY <2>2, WalkSteps
  <2>4. L[k + 1] = [at |-> k + 1, replies |-> Replies(w, k + 1)]
    BY <1>1, <2>1
  <2>5. WalkedTo(w, k, Walk(SubSeq(L, 1, k)))
    BY <1>3, <2>1
  <2> QED
    BY <2>1, <2>3, <2>4, <2>5, OneLookMore
<1> HIDE DEF S
<1>4. n \in S
  BY <1>1, <1>2, <1>3, Sg!Steps
<1>5. WalkedTo(w, n, Walk(SubSeq(L, 1, n)))
  BY <1>1, <1>4 DEF S
<1>6. SubSeq(L, 1, n) = L
  BY <1>1, Sg!AllTaken
<1>7. {j \in CallPlaces(w) : j <= n} = CallPlaces(w)
  BY <1>1 DEF CallPlaces
<1> QED
  BY <1>5, <1>6, <1>7 DEF WalkedTo, Pairs, L

LEMMA RepeatedOf ==
    ASSUME NEW w \in Seq(Emitted), Answered(w), NEW t \in Nat \ {0}
    PROVE  \A p : p \in Repeated(w, t) <=> Cardinality(Same(w, p)) >= t
<1> SUFFICES ASSUME NEW p PROVE p \in Repeated(w, t) <=> Cardinality(Same(w, p)) >= t
  OBVIOUS
<1> DEFINE M == {m \in Pairs(w) : PairAt(w, m) = p}
           S == Same(w, p)
           f == [i \in S |-> <<i, i + 1>>]
<1>0. Pairs(w) = {<<i, i + 1>> : i \in CallPlaces(w)}
  BY PairsOf
<1>1. Len(w) \in Nat /\ S \subseteq CallPlaces(w) /\ S \subseteq 1..Len(w)
  BY DEF Same, CallPlaces
<1>2. IsFiniteSet(S)
  <2> DEFINE n == Len(w)
  <2>1. IsFiniteSet(1..n) /\ S \in SUBSET (1..n)
    BY <1>1, FS_Interval
  <2> HIDE DEF n, S
  <2> QED
    BY <2>1, FS_Subset
<1>3. \A i \in CallPlaces(w) : PairAt(w, <<i, i + 1>>) = [call |-> w[i], out |-> w[i + 1].out]
  BY DEF PairAt
<1>4. f \in [S -> M]
  <2>1. \A i \in S : <<i, i + 1>> \in M
    BY <1>0, <1>1, <1>3 DEF Same
  <2> QED
    BY <2>1
<1>5. \A x, y \in S : f[x] = f[y] => x = y
  OBVIOUS
<1>6. ASSUME NEW m \in M PROVE \E s \in S : f[s] = m
  <2>1. PICK i \in CallPlaces(w) : m = <<i, i + 1>>
    BY <1>0
  <2>2. i \in S
    BY <1>3, <2>1 DEF Same
  <2> QED
    BY <2>1, <2>2
<1> HIDE DEF M, S, f
<1>7. Cardinality(M) = Cardinality(S)
  BY <1>2, <1>4, <1>5, <1>6, SameNumber
<1>8. p \in Repeated(w, t) <=> (M # {} /\ Cardinality(M) >= t)
  <2>1. p \in Repeated(w, t) <=> (p \in {PairAt(w, m) : m \in Pairs(w)} /\ Cardinality(M) >= t)
    BY DEF Repeated, M
  <2>2. p \in {PairAt(w, m) : m \in Pairs(w)} <=> M # {}
    BY DEF M
  <2> QED
    BY <2>1, <2>2
<1>9. M = {} => Cardinality(M) = 0
  BY FS_EmptySet
<1>10. Cardinality(M) >= t => M # {}
  BY <1>9
<1> QED
  BY <1>7, <1>8, <1>10 DEF S

LEMMA Parity == ASSUME NEW d \in Nat PROVE (d + 2) % 2 = d % 2 /\ 0 % 2 = 0 /\ 1 % 2 = 1 /\ d % 2 \in {0, 1}
OBVIOUS

\* Calls alternate where each is the one before the last.
LEMMA RunsAlternate ==
    ASSUME NEW T, NEW sigs \in Seq(T), NEW s \in 1..Len(sigs) - PingPong + 1
    PROVE  RunFrom(sigs, s) >= PingPong <=> \A k \in s + 2..s + PingPong - 1 : sigs[k] = sigs[k - 2]
<1> DEFINE n == Len(sigs)
           E == {k \in s..n + 1 : k = n + 1 \/ sigs[k] # Expected(sigs, s, k)}
           m == Min(E)
           P == PingPong
<1>1. n \in Nat /\ P \in Nat /\ P >= 2 /\ s \in Nat /\ s >= 1 /\ s + P - 1 <= n
  <2>1. n \in Nat /\ P \in Nat /\ P >= 2
    BY StuckAssumption
  <2> HIDE DEF n, P
  <2>2. s \in 1..n - P + 1
    BY DEF n, P
  <2> QED
    BY <2>1, <2>2
<1>2. E \subseteq Nat /\ n + 1 \in E
  BY <1>1
<1>3. m \in E /\ \A k \in E : m <= k
  <2> HIDE DEF E
  <2> QED
    BY <1>2, LeastOf
<1>4. RunFrom(sigs, s) = m - s
  BY DEF RunFrom
<1> DEFINE A(k) == sigs[k] = Expected(sigs, s, k)
<1>5. RunFrom(sigs, s) >= P <=> \A k \in s..s + P - 1 : A(k)
  <2>1. m \in s..n + 1
    BY <1>3
  <2>2. ASSUME RunFrom(sigs, s) >= P, NEW k \in s..s + P - 1 PROVE A(k)
    <3>1. k < m /\ k \in s..n + 1
      <4> HIDE DEF m, A, n, P
      <4> QED
        BY <1>1, <1>4, <2>1, <2>2
    <3>2. k \notin E
      <4> HIDE DEF E, m, n, P
      <4>1. m \in Nat /\ k \in Nat
        BY <1>1, <2>1, <3>1
      <4> QED
        BY <1>3, <3>1, <4>1
    <3> QED
      BY <3>1, <3>2
  <2>3. ASSUME \A k \in s..s + P - 1 : A(k) PROVE RunFrom(sigs, s) >= P
    <3>1. m = n + 1 \/ ~A(m)
      BY <1>3
    <3>2. m \notin s..s + P - 1 \/ m = n + 1
      BY <2>3, <3>1
    <3> HIDE DEF A, m, E, n, P
    <3> QED
      BY <1>1, <1>4, <2>1, <3>2
  <2> QED
    BY <2>2, <2>3
<1>6. \A k \in s..n + 1 : Expected(sigs, s, k) = sigs[s + ((k - s) % 2)]
  BY DEF Expected
<1> HIDE DEF E, m, n, P
<1>7. ASSUME \A k \in s..s + P - 1 : A(k), NEW k \in s + 2..s + P - 1 PROVE sigs[k] = sigs[k - 2]
  <2>1. k \in s..n + 1 /\ k - 2 \in s..n + 1 /\ k - 2 \in s..s + P - 1 /\ k \in s..s + P - 1 /\ k - 2 - s \in Nat
    BY <1>1
  <2>2. (k - s) % 2 = (k - 2 - s) % 2
    <3>1. k - s = (k - 2 - s) + 2
      BY <1>1, <2>1
    <3> QED
      BY <2>1, <3>1, Parity
  <2>3. A(k) /\ A(k - 2)
    BY <1>7, <2>1
  <2> QED
    BY <1>6, <2>1, <2>2, <2>3
<1>8. ASSUME \A k \in s + 2..s + P - 1 : sigs[k] = sigs[k - 2] PROVE \A k \in s..s + P - 1 : A(k)
  <2> DEFINE S == {d \in Nat : (d <= P - 1 => A(s + d)) /\ (d + 1 <= P - 1 => A(s + (d + 1)))}
  <2>1. 0 \in S
    <3>1. A(s)
      <4>1. s \in s..n + 1 /\ (s - s) % 2 = 0 /\ s + 0 = s
        <5>1. s - s = 0
          BY <1>1
        <5> QED
          BY <1>1, <5>1, Parity
      <4> QED
        BY <1>6, <4>1
    <3>2. A(s + 1)
      <4>1. s + 1 \in s..n + 1 /\ (s + 1 - s) % 2 = 1
        <5>1. s + 1 - s = 1
          BY <1>1
        <5> QED
          BY <1>1, <5>1, Parity
      <4> QED
        BY <1>6, <4>1
    <3>3. s + 0 = s /\ s + (0 + 1) = s + 1
      BY <1>1
    <3> HIDE DEF A
    <3> QED
      BY <3>1, <3>2, <3>3
  <2>2. ASSUME NEW d \in Nat, d \in S PROVE d + 1 \in S
    <3> SUFFICES ASSUME d + 1 + 1 <= P - 1 PROVE A(s + (d + 1 + 1))
      <4> HIDE DEF A
      <4> QED
        BY <2>2
    <3> DEFINE k == s + (d + 1 + 1)
    <3>1. k \in s + 2..s + P - 1 /\ k - 2 = s + d /\ k \in s..n + 1 /\ k - 2 \in s..n + 1 /\ d <= P - 1 /\ k - 2 - s \in Nat
          /\ k - s = (k - 2 - s) + 2
      BY <1>1
    <3>2. A(s + d)
      <4> HIDE DEF A
      <4> QED
        BY <2>2, <3>1
    <3> HIDE DEF k
    <3>3. sigs[k] = sigs[k - 2] /\ A(k - 2)
      BY <1>8, <3>1, <3>2
    <3>4. (k - s) % 2 = (k - 2 - s) % 2
      BY <3>1, Parity
    <3>5. A(k)
      BY <1>6, <3>1, <3>3, <3>4
    <3> QED
      BY <3>5 DEF k
  <2> HIDE DEF S
  <2>3. Nat \subseteq S
    BY <2>1, <2>2, Sg!Steps
  <2>4. ASSUME NEW k \in s..s + P - 1 PROVE A(k)
    <3>1. k - s \in Nat /\ k - s <= P - 1 /\ s + (k - s) = k
      BY <1>1
    <3>2. k - s \in S
      BY <2>3, <3>1
    <3> HIDE DEF A
    <3> QED
      BY <3>1, <3>2 DEF S
  <2> QED
    BY <2>4
<1> HIDE DEF A
<1>9. RunFrom(sigs, s) >= P <=> \A k \in s + 2..s + P - 1 : sigs[k] = sigs[k - 2]
  BY <1>5, <1>7, <1>8
<1> QED
  BY <1>9 DEF P

AltAt(sigs, s) ==
    /\ s \in 1..Len(sigs) - PingPong + 1 /\ sigs[s] # sigs[s + 1]
    /\ \A k \in s + 2..s + PingPong - 1 : sigs[k] = sigs[k - 2]

LEMMA AlternatesAt ==
    ASSUME NEW w \in Seq(Emitted) PROVE Alternates(w) <=> \E s \in Nat : AltAt(Sigs(w), s)
<1> DEFINE sigs == Sigs(w)
<1>1. sigs \in Seq(CallsMade) /\ Len(sigs) \in Nat /\ PingPong \in Nat
  BY WalkTypes, StuckAssumption DEF WalksTyped
<1>2. Alternates(w) <=> \E s \in 1..Len(sigs) - PingPong + 1 : sigs[s] # sigs[s + 1] /\ RunFrom(sigs, s) >= PingPong
  BY DEF Alternates
<1> HIDE DEF sigs
<1>3. \A s \in 1..Len(sigs) - PingPong + 1 :
        RunFrom(sigs, s) >= PingPong <=> \A k \in s + 2..s + PingPong - 1 : sigs[k] = sigs[k - 2]
  BY <1>1, RunsAlternate
<1>4. Alternates(w) <=> \E s \in 1..Len(sigs) - PingPong + 1 : AltAt(sigs, s)
  BY <1>2, <1>3 DEF AltAt
<1>5. \A s \in 1..Len(sigs) - PingPong + 1 : s \in Nat
  BY <1>1
<1>6. (\E s \in 1..Len(sigs) - PingPong + 1 : AltAt(sigs, s)) <=> \E s \in Nat : AltAt(sigs, s)
  BY <1>5 DEF AltAt
<1> QED
  BY <1>4, <1>6 DEF sigs

LEMMA AlternatesAtTheEnd ==
    ASSUME NEW T, NEW a \in Seq(T), NEW b \in Seq(T), NEW m \in 0..Len(b), IsEnd(a, b, m), NEW s \in Nat, AltAt(a, s)
    PROVE  m + s \in Nat /\ AltAt(b, m + s)
<1> DEFINE P == PingPong
<1>1. P \in Nat /\ P >= 2 /\ Len(a) \in Nat /\ Len(b) \in Nat /\ m \in Nat /\ Len(a) = Len(b) - m
  BY StuckAssumption DEF IsEnd
<1>2. \A j \in 1..Len(a) : a[j] = b[m + j]
  BY DEF IsEnd
<1>3. /\ s \in 1..Len(a) - P + 1 /\ a[s] # a[s + 1]
      /\ \A k \in s + 2..s + P - 1 : a[k] = a[k - 2]
  BY DEF AltAt
<1> HIDE DEF P
<1>4. m + s \in Nat /\ m + s \in 1..Len(b) - P + 1
  BY <1>1, <1>3
<1>5. b[m + s] # b[m + s + 1]
  <2>1. s \in 1..Len(a) /\ s + 1 \in 1..Len(a) /\ m + (s + 1) = m + s + 1
    BY <1>1, <1>3
  <2> QED
    BY <1>2, <1>3, <2>1
<1>6. ASSUME NEW k \in m + s + 2..m + s + P - 1 PROVE b[k] = b[k - 2]
  <2> DEFINE j == k - m
  <2>1. j \in s + 2..s + P - 1 /\ j \in 1..Len(a) /\ j - 2 \in 1..Len(a) /\ m + j = k /\ m + (j - 2) = k - 2
    BY <1>1, <1>3
  <2> HIDE DEF j
  <2> QED
    BY <1>2, <1>3, <2>1
<1> QED
  BY <1>4, <1>5, <1>6 DEF AltAt, P

-----------------------------------------------------------------------------
\* NoProgress, of the entries that are looked at.
Idle(last) ==
    LET trace == {j \in DOMAIN last : last[j].verified}
        merged == UNION {{j} \X Edits(last[j].events) : j \in DOMAIN last}
        File(m) == last[m[1]].events[m[2]].input.file
        churns == \E m \in merged : Cardinality({n \in merged : File(n) = File(m)}) >= OscillationCap
    IN  /\ trace = {} => merged = {}
        /\ \A i, j \in trace : i < j /\ trace \cap (i + 1..j - 1) = {} => last[j].passing <= last[i].passing
        /\ merged = {} \/ churns

LEMMA NoProgressIsIdle ==
    \A w : NoProgress(w) <=> /\ Len(Gather(w)) >= NoProgressThreshold
                             /\ Idle(LastOf(Gather(w), NoProgressThreshold))
BY DEF NoProgress, Idle, Stats

LEMMA LastOfAnEnd ==
    ASSUME NEW T, NEW a \in Seq(T), NEW b \in Seq(T), NEW m \in 0..Len(b), IsEnd(a, b, m), NEW k \in Nat, Len(a) >= k
    PROVE  Len(b) >= k /\ LastOf(a, k) = LastOf(b, k)
<1>1. Len(a) \in Nat /\ Len(b) \in Nat /\ m \in Nat /\ Len(a) = Len(b) - m /\ \A j \in 1..Len(a) : a[j] = b[m + j]
  BY DEF IsEnd
<1> DEFINE p == Len(a) - k + 1
           q == Len(b) - k + 1
           c == From(a, p)
           d == From(b, q)
<1>2. Len(b) >= k /\ p \in 1..Len(a) + 1 /\ q \in 1..Len(b) + 1 /\ q = m + p
  BY <1>1
<1>3. LastOf(a, k) = c /\ LastOf(b, k) = d
  BY <1>2, LastAreFromAPlace
<1>4. Len(a) - p + 1 = k /\ Len(b) - q + 1 = k
  BY <1>1
<1>p. Len(b) >= k
  BY <1>2
<1> HIDE DEF p, q
<1>5. c \in Seq(T) /\ Len(c) = k /\ \A i \in 1..k : c[i] = a[p + i - 1]
  BY <1>2, <1>4, FromAPlace
<1>6. d \in Seq(T) /\ Len(d) = k /\ \A i \in 1..k : d[i] = b[q + i - 1]
  BY <1>2, <1>4, FromAPlace
<1> HIDE DEF c, d
<1>7. ASSUME NEW i \in 1..k PROVE c[i] = d[i]
  <2>1. p + i - 1 \in 1..Len(a) /\ m + (p + i - 1) = q + i - 1
    BY <1>1, <1>2, <1>4
  <2> QED
    BY <1>1, <1>5, <1>6, <2>1
<1>8. c = d
  BY <1>5, <1>6, <1>7, SeqEqual
<1> QED
  BY <1>p, <1>3, <1>8

-----------------------------------------------------------------------------
\* A window's calls are answered, and no pair of them is more often in it.
LEMMA WindowIsAnswered ==
    ASSUME NEW w \in Seq(Emitted), Answered(w), NEW p \in 1..Len(w) + 1
    PROVE  /\ From(w, p) \in Seq(Emitted) /\ Answered(From(w, p))
           /\ \A pair : Cardinality(Same(From(w, p), pair)) <= Cardinality(Same(w, pair))
<1> DEFINE f == From(w, p)
           n == Len(w)
<1>1. n \in Nat /\ p \in Nat /\ p >= 1 /\ f \in Seq(Emitted) /\ Len(f) = n - p + 1
      /\ \A i \in 1..n - p + 1 : f[i] = w[p + i - 1]
  BY FromAPlace
<1> HIDE DEF f
<1>2. ASSUME NEW i \in CallPlaces(f)
      PROVE  /\ p + i - 1 \in CallPlaces(w) /\ i + 1 \in 1..Len(f) /\ f[i] = w[p + i - 1] /\ f[i + 1] = w[p + i - 1 + 1]
             /\ f[i + 1].type = "tool_result" /\ f[i + 1].name = f[i].name
  <2>1. i \in 1..Len(f) /\ f[i].type = "tool_call"
    BY DEF CallPlaces
  <2>2. p + i - 1 \in 1..n /\ f[i] = w[p + i - 1]
    BY <1>1, <2>1
  <2>3. p + i - 1 \in CallPlaces(w)
    BY <2>1, <2>2 DEF CallPlaces
  <2>4. p + i - 1 + 1 \in 1..n /\ w[p + i - 1 + 1].type = "tool_result" /\ w[p + i - 1 + 1].name = w[p + i - 1].name
    BY <2>3 DEF Answered
  <2>5. i + 1 \in 1..Len(f) /\ i + 1 \in 1..n - p + 1 /\ p + (i + 1) - 1 = p + i - 1 + 1
    BY <1>1, <2>1, <2>4
  <2>6. f[i + 1] = w[p + i - 1 + 1]
    <3> DEFINE j == i + 1
    <3>1. j \in 1..n - p + 1 /\ p + j - 1 = p + i - 1 + 1
      BY <2>5
    <3> HIDE DEF j
    <3>2. f[j] = w[p + j - 1]
      BY <1>1, <3>1
    <3> QED
      BY <3>1, <3>2 DEF j
  <2> QED
    BY <2>2, <2>3, <2>4, <2>5, <2>6
<1>3. Answered(f)
  BY <1>2 DEF Answered
<1>4. ASSUME NEW pair PROVE Cardinality(Same(f, pair)) <= Cardinality(Same(w, pair))
  <2> DEFINE S == Same(f, pair)
             U == Same(w, pair)
             g == [i \in S |-> p + i - 1]
  <2>1. S \subseteq CallPlaces(f) /\ S \subseteq Nat /\ U \subseteq 1..n
    BY DEF Same, CallPlaces
  <2>2. IsFiniteSet(U)
    <3>1. IsFiniteSet(1..n) /\ U \in SUBSET (1..n)
      BY <1>1, <2>1, FS_Interval
    <3> HIDE DEF U
    <3> QED
      BY <3>1, FS_Subset
  <2>3. \A i \in S : p + i - 1 \in U
    <3> SUFFICES ASSUME NEW i \in S PROVE p + i - 1 \in U
      OBVIOUS
    <3>1. i \in CallPlaces(f) /\ [call |-> f[i], out |-> f[i + 1].out] = pair
      BY DEF Same
    <3> QED
      BY <1>2, <3>1 DEF Same
  <2>4. g \in [S -> U] /\ \A x, y \in S : g[x] = g[y] => x = y
    BY <1>1, <2>1, <2>3
  <2> HIDE DEF S, U, g
  <2>5. Cardinality(S) <= Cardinality(U)
    BY <2>2, <2>4, NoMore
  <2> QED
    BY <2>5 DEF S, U
<1> QED
  BY <1>1, <1>3, <1>4 DEF f

LEMMA SameIsFinite ==
    ASSUME NEW w \in Seq(Emitted), NEW pair PROVE IsFiniteSet(Same(w, pair)) /\ Cardinality(Same(w, pair)) \in Nat
<1> DEFINE n == Len(w)
           U == Same(w, pair)
<1>1. n \in Nat /\ U \in SUBSET (1..n)
  BY DEF Same, CallPlaces
<1> HIDE DEF n, U
<1>2. IsFiniteSet(1..n)
  BY <1>1, FS_Interval
<1>3. IsFiniteSet(U)
  BY <1>1, <1>2, FS_Subset
<1>4. Cardinality(U) \in Nat
  BY <1>3, FS_CardinalityType
<1> QED
  BY <1>3, <1>4 DEF U

\* The patterns of the last events are patterns of them all.
LEMMA WindowShowsNoMore ==
    ASSUME NEW w \in Seq(Emitted), Answered(w), NEW p \in 1..Len(w) + 1
    PROVE  Patterns(From(w, p)) \subseteq Patterns(w)
<1> DEFINE f == From(w, p)
<1>1. f \in Seq(Emitted) /\ Answered(f) /\ (\A pair : Cardinality(Same(f, pair)) <= Cardinality(Same(w, pair)))
      /\ EndsAlike(f, w) /\ WalksTyped(f) /\ WalksTyped(w)
  BY WindowIsAnswered, WindowsEndAlike, WalkTypes
<1> HIDE DEF f
<1>2. ASSUME NEW t \in Nat \ {0} PROVE Repeated(f, t) \subseteq Repeated(w, t)
  <2> SUFFICES ASSUME NEW q, q \in Repeated(f, t) PROVE q \in Repeated(w, t)
    OBVIOUS
  <2>1. Cardinality(Same(f, q)) >= t
    BY <1>1, RepeatedOf
  <2>2. Cardinality(Same(w, q)) >= t
    <3> DEFINE a == Cardinality(Same(f, q))
               b == Cardinality(Same(w, q))
    <3>1. a \in Nat /\ b \in Nat /\ a >= t /\ a <= b /\ t \in Nat
      BY <1>1, <2>1, SameIsFinite
    <3> HIDE DEF a, b
    <3>2. b >= t
      BY <3>1
    <3> QED
      BY <3>2 DEF b
  <2> QED
    BY <2>2, RepeatedOf
<1>3. RepeatedResult(f) \subseteq RepeatedResult(w) /\ RepeatedError(f) \subseteq RepeatedError(w)
  <2>1. SameResult \in Nat \ {0} /\ SameError \in Nat \ {0}
    BY StuckAssumption
  <2> QED
    BY <1>2, <2>1 DEF RepeatedResult, RepeatedError
<1>4. LongestTalk(f) >= TalkLimit => LongestTalk(w) >= TalkLimit
  <2>1. Row(f).max \in Nat /\ Row(w).max \in Nat /\ Row(f).max <= Row(w).max /\ TalkLimit \in Nat
    BY <1>1, StuckAssumption DEF WalksTyped, Rows, EndsAlike
  <2> QED
    BY <2>1 DEF LongestTalk
<1>5. Alternates(f) => Alternates(w)
  <2> SUFFICES ASSUME Alternates(f) PROVE Alternates(w)
    OBVIOUS
  <2>1. PICK s \in Nat : AltAt(Sigs(f), s)
    BY <1>1, AlternatesAt
  <2>2. PICK m \in 0..Len(Sigs(w)) : IsEnd(Sigs(f), Sigs(w), m)
    BY <1>1 DEF EndsAlike
  <2>3. m + s \in Nat /\ AltAt(Sigs(w), m + s)
    BY <1>1, <2>1, <2>2, AlternatesAtTheEnd DEF WalksTyped
  <2> QED
    BY <2>3, AlternatesAt
<1>6. NoProgress(f) => NoProgress(w)
  <2> SUFFICES ASSUME NoProgress(f) PROVE NoProgress(w)
    OBVIOUS
  <2>1. Len(Gather(f)) >= NoProgressThreshold /\ Idle(LastOf(Gather(f), NoProgressThreshold))
    BY NoProgressIsIdle
  <2>2. PICK m \in 0..Len(Gather(w)) : IsEnd(Gather(f), Gather(w), m)
    BY <1>1 DEF EndsAlike
  <2>3. NoProgressThreshold \in Nat
    BY StuckAssumption
  <2>4. Len(Gather(w)) >= NoProgressThreshold
        /\ LastOf(Gather(f), NoProgressThreshold) = LastOf(Gather(w), NoProgressThreshold)
    BY <1>1, <2>1, <2>2, <2>3, LastOfAnEnd DEF WalksTyped
  <2> QED
    BY <2>1, <2>4, NoProgressIsIdle
<1>7. Patterns(f) \subseteq Patterns(w)
  BY <1>3, <1>4, <1>5, <1>6 DEF Patterns, Signal
<1> QED
  BY <1>7 DEF f

LEMMA GrownByOne ==
    ASSUME NEW T, NEW a \in Seq(T), NEW b \in Seq(T), Len(b) = Len(a) + 1, \A i \in 1..Len(a) : b[i] = a[i]
    PROVE  b = Append(a, b[Len(a) + 1]) /\ b[Len(a) + 1] \in T
<1> DEFINE n == Len(a)
           x == b[n + 1]
<1>1. n \in Nat /\ x \in T
  OBVIOUS
<1>2. Append(a, x) \in Seq(T) /\ Len(Append(a, x)) = n + 1 /\ Append(a, x)[n + 1] = x
      /\ \A i \in 1..n : Append(a, x)[i] = a[i]
  BY <1>1
<1> DEFINE c == Append(a, x)
<1>3. ASSUME NEW i \in 1..n + 1 PROVE b[i] = c[i]
  <2>1. i \in 1..n \/ i = n + 1
    BY <1>1
  <2> HIDE DEF c
  <2> QED
    BY <1>2, <2>1 DEF c
<1> HIDE DEF c
<1>4. b = c
  BY <1>1, <1>2, <1>3, SeqEqual DEF c
<1> QED
  BY <1>1, <1>4 DEF c

\* Sequences in a row, and two events behind them.
LEMMA InARow == \A T : \A x, y, z \in Seq(T) : x \o (y \o z) = (x \o y) \o z
BY ConcatAssociative

LEMMA TwoMore ==
    \A T : \A w, v \in Seq(T) : \A a, b \in T :
      /\ w \o <<>> = w /\ w \o <<a, b>> = Append(Append(w, a), b)
      /\ w \o (v \o <<a, b>>) = Append(Append(w \o v, a), b)
      /\ w \o Append(v, a) = Append(w \o v, a)
<1> TAKE T
<1> TAKE w, v \in Seq(T)
<1> TAKE a, b \in T
<1>1. w \o <<>> = w
  OBVIOUS
<1>2. \A s \in Seq(T) : s \o <<a, b>> = Append(Append(s, a), b)
  <2> SUFFICES ASSUME NEW s \in Seq(T) PROVE s \o <<a, b>> = Append(Append(s, a), b)
    OBVIOUS
  <2> DEFINE n == Len(s)
             p == s \o <<a, b>>
             q == Append(Append(s, a), b)
             r == Append(s, a)
  <2>1. n \in Nat /\ r \in Seq(T) /\ Len(r) = n + 1 /\ r[n + 1] = a /\ \A i \in 1..n : r[i] = s[i]
    OBVIOUS
  <2>2. q \in Seq(T) /\ Len(q) = n + 2 /\ q[n + 2] = b /\ q[n + 1] = a /\ \A i \in 1..n : q[i] = s[i]
    <3> HIDE DEF r, n
    <3>1. Append(r, b) \in Seq(T) /\ Len(Append(r, b)) = Len(r) + 1 /\ Append(r, b)[Len(r) + 1] = b
          /\ \A i \in 1..Len(r) : Append(r, b)[i] = r[i]
      BY <2>1
    <3>2. n + 1 + 1 = n + 2 /\ n + 1 \in 1..n + 1 /\ \A i \in 1..n : i \in 1..n + 1
      BY <2>1
    <3> QED
      BY <2>1, <3>1, <3>2 DEF r
  <2>3. <<a, b>> \in Seq(T) /\ Len(<<a, b>>) = 2 /\ <<a, b>>[1] = a /\ <<a, b>>[2] = b
    OBVIOUS
  <2>4. p \in Seq(T) /\ Len(p) = n + 2 /\ p[n + 1] = a /\ p[n + 2] = b /\ \A i \in 1..n : p[i] = s[i]
    <3> DEFINE t == <<a, b>>
    <3>1. t \in Seq(T) /\ Len(t) = 2 /\ t[1] = a /\ t[2] = b /\ s \in Seq(T)
      BY <2>3
    <3> HIDE DEF t
    <3>2. s \o t \in Seq(T) /\ Len(s \o t) = Len(s) + Len(t)
          /\ (\A i \in 1..Len(s) : (s \o t)[i] = s[i]) /\ (\A i \in 1..Len(t) : (s \o t)[Len(s) + i] = t[i])
      <4>1. s \in Seq(T) /\ t \in Seq(T)
        BY <3>1
      <4> QED
        BY <4>1, Sg!Beside
    <3> QED
      BY <3>1, <3>2 DEF t
  <2> HIDE DEF p, q, n, r
  <2>5. \A i \in 1..n + 2 : p[i] = q[i]
    BY <2>1, <2>2, <2>4
  <2>6. p = q
    BY <2>2, <2>4, <2>5, SeqEqual
  <2> QED
    BY <2>6 DEF p, q
<1>3. w \o (v \o <<a, b>>) = (w \o v) \o <<a, b>>
  <2> DEFINE t == <<a, b>>
  <2>1. t \in Seq(T)
    OBVIOUS
  <2> HIDE DEF t
  <2>2. w \o (v \o t) = (w \o v) \o t
    BY <2>1, InARow
  <2> QED
    BY <2>2 DEF t
<1>4. w \o v \in Seq(T)
  OBVIOUS
<1>5. w \o Append(v, a) = Append(w \o v, a)
  <2> DEFINE c == w \o v
             x == Append(v, a)
             y == w \o x
             z == Append(c, a)
  <2>1. x \in Seq(T) /\ Len(x) = Len(v) + 1 /\ x[Len(v) + 1] = a /\ (\A i \in 1..Len(v) : x[i] = v[i])
        /\ Len(v) \in Nat /\ Len(w) \in Nat
    OBVIOUS
  <2>2. c \in Seq(T) /\ Len(c) = Len(w) + Len(v) /\ (\A i \in 1..Len(w) : c[i] = w[i])
        /\ (\A i \in 1..Len(v) : c[Len(w) + i] = v[i])
    BY Sg!Beside
  <2> HIDE DEF x, c
  <2>3. y \in Seq(T) /\ Len(y) = Len(w) + Len(x) /\ (\A i \in 1..Len(w) : y[i] = w[i])
        /\ (\A i \in 1..Len(x) : y[Len(w) + i] = x[i])
    <3>1. w \in Seq(T) /\ x \in Seq(T)
      BY <2>1
    <3> QED
      BY <3>1, Sg!Beside
  <2>4. z \in Seq(T) /\ Len(z) = Len(c) + 1 /\ z[Len(c) + 1] = a /\ \A i \in 1..Len(c) : z[i] = c[i]
    BY <2>2
  <2> HIDE DEF y, z
  <2>5. ASSUME NEW i \in 1..Len(y) PROVE y[i] = z[i]
    <3>1. CASE i \in 1..Len(w)
      <4>1. i \in 1..Len(c)
        BY <2>1, <2>2, <3>1
      <4> QED
        BY <2>2, <2>3, <2>4, <3>1, <4>1
    <3>2. CASE i \notin 1..Len(w)
      <4> DEFINE j == i - Len(w)
      <4>1. j \in 1..Len(x) /\ i = Len(w) + j
        BY <2>1, <2>3, <3>2
      <4>2. y[i] = x[j]
        BY <2>3, <4>1
      <4> HIDE DEF j
      <4>3. CASE j = Len(v) + 1
        <5>1. i = Len(c) + 1
          BY <2>1, <2>2, <4>1, <4>3
        <5> QED
          BY <2>1, <2>4, <4>2, <4>3, <5>1
      <4>4. CASE j # Len(v) + 1
        <5>1. j \in 1..Len(v) /\ i \in 1..Len(c)
          BY <2>1, <2>2, <4>1, <4>4
        <5> QED
          BY <2>1, <2>2, <2>4, <4>1, <4>2, <5>1
      <4> QED
        BY <4>3, <4>4
    <3> QED
      BY <3>1, <3>2
  <2>6. Len(y) = Len(z)
    BY <2>1, <2>2, <2>3, <2>4
  <2>7. y = z
    BY <2>3, <2>4, <2>5, <2>6, SeqEqual
  <2> QED
    BY <2>7 DEF y, z, c, x
<1> QED
  BY <1>1, <1>2, <1>3, <1>4, <1>5

-----------------------------------------------------------------------------
\* The events of calls, and of a history of turns.
FlatCalls(cs) == FlattenSeq([i \in 1..Len(cs) |-> CallEvents(cs[i])])
Trail(h) == FlattenSeq([i \in 1..Len(h) |-> Opening(h[i]) \o Closing(h[i])])
DoneAll(h) == FlattenSeq([i \in 1..Len(h) |-> Calls(h[i])])

LEMMA FlattenOfNothing == FlattenSeq(<<>>) = <<>>
BY Sg!FlatOfNothing DEF Sg!Flat, Sg!FlattenSeq, FlattenSeq

LEMMA FlatCallsOfOneMore ==
    /\ FlatCalls(<<>>) = <<>>
    /\ \A cs \in Seq(Deeds) : FlatCalls(cs) \in Seq(Emitted)
    /\ \A cs \in Seq(Deeds), c \in Deeds : FlatCalls(Append(cs, c)) = FlatCalls(cs) \o <<CallOf(c), ResultOf(c)>>
<1> DEFINE M(cs) == [i \in 1..Len(cs) |-> CallEvents(cs[i])]
           U == Seq(Emitted)
<1>1. FlatCalls(<<>>) = <<>>
  <2>1. M(<<>>) = <<>>
    OBVIOUS
  <2> QED
    BY <2>1, FlattenOfNothing DEF FlatCalls
<1>2. \A c \in Deeds : CallEvents(c) \in U /\ CallEvents(c) = <<CallOf(c), ResultOf(c)>>
  <2> SUFFICES ASSUME NEW c \in Deeds PROVE CallEvents(c) \in U /\ CallEvents(c) = <<CallOf(c), ResultOf(c)>>
    OBVIOUS
  <2>1. CallOf(c) \in Emitted /\ ResultOf(c) \in Emitted
    BY DEF Emitted
  <2> DEFINE a == CallOf(c)
             b == ResultOf(c)
  <2>2. CallEvents(c) = <<a, b>> /\ a \in Emitted /\ b \in Emitted
    BY <2>1, CallIsTwoEvents
  <2> HIDE DEF a, b
  <2> QED
    BY <2>2 DEF a, b
<1>3. \A cs \in Seq(Deeds) : M(cs) \in Seq(U) /\ Len(M(cs)) = Len(cs) /\ \A i \in 1..Len(cs) : M(cs)[i] = CallEvents(cs[i])
  <2> SUFFICES ASSUME NEW cs \in Seq(Deeds)
               PROVE  M(cs) \in Seq(U) /\ Len(M(cs)) = Len(cs) /\ \A i \in 1..Len(cs) : M(cs)[i] = CallEvents(cs[i])
    OBVIOUS
  <2>1. \A i \in 1..Len(cs) : CallEvents(cs[i]) \in U
    BY <1>2
  <2>2. Len(cs) \in Nat
    OBVIOUS
  <2> HIDE DEF U
  <2> QED
    BY <2>1, <2>2
<1>4. ASSUME NEW cs \in Seq(Deeds), NEW c \in Deeds
      PROVE  M(Append(cs, c)) = Append(M(cs), CallEvents(c))
  <2> DEFINE d == Append(cs, c)
  <2>1. d \in Seq(Deeds) /\ Len(d) = Len(cs) + 1 /\ d[Len(cs) + 1] = c /\ (\A i \in 1..Len(cs) : d[i] = cs[i])
        /\ Len(cs) \in Nat
    OBVIOUS
  <2> HIDE DEF d
  <2> DEFINE a == M(cs)
             b == M(d)
  <2>2. a \in Seq(U) /\ Len(a) = Len(cs) /\ \A i \in 1..Len(cs) : a[i] = CallEvents(cs[i])
    BY <1>3
  <2>3. b \in Seq(U) /\ Len(b) = Len(d) /\ \A i \in 1..Len(d) : b[i] = CallEvents(d[i])
    BY <1>3, <2>1
  <2> HIDE DEF a, b, U, M
  <2>4. Len(b) = Len(a) + 1 /\ Len(a) + 1 \in 1..Len(d) /\ \A i \in 1..Len(a) : i \in 1..Len(cs) /\ i \in 1..Len(d)
    BY <2>1, <2>2, <2>3
  <2>5. \A i \in 1..Len(a) : b[i] = a[i]
    BY <2>1, <2>2, <2>3, <2>4
  <2>6. b = Append(a, b[Len(a) + 1])
    BY <2>2, <2>3, <2>4, <2>5, GrownByOne
  <2>7. b[Len(a) + 1] = CallEvents(c)
    BY <2>1, <2>2, <2>3, <2>4
  <2> QED
    BY <2>6, <2>7 DEF a, b, d
<1>5. ASSUME NEW cs \in Seq(Deeds), NEW c \in Deeds
      PROVE  FlatCalls(Append(cs, c)) = FlatCalls(cs) \o <<CallOf(c), ResultOf(c)>>
  <2> DEFINE m == M(cs)
             x == CallEvents(c)
  <2>1. m \in Seq(U) /\ x \in U /\ FlatCalls(cs) = FlattenSeq(m) /\ x = <<CallOf(c), ResultOf(c)>>
    BY <1>2, <1>3 DEF FlatCalls
  <2>2. FlatCalls(Append(cs, c)) = FlattenSeq(Append(m, x))
    BY <1>4 DEF FlatCalls
  <2> HIDE DEF m, x
  <2>3. FlattenSeq(Append(m, x)) = FlattenSeq(m) \o x
    BY <2>1, FlattenOfOneMore
  <2> QED
    BY <2>1, <2>2, <2>3
<1> DEFINE S == {cs \in Seq(Deeds) : FlatCalls(cs) \in Seq(Emitted)}
<1>6. <<>> \in S
  <2>1. <<>> \in Seq(Deeds) /\ <<>> \in Seq(Emitted)
    OBVIOUS
  <2> QED
    BY <1>1, <2>1
<1>7. ASSUME NEW cs \in Seq(Deeds), NEW c \in Deeds, cs \in S PROVE Append(cs, c) \in S
  <2>1. <<CallOf(c), ResultOf(c)>> \in Seq(Emitted)
    BY <1>2
  <2>2. FlatCalls(cs) \in Seq(Emitted)
    BY <1>7
  <2>3. FlatCalls(cs) \o <<CallOf(c), ResultOf(c)>> \in Seq(Emitted)
    BY <2>1, <2>2, Sg!Beside
  <2>4. Append(cs, c) \in Seq(Deeds)
    OBVIOUS
  <2> QED
    BY <1>5, <2>3, <2>4
<1> HIDE DEF S
<1>8. \A cs \in Seq(Deeds) : cs \in S
  BY <1>6, <1>7, Sg!SeqSteps
<1> QED
  BY <1>1, <1>5, <1>8 DEF S

\* The events of a turn, its calls being the closing of one that works.
Work(turn) == Opening(turn) \o Closing(turn)

LEMMA TurnEvents ==
    ASSUME NEW turn \in Turns
    PROVE  /\ Opening(turn) = <<Started, Response(Len(turn.calls))>> /\ Opening(turn) \in Seq(Emitted)
           /\ Response(Len(turn.calls)) \in Emitted
           /\ Talks(turn) <=> turn.calls = <<>>
           /\ Talks(turn) => Closing(turn) = <<Verifies, Verified(turn.passed)>>
           /\ ~Talks(turn) => Closing(turn) = FlatCalls(turn.calls)
           /\ Closing(turn) \in Seq(Emitted) /\ Work(turn) \in Seq(Emitted)
<1>1. turn.passed \in Nat /\ turn.calls \in Seq(Deeds) /\ Len(turn.calls) \in Nat
  BY TurnTypes
<1>2. Opening(turn) = <<Started, Response(Len(turn.calls))>>
  BY DEF Opening, Started, Response, Calls
<1>3. Started \in Emitted /\ Response(Len(turn.calls)) \in Emitted /\ Verifies \in Emitted /\ Verified(turn.passed) \in Emitted
  BY <1>1, WhatIsEmitted
<1>4. Opening(turn) \in Seq(Emitted)
  BY <1>2, <1>3
<1>5. Talks(turn) <=> turn.calls = <<>>
  BY DEF Talks, Calls
<1>6. Talks(turn) => Closing(turn) = <<Verifies, Verified(turn.passed)>>
  BY DEF Closing, Verifies, Verified, Passed
<1>7. ~Talks(turn) => Closing(turn) = FlatCalls(turn.calls)
  <2>1. DOMAIN turn.calls = 1..Len(turn.calls)
    BY <1>1
  <2> QED
    BY <2>1 DEF Closing, FlatCalls, Calls
<1>8. Closing(turn) \in Seq(Emitted)
  <2>1. FlatCalls(turn.calls) \in Seq(Emitted)
    BY <1>1, FlatCallsOfOneMore
  <2>2. <<Verifies, Verified(turn.passed)>> \in Seq(Emitted)
    BY <1>3
  <2> QED
    BY <1>6, <1>7, <2>1, <2>2
<1>9. Work(turn) \in Seq(Emitted)
  <2> DEFINE a == Opening(turn)
             b == Closing(turn)
  <2>1. a \in Seq(Emitted) /\ b \in Seq(Emitted)
    BY <1>4, <1>8
  <2> HIDE DEF a, b
  <2>2. a \o b \in Seq(Emitted)
    BY <2>1
  <2> QED
    BY <2>2 DEF Work, a, b
<1> QED
  BY <1>2, <1>3, <1>4, <1>5, <1>6, <1>7, <1>8, <1>9

LEMMA TrailOfOneMore ==
    /\ Trail(<<>>) = <<>>
    /\ \A h \in Seq(Turns), t \in Turns : Trail(Append(h, t)) = Trail(h) \o Work(t)
    /\ \A h \in Seq(Turns) : Trail(h) \in Seq(Emitted)
<1> DEFINE M(h) == [i \in 1..Len(h) |-> Work(h[i])]
           U == Seq(Emitted)
<1>0. \A h : Trail(h) = FlattenSeq(M(h))
  BY DEF Trail, Work
<1>1. Trail(<<>>) = <<>>
  <2>1. M(<<>>) = <<>>
    OBVIOUS
  <2> QED
    BY <1>0, <2>1, FlattenOfNothing
<1>2. \A t \in Turns : Work(t) \in U
  BY TurnEvents
<1>3. ASSUME NEW h \in Seq(Turns)
      PROVE  M(h) \in Seq(U) /\ Len(M(h)) = Len(h) /\ \A i \in 1..Len(h) : M(h)[i] = Work(h[i])
  <2>1. \A i \in 1..Len(h) : Work(h[i]) \in U
    BY <1>2
  <2>2. Len(h) \in Nat
    OBVIOUS
  <2> HIDE DEF U
  <2> QED
    BY <2>1, <2>2
<1>4. ASSUME NEW h \in Seq(Turns), NEW t \in Turns PROVE M(Append(h, t)) = Append(M(h), Work(t))
  <2> DEFINE d == Append(h, t)
  <2>1. d \in Seq(Turns) /\ Len(d) = Len(h) + 1 /\ d[Len(h) + 1] = t /\ (\A i \in 1..Len(h) : d[i] = h[i])
        /\ Len(h) \in Nat
    OBVIOUS
  <2> HIDE DEF d
  <2> DEFINE a == M(h)
             b == M(d)
  <2>2. a \in Seq(U) /\ Len(a) = Len(h) /\ \A i \in 1..Len(h) : a[i] = Work(h[i])
    BY <1>3
  <2>3. b \in Seq(U) /\ Len(b) = Len(d) /\ \A i \in 1..Len(d) : b[i] = Work(d[i])
    BY <1>3, <2>1
  <2> HIDE DEF a, b, U, M
  <2>4. Len(b) = Len(a) + 1 /\ Len(a) + 1 \in 1..Len(d) /\ \A i \in 1..Len(a) : i \in 1..Len(h) /\ i \in 1..Len(d)
    BY <2>1, <2>2, <2>3
  <2>5. \A i \in 1..Len(a) : b[i] = a[i]
    BY <2>1, <2>2, <2>3, <2>4
  <2>6. b = Append(a, b[Len(a) + 1])
    BY <2>2, <2>3, <2>4, <2>5, GrownByOne
  <2>7. b[Len(a) + 1] = Work(t)
    BY <2>1, <2>2, <2>3, <2>4
  <2> QED
    BY <2>6, <2>7 DEF a, b, d
<1>5. ASSUME NEW h \in Seq(Turns), NEW t \in Turns PROVE Trail(Append(h, t)) = Trail(h) \o Work(t)
  <2> DEFINE m == M(h)
             x == Work(t)
  <2>1. m \in Seq(U) /\ x \in U /\ Trail(h) = FlattenSeq(m)
    BY <1>0, <1>2, <1>3
  <2>2. Trail(Append(h, t)) = FlattenSeq(Append(m, x))
    BY <1>0, <1>4
  <2> HIDE DEF m, x
  <2>3. FlattenSeq(Append(m, x)) = FlattenSeq(m) \o x
    BY <2>1, FlattenOfOneMore
  <2> QED
    BY <2>1, <2>2, <2>3 DEF x
<1> DEFINE S == {h \in Seq(Turns) : Trail(h) \in Seq(Emitted)}
<1>6. <<>> \in S
  <2>1. <<>> \in Seq(Turns) /\ <<>> \in Seq(Emitted)
    OBVIOUS
  <2> QED
    BY <1>1, <2>1
<1>7. ASSUME NEW h \in Seq(Turns), NEW t \in Turns, h \in S PROVE Append(h, t) \in S
  <2>1. Trail(h) \in Seq(Emitted) /\ Work(t) \in Seq(Emitted) /\ Append(h, t) \in Seq(Turns)
    BY <1>2, <1>7
  <2>2. Trail(h) \o Work(t) \in Seq(Emitted)
    BY <2>1
  <2> QED
    BY <1>5, <2>1, <2>2
<1> HIDE DEF S, M
<1>8. \A h \in Seq(Turns) : h \in S
  BY <1>6, <1>7, Sg!SeqSteps
<1> QED
  BY <1>1, <1>5, <1>8 DEF S

LEMMA DoneAllOfOneMore ==
    /\ DoneAll(<<>>) = <<>>
    /\ \A h \in Seq(Turns), t \in Turns : DoneAll(Append(h, t)) = DoneAll(h) \o t.calls /\ Done(Append(h, t)) = DoneAll(h)
    /\ \A h \in Seq(Turns) : DoneAll(h) \in Seq(Deeds)
<1> DEFINE M(h) == [i \in 1..Len(h) |-> h[i].calls]
           U == Seq(Deeds)
<1>0. \A h : DoneAll(h) = FlattenSeq(M(h))
  BY DEF DoneAll, Calls
<1>1. DoneAll(<<>>) = <<>>
  <2>1. M(<<>>) = <<>>
    OBVIOUS
  <2> QED
    BY <1>0, <2>1, FlattenOfNothing
<1>2. \A t \in Turns : t.calls \in U
  BY TurnTypes
<1>3. ASSUME NEW h \in Seq(Turns)
      PROVE  M(h) \in Seq(U) /\ Len(M(h)) = Len(h) /\ \A i \in 1..Len(h) : M(h)[i] = h[i].calls
  <2>1. \A i \in 1..Len(h) : h[i].calls \in U
    BY <1>2
  <2>2. Len(h) \in Nat
    OBVIOUS
  <2> HIDE DEF U
  <2> QED
    BY <2>1, <2>2
<1>4. ASSUME NEW h \in Seq(Turns), NEW t \in Turns
      PROVE  M(Append(h, t)) = Append(M(h), t.calls) /\ Done(Append(h, t)) = DoneAll(h)
  <2> DEFINE d == Append(h, t)
  <2>1. d \in Seq(Turns) /\ Len(d) = Len(h) + 1 /\ d[Len(h) + 1] = t /\ (\A i \in 1..Len(h) : d[i] = h[i])
        /\ Len(h) \in Nat
    OBVIOUS
  <2> HIDE DEF d
  <2> DEFINE a == M(h)
             b == M(d)
  <2>2. a \in Seq(U) /\ Len(a) = Len(h) /\ \A i \in 1..Len(h) : a[i] = h[i].calls
    BY <1>3
  <2>3. b \in Seq(U) /\ Len(b) = Len(d) /\ \A i \in 1..Len(d) : b[i] = d[i].calls
    BY <1>3, <2>1
  <2>8. [i \in 1..Len(d) - 1 |-> d[i].calls] = M(h)
    <3>1. Len(d) - 1 = Len(h)
      BY <2>1
    <3>2. [i \in 1..Len(h) |-> d[i].calls] = [i \in 1..Len(h) |-> h[i].calls]
      BY <2>1
    <3> QED
      BY <3>1, <3>2
  <2>9. Done(d) = DoneAll(h)
    BY <1>0, <2>8 DEF Done, Calls
  <2> HIDE DEF a, b, U, M
  <2>4. Len(b) = Len(a) + 1 /\ Len(a) + 1 \in 1..Len(d) /\ \A i \in 1..Len(a) : i \in 1..Len(h) /\ i \in 1..Len(d)
    BY <2>1, <2>2, <2>3
  <2>5. \A i \in 1..Len(a) : b[i] = a[i]
    BY <2>1, <2>2, <2>3, <2>4
  <2>6. b = Append(a, b[Len(a) + 1])
    BY <2>2, <2>3, <2>4, <2>5, GrownByOne
  <2>7. b[Len(a) + 1] = t.calls
    BY <2>1, <2>2, <2>3, <2>4
  <2> QED
    BY <2>6, <2>7, <2>9 DEF a, b, d
<1>5. ASSUME NEW h \in Seq(Turns), NEW t \in Turns PROVE DoneAll(Append(h, t)) = DoneAll(h) \o t.calls
  <2> DEFINE m == M(h)
             x == t.calls
  <2>1. m \in Seq(U) /\ x \in U /\ DoneAll(h) = FlattenSeq(m)
    BY <1>0, <1>2, <1>3
  <2>2. DoneAll(Append(h, t)) = FlattenSeq(Append(m, x))
    BY <1>0, <1>4
  <2> HIDE DEF m, x
  <2>3. FlattenSeq(Append(m, x)) = FlattenSeq(m) \o x
    BY <2>1, FlattenOfOneMore
  <2> QED
    BY <2>1, <2>2, <2>3 DEF x
<1> DEFINE S == {h \in Seq(Turns) : DoneAll(h) \in Seq(Deeds)}
<1>6. <<>> \in S
  <2>1. <<>> \in Seq(Turns) /\ <<>> \in Seq(Deeds)
    OBVIOUS
  <2> QED
    BY <1>1, <2>1
<1>7. ASSUME NEW h \in Seq(Turns), NEW t \in Turns, h \in S PROVE Append(h, t) \in S
  <2>1. DoneAll(h) \in Seq(Deeds) /\ t.calls \in Seq(Deeds) /\ Append(h, t) \in Seq(Turns)
    BY <1>2, <1>7
  <2>2. DoneAll(h) \o t.calls \in Seq(Deeds)
    BY <2>1
  <2> QED
    BY <1>5, <2>1, <2>2
<1> HIDE DEF S, M
<1>8. \A h \in Seq(Turns) : h \in S
  BY <1>6, <1>7, Sg!SeqSteps
<1> QED
  BY <1>1, <1>4, <1>5, <1>8 DEF S

\* What a buffer tells of the calls made.
SameIn(d, p) == {i \in 1..Len(d) : PairOf(d[i]) = p}
Tells(w, d) ==
    /\ w \in Seq(Emitted) /\ d \in Seq(Deeds) /\ Answered(w)
    /\ Len(Sigs(w)) = Len(d) /\ \A i \in 1..Len(d) : Sigs(w)[i] = CallOf(d[i])
    /\ \A p : Cardinality(Same(w, p)) = Cardinality(SameIn(d, p))

LEMMA PairIs == ASSUME NEW c PROVE PairOf(c) = [call |-> CallOf(c), out |-> c.out]
<1>1. CallEvents(c)[1] = CallOf(c)
  BY CallIsTwoEvents
<1> QED
  BY <1>1 DEF PairOf

LEMMA NothingTells == Tells(<<>>, <<>>)
<1>1. <<>> \in Seq(Emitted) /\ <<>> \in Seq(Deeds) /\ Len(<<>>) = 0 /\ 1..0 = {}
  OBVIOUS
<1>2. CallPlaces(<<>>) = {}
  BY <1>1 DEF CallPlaces
<1>3. Answered(<<>>) /\ \A p : Same(<<>>, p) = {} /\ SameIn(<<>>, p) = {}
  BY <1>1, <1>2 DEF Answered, Same, SameIn
<1>4. Sigs(<<>>) = <<>>
  BY NoEvents
<1> QED
  BY <1>1, <1>3, <1>4 DEF Tells

LEMMA QuietTells ==
    ASSUME NEW w, NEW d, Tells(w, d), NEW e \in Emitted, e.type # "tool_call"
    PROVE  Tells(Append(w, e), d)
<1> DEFINE v == Append(w, e)
           n == Len(w)
<1>0. w \in Seq(Emitted) /\ Answered(w)
  BY DEF Tells
<1>1. n \in Nat /\ v \in Seq(Emitted) /\ Len(v) = n + 1 /\ v[n + 1] = e /\ \A i \in 1..n : v[i] = w[i]
  BY <1>0
<1>2. Sigs(v) = Sigs(w)
  <2>1. Sigs(v) = SigOn(Sigs(w), e)
    BY <1>0, OneEventMore
  <2> QED
    BY <2>1 DEF SigOn
<1> HIDE DEF v
<1>3. CallPlaces(v) = CallPlaces(w)
  <2>1. ASSUME NEW i \in 1..n + 1 PROVE i \in CallPlaces(v) <=> i \in CallPlaces(w)
    <3>1. CASE i = n + 1
      BY <1>1, <3>1 DEF CallPlaces
    <3>2. CASE i # n + 1
      <4>1. i \in 1..n
        BY <1>1, <3>2
      <4> QED
        BY <1>1, <4>1 DEF CallPlaces
    <3> QED
      BY <3>1, <3>2
  <2>2. CallPlaces(v) \subseteq 1..n + 1 /\ CallPlaces(w) \subseteq 1..n + 1
    BY <1>1 DEF CallPlaces
  <2> QED
    BY <2>1, <2>2
<1>4. ASSUME NEW i \in CallPlaces(w)
      PROVE  i \in 1..n /\ i + 1 \in 1..n /\ v[i] = w[i] /\ v[i + 1] = w[i + 1]
             /\ w[i + 1].type = "tool_result" /\ w[i + 1].name = w[i].name
  <2>1. i \in 1..n /\ i + 1 \in 1..n /\ w[i + 1].type = "tool_result" /\ w[i + 1].name = w[i].name
    BY <1>0 DEF CallPlaces, Answered
  <2> QED
    BY <1>1, <2>1
<1>5. Answered(v)
  <2>1. \A i \in CallPlaces(w) : i + 1 \in 1..n + 1
    BY <1>1, <1>4
  <2> QED
    BY <1>1, <1>3, <1>4, <2>1 DEF Answered
<1>6. \A p : Same(v, p) = Same(w, p)
  BY <1>3, <1>4 DEF Same
<1> QED
  BY <1>1, <1>2, <1>5, <1>6 DEF Tells, v

LEMMA CallTells ==
    ASSUME NEW w, NEW d, Tells(w, d), NEW c \in Deeds
    PROVE  Tells(Append(Append(w, CallOf(c)), ResultOf(c)), Append(d, c))
<1> DEFINE u == Append(w, CallOf(c))
           v == Append(u, ResultOf(c))
           a == Append(d, c)
           n == Len(w)
           m == Len(d)
<1>0. w \in Seq(Emitted) /\ d \in Seq(Deeds) /\ Answered(w) /\ CallOf(c) \in Emitted /\ ResultOf(c) \in Emitted
  BY WhatIsEmitted DEF Tells, Emitted
<1>1. /\ n \in Nat /\ u \in Seq(Emitted) /\ Len(u) = n + 1 /\ u[n + 1] = CallOf(c) /\ (\A i \in 1..n : u[i] = w[i])
      /\ m \in Nat /\ a \in Seq(Deeds) /\ Len(a) = m + 1 /\ a[m + 1] = c /\ (\A i \in 1..m : a[i] = d[i])
  BY <1>0
<1>2. v \in Seq(Emitted) /\ Len(v) = n + 2 /\ v[n + 1] = CallOf(c) /\ v[n + 2] = ResultOf(c)
      /\ \A i \in 1..n : v[i] = w[i]
  <2> HIDE DEF u
  <2>1. v \in Seq(Emitted) /\ Len(v) = Len(u) + 1 /\ v[Len(u) + 1] = ResultOf(c) /\ \A i \in 1..Len(u) : v[i] = u[i]
    BY <1>0, <1>1
  <2>2. Len(u) + 1 = n + 2 /\ n + 1 \in 1..Len(u) /\ \A i \in 1..n : i \in 1..Len(u)
    BY <1>1
  <2> HIDE DEF v
  <2> QED
    BY <1>1, <2>1, <2>2
<1>k. CallOf(c).type = "tool_call" /\ ResultOf(c).type = "tool_result" /\ CallOf(c).name = c.action.tool
      /\ ResultOf(c).name = c.action.tool /\ ResultOf(c).out = c.out
  BY KindsDiffer
<1>3. Sigs(v) = Append(Sigs(w), CallOf(c))
  <2>1. Sigs(u) = SigOn(Sigs(w), CallOf(c))
    BY <1>0, OneEventMore
  <2>2. Sigs(v) = SigOn(Sigs(u), ResultOf(c))
    <3> HIDE DEF u
    <3> QED
      BY <1>0, <1>1, OneEventMore
  <2> QED
    BY <1>k, <2>1, <2>2 DEF SigOn
<1> DEFINE s == Sigs(w)
           t == Sigs(v)
<1>4. Len(t) = Len(a) /\ \A i \in 1..Len(a) : t[i] = CallOf(a[i])
  <2>1. s \in Seq(CallsMade) /\ Len(s) = m /\ \A i \in 1..m : s[i] = CallOf(d[i])
    BY <1>0, WalkTypes DEF WalksTyped, Tells
  <2>2. CallOf(c) \in CallsMade
    BY DEF CallsMade
  <2>3. t = Append(s, CallOf(c))
    BY <1>3
  <2> HIDE DEF s, t, a
  <2>4. Len(t) = m + 1 /\ t[m + 1] = CallOf(c) /\ \A i \in 1..m : t[i] = s[i]
    BY <2>1, <2>2, <2>3
  <2>5. ASSUME NEW i \in 1..Len(a) PROVE t[i] = CallOf(a[i])
    <3>1. i = m + 1 \/ i \in 1..m
      BY <1>1
    <3> QED
      BY <1>1, <2>1, <2>4, <3>1
  <2> QED
    BY <1>1, <2>4, <2>5
<1> HIDE DEF u, v, a, s, t
<1>5. CallPlaces(v) = CallPlaces(w) \cup {n + 1}
  <2>1. ASSUME NEW i \in 1..n + 2 PROVE i \in CallPlaces(v) <=> i \in CallPlaces(w) \cup {n + 1}
    <3>1. CASE i = n + 1
      BY <1>1, <1>2, <1>k, <3>1 DEF CallPlaces
    <3>2. CASE i = n + 2
      <4>1. i \notin 1..n /\ i # n + 1
        BY <1>1, <3>2
      <4>2. v[i].type # "tool_call"
        BY <1>2, <1>k, <3>2
      <4> QED
        BY <4>1, <4>2 DEF CallPlaces
    <3>3. CASE i # n + 1 /\ i # n + 2
      <4>1. i \in 1..n /\ i \in 1..n + 2
        BY <1>1, <3>3
      <4> QED
        BY <1>2, <3>3, <4>1 DEF CallPlaces
    <3> QED
      BY <3>1, <3>2, <3>3
  <2>2. CallPlaces(v) \subseteq 1..n + 2 /\ CallPlaces(w) \cup {n + 1} \subseteq 1..n + 2
    BY <1>1, <1>2 DEF CallPlaces
  <2> QED
    BY <2>1, <2>2
<1>6. ASSUME NEW i \in CallPlaces(w)
      PROVE  i \in 1..n /\ i + 1 \in 1..n /\ i + 1 \in 1..n + 2 /\ v[i] = w[i] /\ v[i + 1] = w[i + 1]
             /\ w[i + 1].type = "tool_result" /\ w[i + 1].name = w[i].name
  <2>1. i \in 1..n /\ i + 1 \in 1..n /\ w[i + 1].type = "tool_result" /\ w[i + 1].name = w[i].name
    BY <1>0 DEF CallPlaces, Answered
  <2>2. i + 1 \in 1..n + 2
    BY <1>1, <2>1
  <2> QED
    BY <1>2, <2>1, <2>2
<1>7. n + 1 + 1 = n + 2 /\ n + 2 \in 1..n + 2
  BY <1>1
<1>8. Answered(v)
  <2>1. ASSUME NEW i \in CallPlaces(v)
        PROVE  i + 1 \in 1..Len(v) /\ v[i + 1].type = "tool_result" /\ v[i + 1].name = v[i].name
    <3>1. CASE i = n + 1
      BY <1>2, <1>k, <1>7, <3>1
    <3>2. CASE i \in CallPlaces(w)
      BY <1>2, <1>6, <3>2
    <3> QED
      BY <1>5, <3>1, <3>2
  <2> QED
    BY <2>1 DEF Answered
<1>9. ASSUME NEW p PROVE Cardinality(Same(v, p)) = Cardinality(SameIn(a, p))
  <2> DEFINE S == Same(w, p)
             D == SameIn(d, p)
  <2>1. PairOf(c) = [call |-> v[n + 1], out |-> v[n + 1 + 1].out]
    BY <1>2, <1>k, <1>7, PairIs
  <2>2. Same(v, p) = IF PairOf(c) = p THEN S \cup {n + 1} ELSE S
    BY <1>5, <1>6, <2>1 DEF Same
  <2>3. SameIn(a, p) = IF PairOf(c) = p THEN D \cup {m + 1} ELSE D
    <3>1. 1..m + 1 = (1..m) \cup {m + 1}
      BY <1>1
    <3> QED
      BY <1>1, <3>1 DEF SameIn
  <2>4. n + 1 \notin S /\ m + 1 \notin D /\ IsFiniteSet(S) /\ IsFiniteSet(D)
    <3>1. S \subseteq 1..n /\ D \subseteq 1..m
      BY DEF Same, CallPlaces, SameIn
    <3>2. IsFiniteSet(1..n) /\ IsFiniteSet(1..m)
      BY <1>1, FS_Interval
    <3> HIDE DEF S, D
    <3>3. S \in SUBSET (1..n) /\ D \in SUBSET (1..m)
      BY <3>1
    <3>4. IsFiniteSet(S) /\ IsFiniteSet(D)
      BY <3>2, <3>3, FS_Subset
    <3>5. n + 1 \notin 1..n /\ m + 1 \notin 1..m
      BY <1>1
    <3> QED
      BY <3>1, <3>4, <3>5
  <2>5. Cardinality(S) = Cardinality(D)
    BY DEF Tells
  <2> HIDE DEF S, D
  <2>6. Cardinality(S \cup {n + 1}) = Cardinality(S) + 1 /\ Cardinality(D \cup {m + 1}) = Cardinality(D) + 1
    BY <2>4, FS_AddElement
  <2> QED
    BY <2>2, <2>3, <2>5, <2>6
<1>10. Tells(v, a)
  BY <1>1, <1>2, <1>4, <1>8, <1>9 DEF Tells, t
<1> QED
  BY <1>10 DEF v, u, a

\* The calls of a turn, behind what is told already.
LEMMA CallsTell ==
    \A cs \in Seq(Deeds) : \A w, d : Tells(w, d) => Tells(w \o FlatCalls(cs), d \o cs)
<1> DEFINE S == {cs \in Seq(Deeds) : \A w, d : Tells(w, d) => Tells(w \o FlatCalls(cs), d \o cs)}
<1>1. <<>> \in S
  <2>1. ASSUME NEW w, NEW d, Tells(w, d) PROVE Tells(w \o FlatCalls(<<>>), d \o <<>>)
    <3>1. w \in Seq(Emitted) /\ d \in Seq(Deeds)
      BY <2>1 DEF Tells
    <3>2. w \o <<>> = w /\ d \o <<>> = d
      BY <3>1
    <3> QED
      BY <2>1, <3>2, FlatCallsOfOneMore
  <2>2. <<>> \in Seq(Deeds)
    OBVIOUS
  <2> QED
    BY <2>1, <2>2
<1>2. ASSUME NEW cs \in Seq(Deeds), NEW c \in Deeds, cs \in S PROVE Append(cs, c) \in S
  <2>1. ASSUME NEW w, NEW d, Tells(w, d) PROVE Tells(w \o FlatCalls(Append(cs, c)), d \o Append(cs, c))
    <3> DEFINE f == FlatCalls(cs)
               x == CallOf(c)
               y == ResultOf(c)
    <3>1. w \in Seq(Emitted) /\ d \in Seq(Deeds) /\ f \in Seq(Emitted) /\ x \in Emitted /\ y \in Emitted
      BY <2>1, FlatCallsOfOneMore DEF Tells, Emitted
    <3>2. FlatCalls(Append(cs, c)) = f \o <<x, y>>
      BY FlatCallsOfOneMore
    <3>3. Tells(w \o f, d \o cs)
      BY <1>2, <2>1
    <3>4. Tells(Append(Append(w \o f, x), y), Append(d \o cs, c))
      BY <3>3, CallTells
    <3> HIDE DEF f, x, y
    <3>5. w \o (f \o <<x, y>>) = Append(Append(w \o f, x), y)
      BY <3>1, TwoMore
    <3>6. d \o Append(cs, c) = Append(d \o cs, c)
      BY <3>1, TwoMore
    <3> QED
      BY <3>2, <3>4, <3>5, <3>6
  <2>2. Append(cs, c) \in Seq(Deeds)
    OBVIOUS
  <2> QED
    BY <2>1, <2>2
<1> HIDE DEF S
<1>3. \A cs \in Seq(Deeds) : cs \in S
  BY <1>1, <1>2, Sg!SeqSteps
<1> QED
  BY <1>3 DEF S

\* Behind a turn's opening, and behind the turn.
LEMMA TurnTells ==
    ASSUME NEW w, NEW d, Tells(w, d), NEW turn \in Turns
    PROVE  Tells(w \o Opening(turn), d) /\ Tells(w \o Work(turn), d \o turn.calls)
<1> DEFINE o == Opening(turn)
           k == Closing(turn)
           r == Response(Len(turn.calls))
<1>0. w \in Seq(Emitted) /\ d \in Seq(Deeds) /\ turn.calls \in Seq(Deeds) /\ turn.passed \in Nat
      /\ o = <<Started, r>> /\ Started \in Emitted /\ r \in Emitted /\ o \in Seq(Emitted) /\ k \in Seq(Emitted)
      /\ Verifies \in Emitted /\ Verified(turn.passed) \in Emitted
  BY TurnTypes, TurnEvents, WhatIsEmitted DEF Tells
<1>1. Started.type # "tool_call" /\ r.type # "tool_call" /\ Verifies.type # "tool_call" /\ Verified(turn.passed).type # "tool_call"
  BY KindsDiffer
<1>2. Tells(Append(Append(w, Started), r), d)
  <2>1. Tells(Append(w, Started), d)
    BY <1>0, <1>1, QuietTells
  <2> HIDE DEF r
  <2> QED
    BY <1>0, <1>1, <2>1, QuietTells
<1>3. w \o o = Append(Append(w, Started), r)
  <2> HIDE DEF r, o
  <2> QED
    BY <1>0, TwoMore
<1>4. Tells(w \o o, d)
  BY <1>2, <1>3
<1>5. w \o Work(turn) = (w \o o) \o k
  <2> HIDE DEF o, k
  <2>1. w \o (o \o k) = (w \o o) \o k
    BY <1>0, InARow
  <2> QED
    BY <2>1 DEF Work, o, k
<1>6. CASE turn.calls = <<>>
  <2>1. k = <<Verifies, Verified(turn.passed)>>
    BY <1>6, TurnEvents
  <2> DEFINE u == w \o o
             z == Verified(turn.passed)
  <2>2. u \in Seq(Emitted) /\ Tells(u, d) /\ z \in Emitted /\ z.type # "tool_call"
    BY <1>0, <1>1, <1>4 DEF Tells
  <2> HIDE DEF u, z
  <2>3. Tells(Append(u, Verifies), d)
    BY <1>0, <1>1, <2>2, QuietTells
  <2>4. Tells(Append(Append(u, Verifies), z), d)
    BY <2>2, <2>3, QuietTells
  <2>5. u \o <<Verifies, z>> = Append(Append(u, Verifies), z)
    BY <1>0, <2>2, TwoMore
  <2>6. d \o turn.calls = d
    BY <1>0, <1>6
  <2>7. Tells(u \o k, d \o turn.calls)
    BY <2>1, <2>4, <2>5, <2>6 DEF z
  <2> QED
    BY <1>4, <1>5, <2>7 DEF u
<1>7. CASE turn.calls # <<>>
  <2>1. k = FlatCalls(turn.calls)
    BY <1>7, TurnEvents
  <2>2. Tells((w \o o) \o FlatCalls(turn.calls), d \o turn.calls)
    BY <1>0, <1>4, CallsTell
  <2> QED
    BY <1>4, <1>5, <2>1, <2>2
<1> QED
  BY <1>6, <1>7

LEMMA TrailTells == \A h \in Seq(Turns) : Tells(Trail(h), DoneAll(h))
<1> DEFINE S == {h \in Seq(Turns) : Tells(Trail(h), DoneAll(h))}
<1>1. <<>> \in S
  <2>1. <<>> \in Seq(Turns)
    OBVIOUS
  <2> QED
    BY <2>1, NothingTells, TrailOfOneMore, DoneAllOfOneMore
<1>2. ASSUME NEW h \in Seq(Turns), NEW t \in Turns, h \in S PROVE Append(h, t) \in S
  <2>1. Tells(Trail(h), DoneAll(h))
    BY <1>2
  <2>2. Tells(Trail(h) \o Work(t), DoneAll(h) \o t.calls)
    BY <2>1, TurnTells
  <2>3. Append(h, t) \in Seq(Turns)
    OBVIOUS
  <2> QED
    BY <2>2, <2>3, TrailOfOneMore, DoneAllOfOneMore
<1> HIDE DEF S
<1>3. \A h \in Seq(Turns) : h \in S
  BY <1>1, <1>2, Sg!SeqSteps
<1> QED
  BY <1>3 DEF S

\* c turns at the end of h talk, and no more than m do in a row.
TalkIs(c, m, h) ==
    /\ c \in 0..Len(h) /\ m \in Nat /\ c <= m
    /\ \A j \in Len(h) - c + 1..Len(h) : Talks(h[j])
    /\ c = Len(h) \/ ~Talks(h[Len(h) - c])
    /\ m = 0 \/ \E i \in m..Len(h) : \A j \in i - m + 1..i : Talks(h[j])
    /\ \A k \in Nat \ {0} : \A i \in k..Len(h) : (\A j \in i - k + 1..i : Talks(h[j])) => k <= m

LEMMA NobodyTalked == TalkIs(0, 0, <<>>)
<1>1. Len(<<>>) = 0
  OBVIOUS
<1> QED
  BY <1>1 DEF TalkIs

\* The row behind a response.
RowOn(turn, c, m, d, b) == d = (IF Talks(turn) THEN c + 1 ELSE 0) /\ b = (IF d > m THEN d ELSE m)

LEMMA TalkGoesOn ==
    ASSUME NEW h \in Seq(Turns), NEW turn \in Turns, NEW c, NEW m, TalkIs(c, m, h),
           NEW d, NEW b, RowOn(turn, c, m, d, b)
    PROVE  TalkIs(d, b, Append(h, turn))
<1> DEFINE g == Append(h, turn)
           n == Len(h)
<1>1. n \in Nat /\ Len(g) = n + 1 /\ g[n + 1] = turn /\ \A i \in 1..n : g[i] = h[i]
  OBVIOUS
<1>2. /\ c \in 0..n /\ m \in Nat /\ c <= m
      /\ \A j \in n - c + 1..n : Talks(h[j])
      /\ c = n \/ ~Talks(h[n - c])
      /\ m = 0 \/ \E i \in m..n : \A j \in i - m + 1..i : Talks(h[j])
      /\ \A k \in Nat \ {0} : \A i \in k..n : (\A j \in i - k + 1..i : Talks(h[j])) => k <= m
  BY DEF TalkIs
<1> DEFINE T(i) == Talks(h[i])
           U(i) == Talks(g[i])
<1>3. (\A i \in 1..n : U(i) <=> T(i)) /\ (U(n + 1) <=> Talks(turn))
  BY <1>1
<1> HIDE DEF n, g
<1>4. /\ \A j \in n - c + 1..n : T(j)
      /\ c = n \/ ~T(n - c)
      /\ m = 0 \/ \E i \in m..n : \A j \in i - m + 1..i : T(j)
      /\ \A k \in Nat \ {0} : \A i \in k..n : (\A j \in i - k + 1..i : T(j)) => k <= m
  BY <1>2
<1> HIDE DEF T, U
<1>5. c \in Nat /\ c <= n /\ m \in Nat /\ c <= m /\ n \in Nat
  BY <1>1, <1>2
<1>r. d = (IF Talks(turn) THEN c + 1 ELSE 0) /\ b = (IF d > m THEN d ELSE m)
  BY DEF RowOn
<1>6. d \in 0..n + 1 /\ b \in Nat /\ d <= b /\ m <= b
  BY <1>5, <1>r
<1>7. ASSUME NEW j \in n + 1 - d + 1..n + 1 PROVE U(j)
  <2>1. Talks(turn) /\ d = c + 1
    BY <1>5, <1>7, <1>r
  <2>2. j = n + 1 \/ (j \in n - c + 1..n /\ j \in 1..n)
    BY <1>5, <2>1
  <2> QED
    BY <1>3, <1>4, <2>1, <2>2
<1>8. d = n + 1 \/ ~U(n + 1 - d)
  <2>1. CASE Talks(turn)
    <3>1. d = c + 1 /\ n + 1 - d = n - c
      BY <1>5, <1>r, <2>1
    <3>2. c = n \/ n - c \in 1..n
      BY <1>5
    <3> QED
      BY <1>3, <1>4, <3>1, <3>2
  <2>2. CASE ~Talks(turn)
    <3>1. n + 1 - d = n + 1
      BY <1>5, <1>r, <2>2
    <3> QED
      BY <1>3, <2>2, <3>1
  <2> QED
    BY <2>1, <2>2
<1>9. b = 0 \/ \E i \in b..n + 1 : \A j \in i - b + 1..i : U(j)
  <2>1. CASE d > m
    <3>1. b = d /\ n + 1 \in b..n + 1
      BY <1>5, <1>6, <1>r, <2>1
    <3>2. \A j \in n + 1 - b + 1..n + 1 : U(j)
      BY <1>7, <3>1
    <3>3. \E i \in b..n + 1 : \A j \in i - b + 1..i : U(j)
      <4>1. \A j \in (n + 1) - b + 1..n + 1 : U(j)
        BY <1>5, <1>6, <3>2
      <4> QED
        BY <3>1, <4>1
    <3> QED
      BY <3>3
  <2>2. CASE ~(d > m) /\ m # 0
    <3>1. PICK i \in m..n : \A j \in i - m + 1..i : T(j)
      BY <1>4, <2>2
    <3>2. b = m /\ i \in b..n + 1 /\ \A j \in i - b + 1..i : j \in 1..n /\ j \in i - m + 1..i
      BY <1>5, <1>r, <2>2
    <3>3. \A j \in i - b + 1..i : U(j)
      BY <1>3, <3>1, <3>2
    <3> QED
      BY <3>2, <3>3
  <2>3. CASE ~(d > m) /\ m = 0
    BY <1>r, <2>3
  <2> QED
    BY <2>1, <2>2, <2>3
<1>10. ASSUME NEW k \in Nat \ {0}, NEW i \in k..n + 1, \A j \in i - k + 1..i : U(j) PROVE k <= b
  <2>1. CASE i \in k..n
    <3>1. \A j \in i - k + 1..i : j \in 1..n
      BY <1>5, <2>1
    <3>2. \A j \in i - k + 1..i : T(j)
      BY <1>3, <1>10, <3>1
    <3>3. k <= m
      BY <1>4, <2>1, <3>2
    <3> QED
      BY <1>6, <1>5, <3>3
  <2>2. CASE i \notin k..n
    <3>1. i = n + 1 /\ n + 1 \in i - k + 1..i /\ k <= n + 1
      BY <1>5, <2>2
    <3>2. Talks(turn)
      BY <1>3, <1>10, <3>1
    <3>3. d = c + 1
      BY <1>r, <3>2
    <3>4. k <= c + 1
      <4> SUFFICES ASSUME k > c + 1 PROVE FALSE
        BY <1>5
      <4>1. n - c \in i - k + 1..i /\ n - c \in 1..n /\ c # n
        BY <1>5, <3>1
      <4>2. U(n - c) /\ ~T(n - c)
        BY <1>4, <1>10, <4>1
      <4> QED
        BY <1>3, <4>1, <4>2
    <3> QED
      BY <1>5, <1>6, <3>3, <3>4
  <2> QED
    BY <2>1, <2>2
<1>11. /\ d \in 0..Len(g) /\ b \in Nat /\ d <= b
       /\ \A j \in Len(g) - d + 1..Len(g) : Talks(g[j])
       /\ d = Len(g) \/ ~Talks(g[Len(g) - d])
       /\ b = 0 \/ \E i \in b..Len(g) : \A j \in i - b + 1..i : Talks(g[j])
       /\ \A k \in Nat \ {0} : \A i \in k..Len(g) : (\A j \in i - k + 1..i : Talks(g[j])) => k <= b
  BY <1>1, <1>6, <1>7, <1>8, <1>9, <1>10 DEF U
<1>12. TalkIs(d, b, g)
  BY <1>11 DEF TalkIs
<1> QED
  BY <1>12 DEF g

LEMMA TalkIsRead ==
    ASSUME NEW h \in Seq(Turns), NEW c, NEW m, TalkIs(c, m, h)
    PROVE  m >= TalkLimit <=> TalkedOnly(h)
<1> DEFINE n == Len(h)
           L == TalkLimit
           T(i) == Talks(h[i])
<1>1. n \in Nat /\ L \in Nat \ {0}
  BY StuckAssumption
<1>2. /\ m \in Nat
      /\ m = 0 \/ \E i \in m..n : \A j \in i - m + 1..i : T(j)
      /\ \A k \in Nat \ {0} : \A i \in k..n : (\A j \in i - k + 1..i : T(j)) => k <= m
  BY DEF TalkIs
<1>3. TalkedOnly(h) <=> \E i \in L..n : \A j \in i - L + 1..i : T(j)
  BY DEF TalkedOnly
<1> HIDE DEF n, L, T
<1>4. ASSUME m >= L PROVE \E i \in L..n : \A j \in i - L + 1..i : T(j)
  <2>1. m # 0
    BY <1>1, <1>2, <1>4
  <2>2. PICK i \in m..n : \A j \in i - m + 1..i : T(j)
    BY <1>2, <2>1
  <2>3. i \in L..n /\ \A j \in i - L + 1..i : j \in i - m + 1..i
    BY <1>1, <1>2, <1>4
  <2> QED
    BY <2>2, <2>3
<1>5. ASSUME NEW i \in L..n, \A j \in i - L + 1..i : T(j) PROVE m >= L
  <2>1. L <= m
    BY <1>1, <1>2, <1>5
  <2> QED
    BY <1>1, <1>2, <2>1
<1> QED
  BY <1>3, <1>4, <1>5 DEF L

-----------------------------------------------------------------------------
\* The row of responses without calls, of the events of whole turns.
RowIs(w, h) == w \in Seq(Emitted) /\ h \in Seq(Turns) /\ TalkIs(Row(w).cur, Row(w).max, h)

\* What an event more does to the row.
LEMMA RowOfOneMore ==
    ASSUME NEW w \in Seq(Emitted), NEW e \in Emitted
    PROVE  /\ Row(w).cur \in Nat /\ Row(w).max \in Nat /\ Row(w).cur <= Row(w).max
           /\ e.type \notin {"provider_response", "tool_result"} =>
                Row(Append(w, e)).cur = Row(w).cur /\ Row(Append(w, e)).max = Row(w).max
           /\ e.type = "tool_result" => Row(Append(w, e)).cur = 0 /\ Row(Append(w, e)).max = Row(w).max
           /\ \A n \in Nat : e = Response(n) =>
                /\ Row(Append(w, e)).cur = IF n = 0 THEN Row(w).cur + 1 ELSE 0
                /\ Row(Append(w, e)).max = IF Row(Append(w, e)).cur > Row(w).max THEN Row(Append(w, e)).cur ELSE Row(w).max
<1> DEFINE r == Row(w)
           q == Row(Append(w, e))
<1>1. r \in Rows /\ r.cur <= r.max /\ q = TalkOn(r, e)
  BY WalkTypes, OneEventMore DEF WalksTyped
<1> HIDE DEF r, q
<1>2. /\ q.max = IF q.cur > r.max THEN q.cur ELSE r.max
      /\ e = Response(0) => q.cur = r.cur + 1
      /\ \A n \in Nat \ {0} : e = Response(n) => q.cur = 0
      /\ e.type = "tool_result" => q.cur = 0
      /\ e.type \notin {"provider_response", "tool_result"} => q.cur = r.cur
  BY <1>1, TalkOnType
<1>3. r.cur \in Nat /\ r.max \in Nat
  BY <1>1 DEF Rows
<1>4. e.type \notin {"provider_response", "tool_result"} => q.cur = r.cur /\ q.max = r.max
  <2>1. q.cur = r.cur => q.max = r.max
    BY <1>1, <1>2, <1>3
  <2> QED
    BY <1>2, <2>1
<1>5. e.type = "tool_result" => q.cur = 0 /\ q.max = r.max
  <2>1. q.cur = 0 => q.max = r.max
    BY <1>1, <1>2, <1>3
  <2> QED
    BY <1>2, <2>1
<1>6. ASSUME NEW n \in Nat, e = Response(n) PROVE q.cur = IF n = 0 THEN r.cur + 1 ELSE 0
  BY <1>2, <1>6
<1> QED
  BY <1>1, <1>2, <1>3, <1>4, <1>5, <1>6 DEF r, q

LEMMA CallsEndTheTalk ==
    \A cs \in Seq(Deeds) : \A w \in Seq(Emitted) : Row(w).cur = 0 =>
        Row(w \o FlatCalls(cs)).cur = 0 /\ Row(w \o FlatCalls(cs)).max = Row(w).max
<1> DEFINE P(cs) == \A w \in Seq(Emitted) : Row(w).cur = 0 =>
                      Row(w \o FlatCalls(cs)).cur = 0 /\ Row(w \o FlatCalls(cs)).max = Row(w).max
           S == {cs \in Seq(Deeds) : P(cs)}
<1>1. <<>> \in S
  <2>1. \A w \in Seq(Emitted) : w \o FlatCalls(<<>>) = w
    BY FlatCallsOfOneMore
  <2>2. <<>> \in Seq(Deeds)
    OBVIOUS
  <2> QED
    BY <2>1, <2>2
<1>2. ASSUME NEW cs \in Seq(Deeds), NEW c \in Deeds, cs \in S PROVE Append(cs, c) \in S
  <2>1. ASSUME NEW w \in Seq(Emitted), Row(w).cur = 0
        PROVE  Row(w \o FlatCalls(Append(cs, c))).cur = 0 /\ Row(w \o FlatCalls(Append(cs, c))).max = Row(w).max
    <3> DEFINE f == FlatCalls(cs)
               x == CallOf(c)
               y == ResultOf(c)
               v == w \o f
    <3>1. f \in Seq(Emitted) /\ x \in Emitted /\ y \in Emitted
          /\ FlatCalls(Append(cs, c)) = f \o <<x, y>>
      BY FlatCallsOfOneMore DEF Emitted
    <3>2. Row(v).cur = 0 /\ Row(v).max = Row(w).max
      BY <1>2, <2>1
    <3>3. x.type = "tool_call" /\ y.type = "tool_result"
      BY KindsDiffer
    <3> HIDE DEF f, x, y
    <3>4. v \in Seq(Emitted)
      BY <3>1
    <3>5. w \o (f \o <<x, y>>) = Append(Append(v, x), y)
      <4>1. w \in Seq(Emitted) /\ f \in Seq(Emitted) /\ x \in Emitted /\ y \in Emitted
        BY <3>1
      <4>2. w \o (f \o <<x, y>>) = Append(Append(w \o f, x), y)
        BY <4>1, TwoMore, SMTT(30)
      <4> QED
        BY <4>2
    <3> HIDE DEF v
    <3>6. Append(v, x) \in Seq(Emitted)
      BY <3>1, <3>4
    <3>7. Row(Append(v, x)).cur = 0 /\ Row(Append(v, x)).max = Row(w).max
      BY <3>1, <3>2, <3>3, <3>4, RowOfOneMore
    <3> DEFINE u == Append(v, x)
    <3> HIDE DEF u
    <3>8. u \in Seq(Emitted) /\ Row(u).max = Row(w).max
      BY <3>6, <3>7 DEF u
    <3>9. Row(Append(u, y)).cur = 0 /\ Row(Append(u, y)).max = Row(u).max
      BY <3>1, <3>3, <3>8, RowOfOneMore
    <3> QED
      BY <3>1, <3>5, <3>8, <3>9 DEF u
  <2>2. Append(cs, c) \in Seq(Deeds)
    OBVIOUS
  <2> QED
    BY <2>1, <2>2
<1> HIDE DEF S
<1>3. \A cs \in Seq(Deeds) : cs \in S
  BY <1>1, <1>2, Sg!SeqSteps
<1> QED
  BY <1>3 DEF S

LEMMA TurnTalks ==
    ASSUME NEW w, NEW h, RowIs(w, h), NEW turn \in Turns
    PROVE  RowIs(w \o Opening(turn), Append(h, turn)) /\ RowIs(w \o Work(turn), Append(h, turn))
<1> DEFINE o == Opening(turn)
           k == Closing(turn)
           l == Len(turn.calls)
           r == Response(l)
           s == Append(w, Started)
           u == Append(s, r)
           g == Append(h, turn)
<1>0. w \in Seq(Emitted) /\ h \in Seq(Turns) /\ TalkIs(Row(w).cur, Row(w).max, h)
  BY DEF RowIs
<1>1. turn.calls \in Seq(Deeds) /\ l \in Nat /\ turn.passed \in Nat /\ o = <<Started, r>> /\ Started \in Emitted /\ r \in Emitted
      /\ o \in Seq(Emitted) /\ k \in Seq(Emitted) /\ Verifies \in Emitted /\ Verified(turn.passed) \in Emitted
      /\ (Talks(turn) <=> turn.calls = <<>>)
  BY TurnTypes, TurnEvents, WhatIsEmitted
<1>2. Started.type = "iteration_start" /\ Verifies.type = "verify_run" /\ Verified(turn.passed).type = "verify_result"
  BY KindsDiffer
<1>t. (Talks(turn) <=> l = 0)
  BY <1>1, EmptySeq
<1>3. s \in Seq(Emitted) /\ g \in Seq(Turns)
  BY <1>0, <1>1
<1>4. Row(s).cur = Row(w).cur /\ Row(s).max = Row(w).max
  BY <1>0, <1>1, <1>2, RowOfOneMore
<1>5. u \in Seq(Emitted)
  <2> HIDE DEF s, r
  <2> QED
    BY <1>1, <1>3
<1>6. /\ Row(u).cur = (IF Talks(turn) THEN Row(w).cur + 1 ELSE 0)
      /\ Row(u).max = (IF Row(u).cur > Row(w).max THEN Row(u).cur ELSE Row(w).max)
  <2> HIDE DEF s, l
  <2>1. /\ Row(u).cur = IF l = 0 THEN Row(s).cur + 1 ELSE 0
        /\ Row(u).max = IF Row(u).cur > Row(s).max THEN Row(u).cur ELSE Row(s).max
    BY <1>1, <1>3, RowOfOneMore
  <2> QED
    BY <1>t, <1>4, <2>1
<1>7. w \o o = u
  <2> HIDE DEF r, o
  <2> QED
    BY <1>0, <1>1, TwoMore DEF s
<1> HIDE DEF u, s, r
<1>8. TalkIs(Row(u).cur, Row(u).max, g)
  <2>1. RowOn(turn, Row(w).cur, Row(w).max, Row(u).cur, Row(u).max)
    BY <1>6 DEF RowOn
  <2> HIDE DEF g
  <2> QED
    BY <1>0, <2>1, TalkGoesOn DEF g
<1>9. w \o Work(turn) = u \o k
  <2> HIDE DEF o, k
  <2>1. w \o (o \o k) = (w \o o) \o k
    <3>1. w \in Seq(Emitted) /\ o \in Seq(Emitted) /\ k \in Seq(Emitted)
      BY <1>0, <1>1
    <3> QED
      BY <3>1, InARow
  <2> QED
    BY <1>7, <2>1 DEF Work, o, k
<1>10. Row(u \o k).cur = Row(u).cur /\ Row(u \o k).max = Row(u).max
  <2>1. CASE Talks(turn)
    <3> DEFINE z == Verified(turn.passed)
               v == Append(u, Verifies)
    <3>1. k = <<Verifies, z>> /\ z \in Emitted /\ z.type = "verify_result"
      BY <1>1, <1>2, <2>1, TurnEvents
    <3> HIDE DEF z
    <3>2. v \in Seq(Emitted) /\ Row(v).cur = Row(u).cur /\ Row(v).max = Row(u).max
      BY <1>1, <1>2, <1>5, RowOfOneMore
    <3>3. u \o <<Verifies, z>> = Append(v, z)
      BY <1>1, <1>5, <3>1, TwoMore
    <3> HIDE DEF v
    <3>4. Row(Append(v, z)).cur = Row(v).cur /\ Row(Append(v, z)).max = Row(v).max
      BY <3>1, <3>2, RowOfOneMore
    <3> QED
      BY <3>1, <3>2, <3>3, <3>4
  <2>2. CASE ~Talks(turn)
    <3>1. k = FlatCalls(turn.calls) /\ Row(u).cur = 0
      BY <1>6, <2>2, TurnEvents
    <3> QED
      BY <1>1, <1>5, <3>1, CallsEndTheTalk
  <2> QED
    BY <2>1, <2>2
<1>11. u \o k \in Seq(Emitted)
  BY <1>1, <1>5
<1>12. RowIs(u, g) /\ RowIs(u \o k, g)
  BY <1>3, <1>5, <1>8, <1>10, <1>11 DEF RowIs
<1> QED
  BY <1>7, <1>9, <1>12

LEMMA TrailTalks == \A h \in Seq(Turns) : RowIs(Trail(h), h)
<1> DEFINE S == {h \in Seq(Turns) : RowIs(Trail(h), h)}
<1>1. <<>> \in S
  <2>1. <<>> \in Seq(Turns) /\ <<>> \in Seq(Emitted)
    OBVIOUS
  <2>2. Row(<<>>).cur = 0 /\ Row(<<>>).max = 0
    BY NoEvents
  <2> QED
    BY <2>1, <2>2, NobodyTalked, TrailOfOneMore DEF RowIs
<1>2. ASSUME NEW h \in Seq(Turns), NEW t \in Turns, h \in S PROVE Append(h, t) \in S
  <2>1. RowIs(Trail(h), h)
    BY <1>2
  <2>2. RowIs(Trail(h) \o Work(t), Append(h, t))
    BY <2>1, TurnTalks
  <2>3. Append(h, t) \in Seq(Turns)
    OBVIOUS
  <2> QED
    BY <2>2, <2>3, TrailOfOneMore
<1> HIDE DEF S
<1>3. \A h \in Seq(Turns) : h \in S
  BY <1>1, <1>2, Sg!SeqSteps
<1> QED
  BY <1>3 DEF S

\* The stats of the turns before, and of the iteration that is going on.
Stat(v, k, s) == [verified |-> v, passing |-> k, events |-> s]
StatOf(turn) ==
    Stat(Talks(turn), IF Talks(turn) THEN turn.passed ELSE 0, <<Response(Len(turn.calls))>> \o Closing(turn))
OpenStat(turn) == Stat(FALSE, 0, <<Response(Len(turn.calls))>>)

GatherIs(w, h) ==
    /\ w \in Seq(Emitted) /\ h \in Seq(Turns)
    /\ Len(Gather(w)) = Len(h) /\ \A i \in 1..Len(h) : Gather(w)[i] = StatOf(h[i])
LastIs(w, h, stat) ==
    /\ w \in Seq(Emitted) /\ h \in Seq(Turns)
    /\ Len(Gather(w)) = Len(h) + 1 /\ Gather(w)[Len(h) + 1] = stat
    /\ \A i \in 1..Len(h) : Gather(w)[i] = StatOf(h[i])

LEMMA WithEventIs ==
    ASSUME NEW v \in BOOLEAN, NEW k \in Nat, NEW s \in Seq(Emitted), NEW e \in Emitted
    PROVE  /\ e.type \notin {"verify_run", "verify_result"} => WithEvent(Stat(v, k, s), e) = Stat(v, k, Append(s, e))
           /\ e = Verifies => WithEvent(Stat(v, k, s), e) = Stat(TRUE, k, Append(s, e))
           /\ \A n \in Nat : e = Verified(n) => WithEvent(Stat(v, k, s), e) = Stat(v, k + n, Append(s, e))
<1> DEFINE a == v \/ e.type = "verify_run"
           b == IF e.type = "verify_result" THEN e.passed ELSE 0
           z == Append(s, e)
<1>1. WithEvent(Stat(v, k, s), e) = Stat(a, k + b, z)
  BY DEF WithEvent, Stat
<1>2. ASSUME e.type \notin {"verify_run", "verify_result"} PROVE a = v /\ k + b = k
  BY <1>2
<1>3. ASSUME e = Verifies PROVE a = TRUE /\ k + b = k
  BY <1>3, KindsDiffer
<1>4. ASSUME NEW n \in Nat, e = Verified(n) PROVE a = v /\ k + b = k + n
  <2>1. e.type = "verify_result" /\ e.passed = n
    BY <1>4, KindsDiffer
  <2> QED
    BY <2>1
<1> HIDE DEF a, b, z
<1>5. e.type \notin {"verify_run", "verify_result"} => WithEvent(Stat(v, k, s), e) = Stat(v, k, z)
  BY <1>1, <1>2
<1>6. e = Verifies => WithEvent(Stat(v, k, s), e) = Stat(TRUE, k, z)
  BY <1>1, <1>3
<1>7. \A n \in Nat : e = Verified(n) => WithEvent(Stat(v, k, s), e) = Stat(v, k + n, z)
  BY <1>1, <1>4
<1> QED
  BY <1>5, <1>6, <1>7 DEF z

LEMMA StatStarts ==
    ASSUME NEW w, NEW h, GatherIs(w, h)
    PROVE  LastIs(Append(w, Started), h, Stat(FALSE, 0, <<>>))
<1> DEFINE g == Gather(w)
           u == Append(w, Started)
           q == Gather(u)
           n == Len(h)
<1>1. w \in Seq(Emitted) /\ h \in Seq(Turns) /\ Started \in Emitted /\ n \in Nat
      /\ Len(g) = n /\ \A i \in 1..n : g[i] = StatOf(h[i])
  BY DEF GatherIs, Emitted
<1>2. g \in Seq(SomeStats) /\ NewStat \in SomeStats /\ NewStat = Stat(FALSE, 0, <<>>)
  BY <1>1, WalkTypes, NewStatType DEF WalksTyped, NewStat, Stat
<1>3. q = Append(g, NewStat)
  <2>1. q = GatherOn(g, Started)
    BY <1>1, OneEventMore
  <2> HIDE DEF g, q
  <2> QED
    BY <1>1, <1>2, <2>1, GatherOnDoes
<1>4. u \in Seq(Emitted)
  BY <1>1
<1> HIDE DEF g, q, n, u
<1>5. Len(q) = n + 1 /\ q[n + 1] = NewStat /\ \A i \in 1..n : q[i] = g[i]
  <2>1. Len(q) = Len(g) + 1 /\ q[Len(g) + 1] = NewStat /\ \A i \in 1..Len(g) : q[i] = g[i]
    <3>1. g \in Seq(SomeStats) /\ NewStat \in SomeStats
      BY <1>2
    <3>2. Len(Append(g, NewStat)) = Len(g) + 1 /\ Append(g, NewStat)[Len(g) + 1] = NewStat
          /\ \A i \in 1..Len(g) : Append(g, NewStat)[i] = g[i]
      BY <3>1
    <3> QED
      BY <1>3, <3>2
  <2> QED
    BY <1>1, <2>1
<1> QED
  BY <1>1, <1>2, <1>4, <1>5 DEF LastIs, q, n, u

LEMMA StatGoesOn ==
    ASSUME NEW w, NEW h, NEW stat, LastIs(w, h, stat), NEW e \in Emitted, e.type # "iteration_start"
    PROVE  LastIs(Append(w, e), h, WithEvent(stat, e))
<1> DEFINE g == Gather(w)
           u == Append(w, e)
           q == Gather(u)
           n == Len(h)
<1>1. w \in Seq(Emitted) /\ h \in Seq(Turns) /\ n \in Nat
      /\ Len(g) = n + 1 /\ g[n + 1] = stat /\ \A i \in 1..n : g[i] = StatOf(h[i])
  BY DEF LastIs
<1>2. g \in Seq(SomeStats) /\ q = GatherOn(g, e)
  BY <1>1, WalkTypes, OneEventMore DEF WalksTyped
<1>3. e # Started
  BY KindsDiffer
<1>4. u \in Seq(Emitted)
  BY <1>1
<1> HIDE DEF g, q, n, u
<1>5. g # <<>>
  BY <1>1, <1>2, EmptySeq
<1>6. /\ Len(q) = Len(g) /\ q[Len(g)] = WithEvent(g[Len(g)], e)
      /\ \A j \in 1..Len(g) - 1 : q[j] = g[j]
  BY <1>2, <1>3, <1>5, GatherOnDoes
<1>7. Len(g) - 1 = n
  BY <1>1
<1>8. Len(q) = n + 1 /\ q[n + 1] = WithEvent(stat, e) /\ \A i \in 1..n : q[i] = g[i]
  BY <1>1, <1>6, <1>7
<1> QED
  BY <1>1, <1>4, <1>8 DEF LastIs, q, n, u

LEMMA CallsGather ==
    \A cs \in Seq(Deeds) : \A w, h : \A v \in BOOLEAN, k \in Nat, s \in Seq(Emitted) :
        LastIs(w, h, Stat(v, k, s)) => LastIs(w \o FlatCalls(cs), h, Stat(v, k, s \o FlatCalls(cs)))
<1> DEFINE P(cs) == \A w, h : \A v \in BOOLEAN, k \in Nat, s \in Seq(Emitted) :
                      LastIs(w, h, Stat(v, k, s)) => LastIs(w \o FlatCalls(cs), h, Stat(v, k, s \o FlatCalls(cs)))
           S == {cs \in Seq(Deeds) : P(cs)}
<1>1. <<>> \in S
  <2>1. \A w \in Seq(Emitted) : w \o FlatCalls(<<>>) = w
    BY FlatCallsOfOneMore
  <2>2. <<>> \in Seq(Deeds) /\ \A w, h, stat : LastIs(w, h, stat) => w \in Seq(Emitted)
    BY DEF LastIs
  <2> QED
    BY <2>1, <2>2
<1>2. ASSUME NEW cs \in Seq(Deeds), NEW c \in Deeds, cs \in S PROVE Append(cs, c) \in S
  <2>1. ASSUME NEW w, NEW h, NEW v \in BOOLEAN, NEW k \in Nat, NEW s \in Seq(Emitted), LastIs(w, h, Stat(v, k, s))
        PROVE  LastIs(w \o FlatCalls(Append(cs, c)), h, Stat(v, k, s \o FlatCalls(Append(cs, c))))
    <3> DEFINE f == FlatCalls(cs)
               x == CallOf(c)
               y == ResultOf(c)
    <3>1. w \in Seq(Emitted) /\ f \in Seq(Emitted) /\ x \in Emitted /\ y \in Emitted
          /\ FlatCalls(Append(cs, c)) = f \o <<x, y>>
      BY <2>1, FlatCallsOfOneMore DEF Emitted, LastIs
    <3>2. LastIs(w \o f, h, Stat(v, k, s \o f))
      BY <1>2, <2>1
    <3>3. x.type = "tool_call" /\ y.type = "tool_result"
      BY KindsDiffer
    <3> HIDE DEF f, x, y
    <3>4. w \o (f \o <<x, y>>) = Append(Append(w \o f, x), y) /\ s \o (f \o <<x, y>>) = Append(Append(s \o f, x), y)
      <4>1. w \in Seq(Emitted) /\ f \in Seq(Emitted) /\ x \in Emitted /\ y \in Emitted /\ s \in Seq(Emitted)
        BY <3>1
      <4>2. w \o (f \o <<x, y>>) = Append(Append(w \o f, x), y)
        BY <4>1, TwoMore
      <4>3. s \o (f \o <<x, y>>) = Append(Append(s \o f, x), y)
        BY <4>1, TwoMore
      <4> QED
        BY <4>2, <4>3
    <3> DEFINE a == w \o f
               b == s \o f
               bx == Append(b, x)
    <3>5. b \in Seq(Emitted) /\ bx \in Seq(Emitted)
      BY <3>1
    <3> HIDE DEF a, b, bx
    <3>6. LastIs(a, h, Stat(v, k, b))
      BY <3>2 DEF a, b
    <3>7. WithEvent(Stat(v, k, b), x) = Stat(v, k, bx)
      <4>1. x.type \notin {"verify_run", "verify_result"}
        BY <3>3
      <4> QED
        BY <3>1, <3>5, <4>1, WithEventIs DEF bx
    <3>8. LastIs(Append(a, x), h, Stat(v, k, bx))
      <4>1. x.type # "iteration_start"
        BY <3>3
      <4>2. LastIs(Append(a, x), h, WithEvent(Stat(v, k, b), x))
        BY <3>1, <3>6, <4>1, StatGoesOn
      <4> QED
        BY <3>7, <4>2
    <3>9. WithEvent(Stat(v, k, bx), y) = Stat(v, k, Append(bx, y))
      <4>1. y.type \notin {"verify_run", "verify_result"}
        BY <3>3
      <4> QED
        BY <3>1, <3>5, <4>1, WithEventIs
    <3>10. LastIs(Append(Append(a, x), y), h, Stat(v, k, Append(bx, y)))
      <4>1. y.type # "iteration_start"
        BY <3>3
      <4>2. LastIs(Append(Append(a, x), y), h, WithEvent(Stat(v, k, bx), y))
        BY <3>1, <3>8, <4>1, StatGoesOn
      <4> QED
        BY <3>9, <4>2
    <3> QED
      BY <3>1, <3>4, <3>10 DEF a, b, bx
  <2>2. Append(cs, c) \in Seq(Deeds)
    OBVIOUS
  <2> QED
    BY <2>1, <2>2
<1> HIDE DEF S
<1>3. \A cs \in Seq(Deeds) : cs \in S
  BY <1>1, <1>2, Sg!SeqSteps
<1> QED
  BY <1>3 DEF S

LEMMA OneFirst ==
    ASSUME NEW T, NEW x \in T, NEW a \in T, NEW b \in T
    PROVE  /\ Append(<<>>, x) = <<x>> /\ <<x>> \in Seq(T)
           /\ Append(Append(<<x>>, a), b) = <<x>> \o <<a, b>>
<1>1. <<x>> \in Seq(T) /\ Append(<<>>, x) = <<x>>
  OBVIOUS
<1> QED
  BY <1>1, TwoMore

LEMMA TurnGathers ==
    ASSUME NEW w, NEW h, GatherIs(w, h), NEW turn \in Turns
    PROVE  LastIs(w \o Opening(turn), h, OpenStat(turn)) /\ GatherIs(w \o Work(turn), Append(h, turn))
<1> DEFINE o == Opening(turn)
           k == Closing(turn)
           r == Response(Len(turn.calls))
           s == Append(w, Started)
           u == Append(s, r)
           z == Verified(turn.passed)
           g == Append(h, turn)
<1>0. w \in Seq(Emitted) /\ h \in Seq(Turns) /\ g \in Seq(Turns)
  BY DEF GatherIs
<1>1. turn.calls \in Seq(Deeds) /\ turn.passed \in Nat /\ o = <<Started, r>> /\ Started \in Emitted /\ r \in Emitted
      /\ o \in Seq(Emitted) /\ k \in Seq(Emitted) /\ Verifies \in Emitted /\ z \in Emitted
  BY TurnTypes, TurnEvents, WhatIsEmitted
<1>2. r.type = "provider_response" /\ Verifies.type = "verify_run" /\ z.type = "verify_result"
  BY KindsDiffer
<1>3. LastIs(s, h, Stat(FALSE, 0, <<>>))
  BY StatStarts
<1>z. z = Verified(turn.passed)
  OBVIOUS
<1> HIDE DEF s, z
<1>4. LastIs(u, h, Stat(FALSE, 0, <<r>>))
  <2> HIDE DEF r
  <2>1. r.type # "iteration_start" /\ r.type \notin {"verify_run", "verify_result"} /\ <<>> \in Seq(Emitted)
    BY <1>2
  <2>2. LastIs(Append(s, r), h, WithEvent(Stat(FALSE, 0, <<>>), r))
    BY <1>1, <1>3, <2>1, StatGoesOn
  <2>3. WithEvent(Stat(FALSE, 0, <<>>), r) = Stat(FALSE, 0, Append(<<>>, r))
    <3>1. FALSE \in BOOLEAN /\ 0 \in Nat /\ <<>> \in Seq(Emitted) /\ r \in Emitted
      BY <1>1
    <3> QED
      BY <2>1, <3>1, WithEventIs
  <2>4. Append(<<>>, r) = <<r>>
    OBVIOUS
  <2> QED
    BY <2>2, <2>3, <2>4
<1>5. w \o o = u
  <2> HIDE DEF r, o
  <2> QED
    BY <1>0, <1>1, TwoMore DEF s
<1>6. OpenStat(turn) = Stat(FALSE, 0, <<r>>) /\ StatOf(turn) = Stat(Talks(turn), IF Talks(turn) THEN turn.passed ELSE 0, <<r>> \o k)
  BY DEF OpenStat, StatOf
<1> HIDE DEF u
<1>9. w \o Work(turn) = u \o k
  <2> HIDE DEF o, k
  <2>1. w \o (o \o k) = (w \o o) \o k
    <3>1. w \in Seq(Emitted) /\ o \in Seq(Emitted) /\ k \in Seq(Emitted)
      BY <1>0, <1>1
    <3> QED
      BY <3>1, InARow
  <2> QED
    BY <1>5, <2>1 DEF Work, o, k
<1>10. LastIs(u \o k, h, StatOf(turn))
  <2> HIDE DEF r
  <2>0. <<r>> \in Seq(Emitted) /\ u \in Seq(Emitted)
    BY <1>1, <1>4 DEF LastIs
  <2>1. CASE Talks(turn)
    <3> DEFINE v == Append(u, Verifies)
               a == Append(<<r>>, Verifies)
    <3>1. k = <<Verifies, z>>
      BY <1>z, <2>1, TurnEvents
    <3>2. a \in Seq(Emitted) /\ Append(a, z) = <<r>> \o <<Verifies, z>>
      BY <1>1, <2>0, TwoMore
    <3>3. Append(v, z) = u \o <<Verifies, z>>
      BY <1>1, <2>0, TwoMore
    <3>4. LastIs(v, h, Stat(TRUE, 0, a))
      <4>1. Verifies.type # "iteration_start"
        BY <1>2
      <4>2. LastIs(v, h, WithEvent(Stat(FALSE, 0, <<r>>), Verifies))
        BY <1>1, <1>4, <4>1, StatGoesOn
      <4>3. WithEvent(Stat(FALSE, 0, <<r>>), Verifies) = Stat(TRUE, 0, a)
        <5>1. FALSE \in BOOLEAN /\ 0 \in Nat /\ <<r>> \in Seq(Emitted) /\ Verifies \in Emitted
          BY <1>1, <2>0
        <5> QED
          BY <5>1, WithEventIs
      <4> QED
        BY <4>2, <4>3
    <3> HIDE DEF v, a
    <3>5. LastIs(Append(v, z), h, Stat(TRUE, turn.passed, Append(a, z)))
      <4>1. z.type # "iteration_start"
        BY <1>2
      <4>2. LastIs(Append(v, z), h, WithEvent(Stat(TRUE, 0, a), z))
        BY <1>1, <3>4, <4>1, StatGoesOn
      <4>3. WithEvent(Stat(TRUE, 0, a), z) = Stat(TRUE, 0 + turn.passed, Append(a, z))
        <5>1. TRUE \in BOOLEAN /\ 0 \in Nat /\ a \in Seq(Emitted) /\ z \in Emitted /\ turn.passed \in Nat
          BY <1>1, <3>2
        <5> QED
          BY <1>z, <5>1, WithEventIs
      <4>4. 0 + turn.passed = turn.passed
        BY <1>1
      <4> QED
        BY <4>2, <4>3, <4>4
    <3>6. StatOf(turn) = Stat(TRUE, turn.passed, <<r>> \o k)
      <4>1. Talks(turn) = TRUE
        BY <2>1 DEF Talks
      <4> QED
        BY <1>6, <2>1, <4>1
    <3> HIDE DEF k
    <3> QED
      BY <3>1, <3>2, <3>3, <3>5, <3>6
  <2>2. CASE ~Talks(turn)
    <3>1. k = FlatCalls(turn.calls)
      BY <2>2, TurnEvents
    <3>2. LastIs(u \o FlatCalls(turn.calls), h, Stat(FALSE, 0, <<r>> \o FlatCalls(turn.calls)))
      BY <1>1, <1>4, <2>0, CallsGather
    <3>3. Talks(turn) = FALSE
      BY <2>2 DEF Talks
    <3>4. StatOf(turn) = Stat(FALSE, 0, <<r>> \o k)
      BY <1>6, <3>3
    <3> HIDE DEF k
    <3> QED
      BY <3>1, <3>2, <3>4
  <2> QED
    BY <2>1, <2>2
<1>11. GatherIs(u \o k, g)
  <2> DEFINE q == Gather(u \o k)
             n == Len(h)
  <2>1. u \o k \in Seq(Emitted) /\ Len(q) = n + 1 /\ q[n + 1] = StatOf(turn) /\ \A i \in 1..n : q[i] = StatOf(h[i])
    BY <1>10 DEF LastIs
  <2>2. Len(g) = n + 1 /\ g[n + 1] = turn /\ (\A i \in 1..n : g[i] = h[i]) /\ n \in Nat
    BY <1>0
  <2> HIDE DEF q, n, g
  <2>3. \A i \in 1..n + 1 : q[i] = StatOf(g[i])
    <3> SUFFICES ASSUME NEW i \in 1..n + 1 PROVE q[i] = StatOf(g[i])
      OBVIOUS
    <3>1. i = n + 1 \/ i \in 1..n
      BY <2>2
    <3> QED
      BY <2>1, <2>2, <3>1
  <2> QED
    BY <1>0, <2>1, <2>2, <2>3 DEF GatherIs, q
<1> QED
  BY <1>4, <1>5, <1>6, <1>9, <1>11

LEMMA TrailGathers == \A h \in Seq(Turns) : GatherIs(Trail(h), h)
<1> DEFINE S == {h \in Seq(Turns) : GatherIs(Trail(h), h)}
<1>1. <<>> \in S
  <2>1. <<>> \in Seq(Turns) /\ <<>> \in Seq(Emitted) /\ Len(<<>>) = 0
    OBVIOUS
  <2> QED
    <3>1. Trail(<<>>) = <<>> /\ Gather(<<>>) = <<>>
      BY NoEvents, TrailOfOneMore
    <3>2. GatherIs(<<>>, <<>>)
      BY <2>1, <3>1 DEF GatherIs
    <3> QED
      BY <2>1, <3>1, <3>2
<1>2. ASSUME NEW h \in Seq(Turns), NEW t \in Turns, h \in S PROVE Append(h, t) \in S
  <2>1. GatherIs(Trail(h), h)
    BY <1>2
  <2>2. GatherIs(Trail(h) \o Work(t), Append(h, t))
    BY <2>1, TurnGathers
  <2>3. Append(h, t) \in Seq(Turns)
    OBVIOUS
  <2> QED
    BY <2>2, <2>3, TrailOfOneMore
<1> HIDE DEF S
<1>3. \A h \in Seq(Turns) : h \in S
  BY <1>1, <1>2, Sg!SeqSteps
<1> QED
  BY <1>3 DEF S

LEMMA CallsLieInPairs ==
    \A cs \in Seq(Deeds) :
        /\ Len(FlatCalls(cs)) = 2 * Len(cs)
        /\ \A l \in 1..Len(cs) : FlatCalls(cs)[2 * l - 1] = CallOf(cs[l]) /\ FlatCalls(cs)[2 * l] = ResultOf(cs[l])
<1> DEFINE P(cs) ==
             /\ Len(FlatCalls(cs)) = 2 * Len(cs)
             /\ \A l \in 1..Len(cs) : FlatCalls(cs)[2 * l - 1] = CallOf(cs[l]) /\ FlatCalls(cs)[2 * l] = ResultOf(cs[l])
           S == {cs \in Seq(Deeds) : P(cs)}
<1>1. <<>> \in S
  <2>1. FlatCalls(<<>>) = <<>> /\ Len(<<>>) = 0 /\ <<>> \in Seq(Deeds)
    BY FlatCallsOfOneMore
  <2> QED
    BY <2>1
<1>2. ASSUME NEW cs \in Seq(Deeds), NEW c \in Deeds, cs \in S PROVE Append(cs, c) \in S
  <2> DEFINE f == FlatCalls(cs)
             x == CallOf(c)
             y == ResultOf(c)
             d == Append(cs, c)
             n == Len(cs)
             e == FlatCalls(d)
             fx == Append(f, x)
  <2>1. n \in Nat /\ d \in Seq(Deeds) /\ Len(d) = n + 1 /\ d[n + 1] = c /\ \A i \in 1..n : d[i] = cs[i]
    OBVIOUS
  <2>2. f \in Seq(Emitted) /\ x \in Emitted /\ y \in Emitted /\ e = f \o <<x, y>>
    BY FlatCallsOfOneMore DEF Emitted
  <2>3. Len(f) = 2 * n /\ \A l \in 1..n : f[2 * l - 1] = CallOf(cs[l]) /\ f[2 * l] = ResultOf(cs[l])
    BY <1>2
  <2> HIDE DEF f, x, y, d, e, n
  <2>4. e = Append(fx, y)
    BY <2>2, TwoMore
  <2>5. fx \in Seq(Emitted) /\ Len(fx) = Len(f) + 1 /\ fx[Len(f) + 1] = x /\ \A i \in 1..Len(f) : fx[i] = f[i]
    BY <2>2
  <2> HIDE DEF fx
  <2>6. Len(e) = Len(fx) + 1 /\ e[Len(fx) + 1] = y /\ \A i \in 1..Len(fx) : e[i] = fx[i]
    BY <2>2, <2>4, <2>5
  <2>7. Len(e) = 2 * n + 2 /\ e[2 * n + 2] = y /\ e[2 * n + 1] = x /\ \A i \in 1..2 * n : e[i] = f[i]
    <3>1. Len(fx) = 2 * n + 1 /\ Len(fx) + 1 = 2 * n + 2 /\ 2 * n + 1 \in 1..Len(fx) /\ \A i \in 1..2 * n : i \in 1..Len(fx)
      BY <2>1, <2>3, <2>5
    <3> QED
      BY <2>3, <2>5, <2>6, <3>1
  <2>8. Len(e) = 2 * Len(d)
    BY <2>1, <2>7
  <2>9. ASSUME NEW l \in 1..Len(d) PROVE e[2 * l - 1] = CallOf(d[l]) /\ e[2 * l] = ResultOf(d[l])
    <3>1. CASE l = n + 1
      <4>1. 2 * l - 1 = 2 * n + 1 /\ 2 * l = 2 * n + 2
        BY <2>1, <3>1
      <4> QED
        BY <2>1, <2>7, <3>1, <4>1 DEF x, y
    <3>2. CASE l # n + 1
      <4>1. l \in 1..n /\ 2 * l - 1 \in 1..2 * n /\ 2 * l \in 1..2 * n
        BY <2>1, <3>2
      <4> QED
        BY <2>1, <2>3, <2>7, <4>1
    <3> QED
      BY <3>1, <3>2
  <2> QED
    BY <2>1, <2>8, <2>9 DEF e, d
<1> HIDE DEF S
<1>3. \A cs \in Seq(Deeds) : cs \in S
  BY <1>1, <1>2, Sg!SeqSteps
<1> QED
  BY <1>3 DEF S

LEMMA Halves == ASSUME NEW i \in Nat, i # 0 PROVE i = 1 \/ (\E l \in Nat : l >= 1 /\ i = 2 * l) \/ (\E l \in Nat : l >= 1 /\ i = 2 * l + 1)
<1> DEFINE l == i \div 2
<1>1. l \in Nat /\ (i = 2 * l \/ i = 2 * l + 1)
  OBVIOUS
<1> HIDE DEF l
<1>2. l = 0 => i = 1
  BY <1>1
<1>3. l # 0 => l >= 1
  BY <1>1
<1> QED
  BY <1>1, <1>2, <1>3

\* Where no call is, no edit is.
LEMMA NoCallsNoEdits ==
    ASSUME NEW w \in Seq(Emitted), CallPlaces(w) = {}
    PROVE  Edits(w) = {}
<1>1. Answered(w)
  BY DEF Answered
<1>2. \A i \in DOMAIN w : Replies(w, i) = {}
  BY <1>1, RepliesOf
<1> QED
  BY <1>2 DEF Edits

Leads(ev, r, cs) == ev = <<r>> \o FlatCalls(cs)

LEMMA EditsOfCalls ==
    ASSUME NEW cs \in Seq(Deeds), NEW r \in Emitted, r.type = "provider_response", NEW ev, Leads(ev, r, cs)
    PROVE  /\ \A i \in Nat : i \in Edits(ev) <=> \E l \in 1..Len(cs) : i = 2 * l /\ VisibleEdit(cs[l])
           /\ \A l \in 1..Len(cs) : ev[2 * l].input.file = cs[l].action.file
<1> DEFINE n == Len(cs)
           f == FlatCalls(cs)
           a == <<r>>
<1>1. n \in Nat /\ f \in Seq(Emitted) /\ Len(f) = 2 * n
      /\ \A l \in 1..n : f[2 * l - 1] = CallOf(cs[l]) /\ f[2 * l] = ResultOf(cs[l])
  BY FlatCallsOfOneMore, CallsLieInPairs
<1>2. a \in Seq(Emitted) /\ Len(a) = 1 /\ a[1] = r
  OBVIOUS
<1>h. ev = a \o f
  BY DEF Leads
<1> HIDE DEF f, a, n
<1>3. ev \in Seq(Emitted) /\ Len(ev) = 2 * n + 1 /\ ev[1] = r /\ \A i \in 1..2 * n : ev[1 + i] = f[i]
  <2>1. a \in Seq(Emitted) /\ f \in Seq(Emitted)
    BY <1>1, <1>2
  <2>2. a \o f \in Seq(Emitted) /\ Len(a \o f) = Len(a) + Len(f) /\ (\A i \in 1..Len(a) : (a \o f)[i] = a[i])
        /\ \A i \in 1..Len(f) : (a \o f)[Len(a) + i] = f[i]
    BY <2>1, Sg!Beside
  <2>3. Len(a) + Len(f) = 2 * n + 1 /\ 1 \in 1..Len(a)
    BY <1>1, <1>2
  <2> QED
    <3> DEFINE g == a \o f
    <3>1. g \in Seq(Emitted) /\ Len(g) = 2 * n + 1 /\ g[1] = r
      BY <1>2, <2>2, <2>3
    <3>2. \A i \in 1..2 * n : g[1 + i] = f[i]
      BY <1>1, <1>2, <2>2
    <3> HIDE DEF g
    <3> QED
      BY <1>h, <3>1, <3>2 DEF g
<1>4. ASSUME NEW l \in 1..n
      PROVE  /\ ev[2 * l] = CallOf(cs[l]) /\ ev[2 * l + 1] = ResultOf(cs[l]) /\ cs[l] \in Deeds
             /\ 2 * l \in 1..2 * n + 1 /\ 2 * l + 1 \in 1..2 * n + 1 /\ 2 * l \in Nat
  <2>1. 2 * l - 1 \in 1..2 * n /\ 2 * l \in 1..2 * n /\ 1 + (2 * l - 1) = 2 * l /\ 1 + 2 * l = 2 * l + 1
        /\ 2 * l \in 1..2 * n + 1 /\ 2 * l + 1 \in 1..2 * n + 1 /\ 2 * l \in Nat
    BY <1>1
  <2>2. ev[2 * l] = f[2 * l - 1]
    <3> DEFINE i == 2 * l - 1
    <3>1. i \in 1..2 * n /\ 1 + i = 2 * l
      BY <2>1
    <3> HIDE DEF i
    <3>2. ev[1 + i] = f[i]
      BY <1>3, <3>1
    <3> QED
      BY <3>1, <3>2 DEF i
  <2>3. ev[2 * l + 1] = f[2 * l]
    <3> DEFINE i == 2 * l
    <3>1. i \in 1..2 * n /\ 1 + i = i + 1
      BY <2>1
    <3> HIDE DEF i
    <3>2. ev[1 + i] = f[i]
      BY <1>3, <3>1
    <3>3. ev[i + 1] = f[i]
      BY <3>1, <3>2
    <3> QED
      BY <3>3 DEF i
  <2>4. cs[l] \in Deeds
    BY DEF n
  <2> QED
    BY <1>1, <2>1, <2>2, <2>3, <2>4
<1>5. ASSUME NEW i \in 1..2 * n + 1, ev[i].type = "tool_call" PROVE \E l \in 1..n : i = 2 * l
  <2>1. i # 1
    BY <1>3, <1>5
  <2>2. i \in Nat /\ i # 0
    BY <1>1
  <2>3. \A l \in Nat : l >= 1 /\ (i = 2 * l \/ i = 2 * l + 1) => l \in 1..n
    BY <1>1
  <2>4. ASSUME NEW l \in Nat, l >= 1, i = 2 * l + 1 PROVE FALSE
    <3>1. l \in 1..n
      BY <2>3, <2>4
    <3>2. ev[i] = ResultOf(cs[l])
      BY <1>4, <2>4, <3>1
    <3> QED
      BY <1>5, <3>2, KindsDiffer
  <2>5. PICK l \in Nat : l >= 1 /\ i = 2 * l
    BY <2>1, <2>2, <2>4, Halves
  <2>6. l \in 1..n
    BY <2>3, <2>5
  <2> QED
    BY <2>5, <2>6
<1>6. Answered(ev)
  <2>1. ASSUME NEW i \in CallPlaces(ev)
        PROVE  i + 1 \in 1..Len(ev) /\ ev[i + 1].type = "tool_result" /\ ev[i + 1].name = ev[i].name
    <3>1. i \in 1..2 * n + 1 /\ ev[i].type = "tool_call"
      BY <1>3 DEF CallPlaces
    <3>2. PICK l \in 1..n : i = 2 * l
      BY <1>5, <3>1
    <3> QED
      <4> DEFINE c == cs[l]
      <4>1. ev[i] = CallOf(c) /\ ev[i + 1] = ResultOf(c) /\ i + 1 \in 1..2 * n + 1
        BY <1>4, <3>2
      <4> HIDE DEF c
      <4>2. ev[i].name = c.action.tool /\ ev[i + 1].name = c.action.tool /\ ev[i + 1].type = "tool_result"
        BY <4>1, KindsDiffer
      <4> QED
        BY <1>3, <4>1, <4>2
  <2> QED
    BY <2>1 DEF Answered
<1>7. ASSUME NEW l \in 1..n
      PROVE  /\ 2 * l \in CallPlaces(ev)
             /\ 2 * l \in Edits(ev) <=> VisibleEdit(cs[l])
             /\ ev[2 * l].input.file = cs[l].action.file
  <2> DEFINE c == cs[l]
             i == 2 * l
  <2>1. ev[i] = CallOf(c) /\ ev[i + 1] = ResultOf(c) /\ c \in Deeds /\ i \in 1..Len(ev)
    BY <1>3, <1>4
  <2> HIDE DEF c, i
  <2>2. i \in CallPlaces(ev)
    BY <2>1, KindsDiffer DEF CallPlaces
  <2>3. Replies(ev, i) # {} /\ Min(Replies(ev, i)) = i + 1
    BY <1>3, <1>6, <2>1, <2>2, RepliesOf
  <2>4. ev[i].name = c.action.tool /\ ev[i].input = Input(c.action) /\ ev[i + 1].out = c.out
    BY <2>1, KindsDiffer
  <2>5. c.action.long \in BOOLEAN
    BY <2>1, DeedTypes
  <2>6. Input(c.action).file = c.action.file /\ Input(c.action).cut = c.action.long
    BY <2>5 DEF Input
  <2>7. i \in DOMAIN ev
    BY <1>3, <2>1
  <2>8. i \in Edits(ev) <=> VisibleEdit(c)
    BY <2>3, <2>4, <2>6, <2>7 DEF Edits, VisibleEdit, Well
  <2> QED
    BY <2>2, <2>4, <2>6, <2>8 DEF c, i
<1>8. ASSUME NEW i \in Edits(ev) PROVE \E l \in 1..n : i = 2 * l
  <2>1. i \in 1..2 * n + 1 /\ Replies(ev, i) # {}
    BY <1>3 DEF Edits
  <2>2. ev[i].type = "tool_call"
    BY <2>1 DEF Replies
  <2> QED
    BY <1>5, <2>1, <2>2
<1>9. ASSUME NEW i \in Nat PROVE i \in Edits(ev) <=> \E l \in 1..n : i = 2 * l /\ VisibleEdit(cs[l])
  <2>1. ASSUME i \in Edits(ev) PROVE \E l \in 1..n : i = 2 * l /\ VisibleEdit(cs[l])
    <3>1. PICK l \in 1..n : i = 2 * l
      BY <1>8, <2>1
    <3>2. VisibleEdit(cs[l])
      BY <1>7, <2>1, <3>1
    <3> QED
      BY <3>1, <3>2
  <2>2. ASSUME NEW l \in 1..n, i = 2 * l, VisibleEdit(cs[l]) PROVE i \in Edits(ev)
    BY <1>7, <2>2
  <2> QED
    BY <2>1, <2>2
<1> QED
  BY <1>7, <1>9 DEF n

LEMMA EditsOfStats ==
    ASSUME NEW turn \in Turns
    PROVE  /\ \A i : i \in Edits(StatOf(turn).events) <=> \E l \in 1..Len(turn.calls) : i = 2 * l /\ VisibleEdit(turn.calls[l])
           /\ \A l \in 1..Len(turn.calls) : StatOf(turn).events[2 * l].input.file = turn.calls[l].action.file
           /\ Edits(OpenStat(turn).events) = {}
           /\ StatOf(turn).verified = Talks(turn) /\ ~OpenStat(turn).verified
           /\ Talks(turn) => StatOf(turn).passing = turn.passed
<1> DEFINE r == Response(Len(turn.calls))
           ev == <<r>> \o Closing(turn)
           z == Verified(turn.passed)
<1>1. turn.calls \in Seq(Deeds) /\ turn.passed \in Nat /\ r \in Emitted /\ Verifies \in Emitted /\ z \in Emitted
  BY TurnTypes, TurnEvents, WhatIsEmitted
<1>2. r.type = "provider_response" /\ Verifies.type = "verify_run" /\ z.type = "verify_result"
  BY KindsDiffer
<1>3. StatOf(turn).events = ev /\ StatOf(turn).verified = Talks(turn) /\ OpenStat(turn).events = <<r>>
      /\ ~OpenStat(turn).verified /\ (Talks(turn) => StatOf(turn).passing = turn.passed)
  BY DEF StatOf, OpenStat, Stat
<1>4. Edits(<<r>>) = {}
  <2> HIDE DEF r
  <2>1. <<r>> \in Seq(Emitted) /\ Len(<<r>>) = 1 /\ <<r>>[1] = r
    BY <1>1
  <2>2. CallPlaces(<<r>>) = {}
    BY <1>2, <2>1 DEF CallPlaces
  <2> QED
    BY <2>1, <2>2, NoCallsNoEdits
<1>5. CASE ~Talks(turn)
  <2>1. Closing(turn) = FlatCalls(turn.calls)
    BY <1>5, TurnEvents
  <2>2. ev = <<r>> \o FlatCalls(turn.calls) /\ Leads(ev, r, turn.calls)
    BY <2>1 DEF Leads
  <2> HIDE DEF r, ev
  <2>3. /\ \A i \in Nat : i \in Edits(ev) <=> \E l \in 1..Len(turn.calls) : i = 2 * l /\ VisibleEdit(turn.calls[l])
        /\ \A l \in 1..Len(turn.calls) : ev[2 * l].input.file = turn.calls[l].action.file
    <3> DEFINE cs == turn.calls
    <3>1. cs \in Seq(Deeds) /\ r \in Emitted /\ r.type = "provider_response" /\ Leads(ev, r, cs)
      BY <1>1, <1>2, <2>2
    <3> HIDE DEF cs
    <3>2. /\ \A i \in Nat : i \in Edits(ev) <=> \E l \in 1..Len(cs) : i = 2 * l /\ VisibleEdit(cs[l])
          /\ \A l \in 1..Len(cs) : ev[2 * l].input.file = cs[l].action.file
      BY <3>1, EditsOfCalls
    <3> QED
      BY <3>2 DEF cs
  <2>4. \A i : i \in Edits(ev) => i \in Nat
    <3>1. ev \in Seq(Emitted)
      <4>1. <<r>> \in Seq(Emitted) /\ FlatCalls(turn.calls) \in Seq(Emitted)
        BY <1>1, FlatCallsOfOneMore
      <4> QED
        BY <2>2, <4>1, Sg!Beside
    <3> QED
      BY <3>1 DEF Edits
  <2>5. \A l \in 1..Len(turn.calls) : 2 * l \in Nat
    <3>1. Len(turn.calls) \in Nat
      BY <1>1
    <3> QED
      BY <3>1
  <2>6. \A i : i \in Edits(ev) <=> \E l \in 1..Len(turn.calls) : i = 2 * l /\ VisibleEdit(turn.calls[l])
    BY <2>3, <2>4, <2>5
  <2> QED
    BY <1>3, <1>4, <2>3, <2>6
<1>6. CASE Talks(turn)
  <2>1. Closing(turn) = <<Verifies, z>> /\ turn.calls = <<>>
    BY <1>6, TurnEvents
  <2>2. ev = <<r>> \o <<Verifies, z>>
    BY <2>1
  <2>3. Len(turn.calls) = 0 /\ 1..0 = {}
    BY <2>1
  <2> HIDE DEF r, z, ev
  <2>4. ev \in Seq(Emitted) /\ Len(ev) = 3 /\ ev[1] = r /\ ev[2] = Verifies /\ ev[3] = z
    <3> DEFINE a == <<r>>
               b == <<Verifies, z>>
    <3>1. a \in Seq(Emitted) /\ Len(a) = 1 /\ a[1] = r /\ b \in Seq(Emitted) /\ Len(b) = 2 /\ b[1] = Verifies /\ b[2] = z
      BY <1>1
    <3>2. ev = a \o b
      BY <2>2
    <3> HIDE DEF a, b
    <3>3. a \in Seq(Emitted) /\ b \in Seq(Emitted)
      BY <3>1
    <3>4. a \o b \in Seq(Emitted) /\ Len(a \o b) = Len(a) + Len(b) /\ (\A i \in 1..Len(a) : (a \o b)[i] = a[i])
          /\ \A i \in 1..Len(b) : (a \o b)[Len(a) + i] = b[i]
      BY <3>3, Sg!Beside
    <3> DEFINE g == a \o b
    <3>5. g \in Seq(Emitted) /\ Len(g) = 3 /\ g[1] = a[1] /\ g[1 + 1] = b[1] /\ g[1 + 2] = b[2]
      BY <3>1, <3>4
    <3> HIDE DEF g
    <3>6. 1 + 1 = 2 /\ 1 + 2 = 3
      OBVIOUS
    <3> QED
      BY <3>1, <3>2, <3>5, <3>6 DEF g
  <2>5. CallPlaces(ev) = {}
    <3>1. \A i \in 1..3 : i = 1 \/ i = 2 \/ i = 3
      OBVIOUS
    <3> QED
      BY <1>2, <2>4, <3>1 DEF CallPlaces
  <2>6. Edits(ev) = {}
    BY <2>4, <2>5, NoCallsNoEdits
  <2> QED
    BY <1>3, <1>4, <2>3, <2>6
<1> QED
  BY <1>5, <1>6

LEMMA NeighboursAreEnough ==
    ASSUME NEW S, S \subseteq Nat, NEW v, \A i \in S : v[i] \in Nat
    PROVE  (\A i, j \in S : i < j /\ S \cap (i + 1..j - 1) = {} => v[j] <= v[i])
           <=> \A i, j \in S : i < j => v[j] <= v[i]
<1> SUFFICES ASSUME \A i, j \in S : i < j /\ S \cap (i + 1..j - 1) = {} => v[j] <= v[i]
             PROVE  \A i, j \in S : i < j => v[j] <= v[i]
  OBVIOUS
<1> DEFINE D == {d \in Nat : \A i, j \in S : i < j /\ j - i <= d => v[j] <= v[i]}
<1>1. 0 \in D
  OBVIOUS
<1>2. ASSUME NEW d \in Nat, d \in D PROVE d + 1 \in D
  <2>1. ASSUME NEW i \in S, NEW j \in S, i < j, j - i <= d + 1 PROVE v[j] <= v[i]
    <3>1. CASE S \cap (i + 1..j - 1) = {}
      BY <2>1, <3>1
    <3>2. CASE S \cap (i + 1..j - 1) # {}
      <4>1. PICK m \in S : m \in i + 1..j - 1
        BY <3>2
      <4>2. i \in Nat /\ j \in Nat /\ m \in Nat
        OBVIOUS
      <4>3. i < m /\ m - i <= d /\ m < j /\ j - m <= d
        BY <2>1, <4>1, <4>2
      <4>4. v[m] <= v[i] /\ v[j] <= v[m]
        BY <1>2, <4>3
      <4>5. v[i] \in Nat /\ v[j] \in Nat /\ v[m] \in Nat
        OBVIOUS
      <4> DEFINE a == v[i]
                 b == v[j]
                 c == v[m]
      <4>6. a \in Nat /\ b \in Nat /\ c \in Nat /\ c <= a /\ b <= c
        BY <4>4, <4>5
      <4> HIDE DEF a, b, c
      <4>7. b <= a
        BY <4>6
      <4> QED
        BY <4>7 DEF a, b
    <3> QED
      BY <3>1, <3>2
  <2>2. d + 1 \in Nat
    OBVIOUS
  <2> QED
    BY <2>1, <2>2
<1> HIDE DEF D
<1>3. Nat \subseteq D
  BY <1>1, <1>2, Sg!Steps
<1>4. ASSUME NEW i \in S, NEW j \in S, i < j PROVE v[j] <= v[i]
  <2>1. i \in Nat /\ j \in Nat /\ j - i \in Nat
    BY <1>4
  <2>2. j - i \in D
    BY <1>3, <2>1
  <2> QED
    BY <1>4, <2>1, <2>2 DEF D
<1> QED
  BY <1>4

\* Churn: enough edits are of one file.
Churns(set, file) == \E m \in set : Cardinality({n \in set : file[n] = file[m]}) >= OscillationCap

\* f gives the edits A, of the files p, the places B, which have the files q.
Renames(f, A, B, p, q) ==
    /\ IsFiniteSet(A) /\ f \in [A -> B] /\ \A x, y \in A : f[x] = f[y] => x = y
    /\ \A b \in B : \E a \in A : f[a] = b
    /\ \A a \in A : q[f[a]] = p[a]

\* What is told of elements by a name they keep when they are renamed.
LEMMA RenamedChurns ==
    ASSUME NEW A, NEW B, NEW f, NEW p, NEW q, Renames(f, A, B, p, q)
    PROVE  Churns(B, q) <=> Churns(A, p)
<1> DEFINE k == OscillationCap
<1>0. /\ IsFiniteSet(A) /\ f \in [A -> B] /\ (\A x, y \in A : f[x] = f[y] => x = y)
      /\ \A b \in B : \E a \in A : f[a] = b
      /\ \A a \in A : q[f[a]] = p[a]
  BY DEF Renames
<1>1. ASSUME NEW a \in A PROVE Cardinality({c \in B : q[c] = q[f[a]]}) = Cardinality({c \in A : p[c] = p[a]})
  <2> DEFINE U == {c \in A : p[c] = p[a]}
             V == {c \in B : q[c] = q[f[a]]}
             e == [c \in U |-> f[c]]
  <2>1. e \in [U -> V]
    BY <1>0
  <2>2. \A x, y \in U : e[x] = e[y] => x = y
    BY <1>0
  <2>3. \A y \in V : \E x \in U : e[x] = y
    <3> SUFFICES ASSUME NEW y \in V PROVE \E x \in U : e[x] = y
      OBVIOUS
    <3>1. PICK x \in A : f[x] = y
      BY <1>0
    <3>2. x \in U
      BY <1>0, <3>1
    <3> QED
      BY <3>1, <3>2
  <2>4. U \in SUBSET A
    OBVIOUS
  <2> HIDE DEF U, V, e
  <2>5. IsFiniteSet(U)
    BY <1>0, <2>4, FS_Subset
  <2>6. Cardinality(V) = Cardinality(U)
    BY <2>1, <2>2, <2>3, <2>5, SameNumber
  <2> QED
    BY <2>6 DEF U, V
<1>2. ASSUME NEW b \in B, Cardinality({c \in B : q[c] = q[b]}) >= k
      PROVE  \E a \in A : Cardinality({c \in A : p[c] = p[a]}) >= k
  <2>1. PICK a \in A : f[a] = b
    BY <1>0
  <2>2. Cardinality({c \in A : p[c] = p[a]}) >= k
    BY <1>1, <1>2, <2>1
  <2> QED
    BY <2>2
<1>3. ASSUME NEW a \in A, Cardinality({c \in A : p[c] = p[a]}) >= k
      PROVE  \E b \in B : Cardinality({c \in B : q[c] = q[b]}) >= k
  <2>1. f[a] \in B /\ Cardinality({c \in B : q[c] = q[f[a]]}) >= k
    BY <1>0, <1>1, <1>3
  <2> QED
    BY <2>1
<1> QED
  BY <1>2, <1>3 DEF Churns

-----------------------------------------------------------------------------
\* What NoProgress looks at: the checks, the edits and their files.
TraceOf(last) == {j \in DOMAIN last : last[j].verified}
MergedOf(last) == UNION {{j} \X Edits(last[j].events) : j \in DOMAIN last}
FilesOf(last) == [m \in MergedOf(last) |-> last[m[1]].events[m[2]].input.file]
Falls(last) ==
    \A i, j \in TraceOf(last) : i < j /\ TraceOf(last) \cap (i + 1..j - 1) = {} => last[j].passing <= last[i].passing

LEMMA IdleIs ==
    ASSUME NEW last
    PROVE  Idle(last) <=> /\ TraceOf(last) = {} => MergedOf(last) = {}
                          /\ Falls(last)
                          /\ MergedOf(last) = {} \/ Churns(MergedOf(last), FilesOf(last))
<1> DEFINE merged == MergedOf(last)
           File(m) == last[m[1]].events[m[2]].input.file
           churns == \E m \in merged : Cardinality({n \in merged : File(n) = File(m)}) >= OscillationCap
<1>1. ASSUME NEW m \in merged PROVE {n \in merged : FilesOf(last)[n] = FilesOf(last)[m]} = {n \in merged : File(n) = File(m)}
  BY DEF FilesOf
<1>2. churns <=> Churns(merged, FilesOf(last))
  <2> HIDE DEF merged, File
  <2> QED
    BY <1>1 DEF Churns
<1>3. Idle(last) <=> /\ TraceOf(last) = {} => merged = {}
                     /\ Falls(last)
                     /\ merged = {} \/ churns
  BY DEF Idle, TraceOf, MergedOf, Falls
<1> QED
  BY <1>2, <1>3

CheckedOf(turns) == {i \in LastTurns(turns) : Talks(turns[i])}
EditedFiles(turns) == [d \in RecentEdits(turns) |-> Calls(turns[d[1]])[d[2]].action.file]

LEMMA MadeNoProgressIs ==
    ASSUME NEW turns
    PROVE  MadeNoProgress(turns) <=>
             /\ Len(turns) >= NoProgressThreshold
             /\ \A i, j \in CheckedOf(turns) : i < j => Passed(turns[j]) <= Passed(turns[i])
             /\ \/ RecentEdits(turns) = {}
                \/ CheckedOf(turns) # {} /\ Churns(RecentEdits(turns), EditedFiles(turns))
<1> DEFINE edits == RecentEdits(turns)
           File(d) == Calls(turns[d[1]])[d[2]].action.file
           churns == \E d \in edits : Cardinality({c \in edits : File(c) = File(d)}) >= OscillationCap
<1>1. ASSUME NEW m \in edits PROVE {n \in edits : EditedFiles(turns)[n] = EditedFiles(turns)[m]} = {n \in edits : File(n) = File(m)}
  BY DEF EditedFiles
<1>2. churns <=> Churns(edits, EditedFiles(turns))
  <2> HIDE DEF edits, File
  <2> QED
    BY <1>1 DEF Churns
<1>3. MadeNoProgress(turns) <=>
             /\ Len(turns) >= NoProgressThreshold
             /\ \A i, j \in CheckedOf(turns) : i < j => Passed(turns[j]) <= Passed(turns[i])
             /\ \/ edits = {}
                \/ CheckedOf(turns) # {} /\ churns
  BY DEF MadeNoProgress, CheckedOf
<1> QED
  BY <1>2, <1>3

LEMMA RecentEditsAre ==
    ASSUME NEW h \in Seq(Turns), NEW B \in Nat, NEW n \in Nat, n = Len(h), B + NoProgressThreshold = n
    PROVE  /\ \A d : d \in RecentEdits(h) <=>
                \E i \in B + 1..n - 1 : \E l \in 1..Len(h[i].calls) : d = <<i, l>> /\ VisibleEdit(h[i].calls[l])
           /\ IsFiniteSet(RecentEdits(h))
           /\ LastTurns(h) = B + 1..n - 1 /\ LastTurns(h) \subseteq 1..n
<1> DEFINE R == LastTurns(h)
           X(i) == {i} \X DOMAIN Calls(h[i])
           F == {X(i) : i \in R}
           f == [i \in R |-> X(i)]
<1>1. NoProgressThreshold \in Nat /\ NoProgressThreshold >= 1
  BY StuckAssumption
<1>2. R = B + 1..n - 1 /\ R \subseteq 1..n
  BY <1>1 DEF LastTurns
<1>3. ASSUME NEW i \in R PROVE h[i] \in Turns /\ DOMAIN Calls(h[i]) = 1..Len(h[i].calls) /\ Len(h[i].calls) \in Nat
  <2>1. h[i] \in Turns
    BY <1>2, <1>3
  <2>2. h[i].calls \in Seq(Deeds)
    BY <2>1, TurnTypes
  <2> QED
    BY <2>1, <2>2 DEF Calls
<1>4. ASSUME NEW d
      PROVE  d \in RecentEdits(h) <=>
                \E i \in B + 1..n - 1 : \E l \in 1..Len(h[i].calls) : d = <<i, l>> /\ VisibleEdit(h[i].calls[l])
  <2>1. d \in RecentEdits(h) <=> \E i \in R : \E l \in DOMAIN Calls(h[i]) : d = <<i, l>> /\ VisibleEdit(Calls(h[i])[l])
    <3>1. ASSUME NEW i \in R, NEW l \in DOMAIN Calls(h[i]), d = <<i, l>>, VisibleEdit(Calls(h[i])[l])
          PROVE  d \in RecentEdits(h)
      <4>1. d[1] = i /\ d[2] = l /\ d \in X(i)
        BY <3>1
      <4> QED
        BY <3>1, <4>1 DEF RecentEdits
    <3>2. ASSUME d \in RecentEdits(h)
          PROVE  \E i \in R : \E l \in DOMAIN Calls(h[i]) : d = <<i, l>> /\ VisibleEdit(Calls(h[i])[l])
      <4>1. PICK i \in R : d \in {i} \X DOMAIN Calls(h[i])
        BY <3>2 DEF RecentEdits
      <4>2. VisibleEdit(Calls(h[d[1]])[d[2]])
        BY <3>2 DEF RecentEdits
      <4>3. PICK l \in DOMAIN Calls(h[i]) : d = <<i, l>>
        BY <4>1
      <4>4. d[1] = i /\ d[2] = l
        BY <4>3
      <4> QED
        BY <4>2, <4>3, <4>4
    <3> QED
      BY <3>1, <3>2
  <2> QED
    BY <1>2, <1>3, <2>1 DEF Calls
<1>5. IsFiniteSet(F)
  <2>1. f \in Surjection(R, F)
    BY DEF Surjection
  <2>2. IsFiniteSet(R)
    <3>1. B + 1 \in Int /\ n - 1 \in Int
      OBVIOUS
    <3>2. IsFiniteSet(B + 1..n - 1)
      BY <3>1, FS_Interval
    <3> QED
      BY <1>2, <3>2
  <2> HIDE DEF R, F, f
  <2> QED
    BY <2>1, <2>2, FS_Surjection
<1>6. ASSUME NEW T \in F PROVE IsFiniteSet(T)
  <2>1. PICK i \in R : T = {i} \X DOMAIN Calls(h[i])
    OBVIOUS
  <2> DEFINE D == DOMAIN Calls(h[i])
  <2>2. IsFiniteSet({i})
    BY FS_Singleton
  <2>3. IsFiniteSet(D)
    <3> DEFINE m == Len(h[i].calls)
    <3>1. m \in Nat /\ D = 1..m
      BY <1>3
    <3> HIDE DEF m, D
    <3> QED
      BY <3>1, FS_Interval
  <2> HIDE DEF D
  <2>4. IsFiniteSet({i} \X D)
    BY <2>2, <2>3, FS_Product
  <2> QED
    BY <2>1, <2>4 DEF D
<1>7. IsFiniteSet(UNION F)
  <2> HIDE DEF F
  <2> QED
    BY <1>5, <1>6, FS_UNION
<1>8. RecentEdits(h) \in SUBSET UNION F
  BY DEF RecentEdits
<1>9. IsFiniteSet(RecentEdits(h))
  <2> DEFINE U == UNION F
  <2>1. IsFiniteSet(U) /\ RecentEdits(h) \in SUBSET U
    BY <1>7, <1>8
  <2> HIDE DEF U
  <2> QED
    BY <2>1, FS_Subset
<1> QED
  BY <1>2, <1>4, <1>9

\* The last stats of a history whose last turn has only its response.
LastAre(last, h, t, B, n) ==
    /\ h \in Seq(Turns) /\ t \in Turns /\ B \in Nat /\ n \in Nat /\ n = Len(h) /\ B + NoProgressThreshold = n
    /\ DOMAIN last = 1..NoProgressThreshold
    /\ \A j \in 1..NoProgressThreshold - 1 : last[j] = StatOf(h[B + j])
    /\ last[NoProgressThreshold] = OpenStat(t)

LEMMA TracesAgree ==
    ASSUME NEW last, NEW h, NEW t, NEW B, NEW n, LastAre(last, h, t, B, n)
    PROVE  /\ \A j : j \in TraceOf(last) <=> j \in 1..NoProgressThreshold - 1 /\ B + j \in CheckedOf(h)
           /\ \A i : i \in CheckedOf(h) => i - B \in 1..NoProgressThreshold - 1 /\ B + (i - B) = i
           /\ \A j \in TraceOf(last) : last[j].passing = Passed(h[B + j]) /\ Passed(h[B + j]) \in Nat
<1> DEFINE K == NoProgressThreshold
<1>0. /\ h \in Seq(Turns) /\ t \in Turns /\ B \in Nat /\ n \in Nat /\ n = Len(h) /\ B + K = n
      /\ DOMAIN last = 1..K /\ (\A j \in 1..K - 1 : last[j] = StatOf(h[B + j])) /\ last[K] = OpenStat(t)
  BY DEF LastAre
<1>1. K \in Nat /\ K >= 1
  BY StuckAssumption
<1>2. LastTurns(h) = B + 1..n - 1 /\ LastTurns(h) \subseteq 1..n
  <2>1. h \in Seq(Turns) /\ B \in Nat /\ n \in Nat /\ n = Len(h) /\ B + NoProgressThreshold = n
    BY <1>0 DEF K
  <2> HIDE DEF K
  <2> QED
    BY <2>1, RecentEditsAre
<1>k. K = NoProgressThreshold
  OBVIOUS
<1> HIDE DEF K
<1>3. ASSUME NEW j \in 1..K - 1
      PROVE  /\ B + j \in LastTurns(h) /\ h[B + j] \in Turns /\ j \in 1..K
             /\ last[j].verified = Talks(h[B + j]) /\ (Talks(h[B + j]) => last[j].passing = Passed(h[B + j]))
             /\ Passed(h[B + j]) \in Nat
  <2>1. B + j \in B + 1..n - 1 /\ B + j \in 1..n /\ j \in 1..K
    BY <1>0, <1>1
  <2>2. h[B + j] \in Turns /\ last[j] = StatOf(h[B + j])
    BY <1>0, <2>1
  <2> DEFINE x == h[B + j]
  <2>3. x \in Turns /\ last[j] = StatOf(x)
    BY <2>2
  <2> HIDE DEF x
  <2>4. last[j].verified = Talks(x) /\ (Talks(x) => last[j].passing = Passed(x)) /\ Passed(x) \in Nat
    BY <2>3, EditsOfStats, TurnTypes DEF Passed
  <2> QED
    BY <1>2, <2>1, <2>3, <2>4 DEF x
<1>4. ~last[K].verified
  BY <1>0, EditsOfStats
<1>5. ASSUME NEW j PROVE j \in TraceOf(last) <=> j \in 1..K - 1 /\ B + j \in CheckedOf(h)
  <2>1. j \in TraceOf(last) <=> j \in 1..K /\ last[j].verified
    BY <1>0 DEF TraceOf
  <2>2. j \in 1..K <=> j \in 1..K - 1 \/ j = K
    BY <1>1
  <2>3. j \in TraceOf(last) <=> j \in 1..K - 1 /\ last[j].verified
    BY <1>4, <2>1, <2>2
  <2> QED
    BY <1>3, <2>3 DEF CheckedOf
<1>6. ASSUME NEW i, i \in CheckedOf(h) PROVE i - B \in 1..K - 1 /\ B + (i - B) = i
  <2>1. i \in B + 1..n - 1
    BY <1>2, <1>6 DEF CheckedOf
  <2> QED
    BY <1>0, <1>1, <2>1
<1>7. ASSUME NEW j \in TraceOf(last) PROVE last[j].passing = Passed(h[B + j]) /\ Passed(h[B + j]) \in Nat
  <2>1. j \in 1..K - 1 /\ Talks(h[B + j])
    BY <1>5 DEF CheckedOf
  <2> QED
    BY <1>3, <2>1
<1> QED
  BY <1>k, <1>5, <1>6, <1>7

LEMMA FallsAgree ==
    ASSUME NEW last, NEW h, NEW t, NEW B, NEW n, LastAre(last, h, t, B, n)
    PROVE  /\ TraceOf(last) = {} <=> CheckedOf(h) = {}
           /\ Falls(last) <=> \A i, j \in CheckedOf(h) : i < j => Passed(h[j]) <= Passed(h[i])
<1> DEFINE S == TraceOf(last)
           C == CheckedOf(h)
           v == [j \in S |-> last[j].passing]
<1>1. /\ \A j : j \in S <=> j \in 1..NoProgressThreshold - 1 /\ B + j \in C
      /\ \A i : i \in C => i - B \in 1..NoProgressThreshold - 1 /\ B + (i - B) = i
      /\ \A j \in S : last[j].passing = Passed(h[B + j]) /\ Passed(h[B + j]) \in Nat
  BY TracesAgree
<1>2. B \in Nat /\ NoProgressThreshold \in Nat
  BY StuckAssumption DEF LastAre
<1>3. S \subseteq Nat /\ (\A j \in S : v[j] = last[j].passing /\ v[j] = Passed(h[B + j]) /\ v[j] \in Nat)
  BY <1>1, <1>2
<1>4. Falls(last) <=> \A i, j \in S : i < j /\ S \cap (i + 1..j - 1) = {} => v[j] <= v[i]
  BY DEF Falls
<1> HIDE DEF S, v, C
<1>5. Falls(last) <=> \A i, j \in S : i < j => v[j] <= v[i]
  BY <1>3, <1>4, NeighboursAreEnough
<1>6. S = {} <=> C = {}
  BY <1>1
<1>7. ASSUME \A i, j \in S : i < j => v[j] <= v[i], NEW i \in C, NEW j \in C, i < j PROVE Passed(h[j]) <= Passed(h[i])
  <2>1. i - B \in S /\ j - B \in S /\ B + (i - B) = i /\ B + (j - B) = j
    BY <1>1
  <2>2. i - B < j - B
    <3>1. i \in Nat /\ j \in Nat
      <4>1. i - B \in Nat /\ j - B \in Nat
        BY <1>3, <2>1
      <4>2. B + (i - B) \in Nat /\ B + (j - B) \in Nat
        BY <1>2, <4>1
      <4> QED
        BY <2>1, <4>2
    <3> QED
      BY <1>2, <1>7, <3>1
  <2>3. v[j - B] <= v[i - B]
    BY <1>7, <2>1, <2>2
  <2>4. v[j - B] = Passed(h[j]) /\ v[i - B] = Passed(h[i])
    BY <1>3, <2>1
  <2> QED
    BY <2>3, <2>4
<1>8. ASSUME \A i, j \in C : i < j => Passed(h[j]) <= Passed(h[i]), NEW i \in S, NEW j \in S, i < j PROVE v[j] <= v[i]
  <2>1. B + i \in C /\ B + j \in C /\ i \in Nat /\ j \in Nat
    BY <1>1, <1>3
  <2>2. B + i < B + j
    BY <1>2, <1>8, <2>1
  <2>3. Passed(h[B + j]) <= Passed(h[B + i])
    BY <1>8, <2>1, <2>2
  <2> QED
    BY <1>3, <2>3
<1> QED
  BY <1>5, <1>6, <1>7, <1>8 DEF S, C

LEMMA EditsAgree ==
    ASSUME NEW last, NEW h, NEW t, NEW B, NEW n, LastAre(last, h, t, B, n)
    PROVE  /\ MergedOf(last) = {} <=> RecentEdits(h) = {}
           /\ Churns(MergedOf(last), FilesOf(last)) <=> Churns(RecentEdits(h), EditedFiles(h))
<1> DEFINE K == NoProgressThreshold
           A == RecentEdits(h)
           M == MergedOf(last)
           f == [d \in A |-> <<d[1] - B, 2 * d[2]>>]
<1>0. /\ h \in Seq(Turns) /\ t \in Turns /\ B \in Nat /\ n \in Nat /\ n = Len(h) /\ B + K = n
      /\ DOMAIN last = 1..K /\ (\A j \in 1..K - 1 : last[j] = StatOf(h[B + j])) /\ last[K] = OpenStat(t)
      /\ K \in Nat /\ K >= 1
  BY StuckAssumption DEF LastAre
<1>1. /\ \A d : d \in A <=> \E i \in B + 1..n - 1 : \E l \in 1..Len(h[i].calls) : d = <<i, l>> /\ VisibleEdit(h[i].calls[l])
      /\ IsFiniteSet(A)
  <2>1. h \in Seq(Turns) /\ B \in Nat /\ n \in Nat /\ n = Len(h) /\ B + NoProgressThreshold = n
    BY <1>0 DEF K
  <2> HIDE DEF K
  <2> QED
    BY <2>1, RecentEditsAre DEF A
<1> HIDE DEF K, A
<1>2. ASSUME NEW i \in B + 1..n - 1
      PROVE  /\ i \in Nat /\ i - B \in 1..K /\ i - B \in Nat /\ h[i] \in Turns /\ last[i - B] = StatOf(h[i]) /\ Len(h[i].calls) \in Nat
             /\ \A x : x \in Edits(last[i - B].events) <=> \E l \in 1..Len(h[i].calls) : x = 2 * l /\ VisibleEdit(h[i].calls[l])
             /\ \A l \in 1..Len(h[i].calls) : last[i - B].events[2 * l].input.file = h[i].calls[l].action.file
  <2>1. i \in Nat /\ i - B \in 1..K - 1 /\ i - B \in 1..K /\ i - B \in Nat /\ B + (i - B) = i /\ i \in 1..n
    BY <1>0
  <2>2. h[i] \in Turns
    BY <1>0, <2>1
  <2>3. last[i - B] = StatOf(h[i])
    <3> DEFINE j == i - B
    <3>1. j \in 1..K - 1 /\ B + j = i
      BY <2>1
    <3> HIDE DEF j
    <3>2. last[j] = StatOf(h[B + j])
      BY <1>0, <3>1
    <3> QED
      BY <3>1, <3>2 DEF j
  <2> DEFINE x == h[i]
  <2>4. x \in Turns /\ last[i - B] = StatOf(x)
    BY <2>2, <2>3
  <2> HIDE DEF x
  <2>5. /\ \A y : y \in Edits(last[i - B].events) <=> \E l \in 1..Len(x.calls) : y = 2 * l /\ VisibleEdit(x.calls[l])
        /\ \A l \in 1..Len(x.calls) : last[i - B].events[2 * l].input.file = x.calls[l].action.file
    BY <2>4, EditsOfStats
  <2>6. Len(x.calls) \in Nat
    BY <2>4, TurnTypes
  <2> QED
    BY <2>1, <2>4, <2>5, <2>6 DEF x
<1>3. \A m : m \in M <=> \E j \in 1..K : \E x \in Edits(last[j].events) : m = <<j, x>>
  <2>1. M = UNION {{j} \X Edits(last[j].events) : j \in 1..K}
    BY <1>0 DEF MergedOf
  <2> HIDE DEF M
  <2> QED
    BY <2>1
<1>4. ASSUME NEW m \in M
      PROVE  \E i \in B + 1..n - 1 : \E l \in 1..Len(h[i].calls) : VisibleEdit(h[i].calls[l]) /\ m = <<i - B, 2 * l>>
  <2>0. PICK j \in 1..K : \E x \in Edits(last[j].events) : m = <<j, x>>
    BY <1>3
  <2>1. PICK x \in Edits(last[j].events) : m = <<j, x>>
    BY <2>0
  <2>2. j # K
    BY <1>0, <2>1, EditsOfStats
  <2>3. B + j \in B + 1..n - 1 /\ (B + j) - B = j
    BY <1>0, <2>2
  <2> DEFINE i == B + j
  <2>4. i \in B + 1..n - 1 /\ i - B = j
    BY <2>3
  <2> HIDE DEF i
  <2>5. PICK l \in 1..Len(h[i].calls) : x = 2 * l /\ VisibleEdit(h[i].calls[l])
    BY <1>2, <2>1, <2>4
  <2> QED
    BY <2>1, <2>4, <2>5
<1>5. ASSUME NEW i \in B + 1..n - 1, NEW l \in 1..Len(h[i].calls), VisibleEdit(h[i].calls[l])
      PROVE  /\ <<i, l>> \in A /\ f[<<i, l>>] = <<i - B, 2 * l>> /\ <<i - B, 2 * l>> \in M
             /\ FilesOf(last)[<<i - B, 2 * l>>] = EditedFiles(h)[<<i, l>>]
  <2>1. <<i, l>> \in A
    BY <1>1, <1>5
  <2>2. f[<<i, l>>] = <<i - B, 2 * l>>
    BY <2>1
  <2>3. i - B \in 1..K /\ 2 * l \in Edits(last[i - B].events)
    BY <1>2, <1>5
  <2>4. <<i - B, 2 * l>> \in M
    <3> HIDE DEF M
    <3> QED
      BY <1>3, <2>3
  <2> DEFINE m == <<i - B, 2 * l>>
  <2>5. m \in M /\ m[1] = i - B /\ m[2] = 2 * l
    BY <2>4
  <2> HIDE DEF m
  <2>6. FilesOf(last)[m] = last[i - B].events[2 * l].input.file
    BY <2>5 DEF FilesOf
  <2> DEFINE d == <<i, l>>
  <2>7. d \in A /\ d[1] = i /\ d[2] = l
    BY <2>1
  <2> HIDE DEF d
  <2>8. EditedFiles(h)[d] = h[i].calls[l].action.file
    BY <2>7 DEF EditedFiles, A, Calls
  <2>9. last[i - B].events[2 * l].input.file = h[i].calls[l].action.file
    BY <1>2, <1>5
  <2> QED
    BY <2>1, <2>2, <2>4, <2>6, <2>8, <2>9 DEF m, d
<1>6. ASSUME NEW d \in A
      PROVE  \E i \in B + 1..n - 1 : \E l \in 1..Len(h[i].calls) : d = <<i, l>> /\ VisibleEdit(h[i].calls[l])
  BY <1>1
<1> HIDE DEF f, M
<1>7. ASSUME NEW d \in A PROVE f[d] \in M /\ FilesOf(last)[f[d]] = EditedFiles(h)[d]
  <2>1. PICK i \in B + 1..n - 1 : \E l \in 1..Len(h[i].calls) : d = <<i, l>> /\ VisibleEdit(h[i].calls[l])
    BY <1>6
  <2>2. PICK l \in 1..Len(h[i].calls) : d = <<i, l>> /\ VisibleEdit(h[i].calls[l])
    BY <2>1
  <2>3. f[<<i, l>>] = <<i - B, 2 * l>> /\ <<i - B, 2 * l>> \in M
        /\ FilesOf(last)[<<i - B, 2 * l>>] = EditedFiles(h)[<<i, l>>]
    BY <1>5, <2>2
  <2> QED
    BY <2>2, <2>3
<1>8. f \in [A -> M]
  <2>1. f = [d \in A |-> f[d]]
    BY DEF f
  <2> QED
    BY <1>7, <2>1
<1>9. ASSUME NEW m \in M PROVE \E d \in A : f[d] = m
  <2>1. PICK i \in B + 1..n - 1 : \E l \in 1..Len(h[i].calls) : VisibleEdit(h[i].calls[l]) /\ m = <<i - B, 2 * l>>
    BY <1>4
  <2>2. PICK l \in 1..Len(h[i].calls) : VisibleEdit(h[i].calls[l]) /\ m = <<i - B, 2 * l>>
    BY <2>1
  <2>3. <<i, l>> \in A /\ f[<<i, l>>] = <<i - B, 2 * l>>
    BY <1>5, <2>2
  <2> QED
    BY <2>2, <2>3
<1>10. ASSUME NEW x \in A, NEW y \in A, f[x] = f[y] PROVE x = y
  <2>1. PICK i \in B + 1..n - 1 : \E l \in 1..Len(h[i].calls) : x = <<i, l>> /\ VisibleEdit(h[i].calls[l])
    BY <1>6
  <2>2. PICK l \in 1..Len(h[i].calls) : x = <<i, l>> /\ VisibleEdit(h[i].calls[l])
    BY <2>1
  <2>3. PICK j \in B + 1..n - 1 : \E k \in 1..Len(h[j].calls) : y = <<j, k>> /\ VisibleEdit(h[j].calls[k])
    BY <1>6
  <2>4. PICK k \in 1..Len(h[j].calls) : y = <<j, k>> /\ VisibleEdit(h[j].calls[k])
    BY <2>3
  <2>5. f[x] = <<i - B, 2 * l>> /\ f[y] = <<j - B, 2 * k>>
    BY <1>5, <2>2, <2>4
  <2> DEFINE a == i - B
             b == j - B
             c == 2 * l
             e == 2 * k
  <2>a. <<a, c>> = <<b, e>>
    BY <1>10, <2>5
  <2> HIDE DEF a, b, c, e
  <2>b. a = b /\ c = e
    BY <2>a
  <2>6. i - B = j - B /\ 2 * l = 2 * k
    BY <2>b DEF a, b, c, e
  <2>7. i \in Nat /\ j \in Nat /\ Len(h[i].calls) \in Nat /\ Len(h[j].calls) \in Nat
    BY <1>2
  <2>8. l \in Nat /\ k \in Nat
    BY <2>7
  <2>9. i = j /\ l = k
    BY <1>0, <2>6, <2>7, <2>8
  <2> QED
    BY <2>2, <2>4, <2>9
<1>11. M = {} <=> A = {}
  BY <1>7, <1>9
<1>12. Churns(M, FilesOf(last)) <=> Churns(A, EditedFiles(h))
  <2>1. Renames(f, A, M, EditedFiles(h), FilesOf(last))
    <3>1. \A a \in A : FilesOf(last)[f[a]] = EditedFiles(h)[a]
      BY <1>7
    <3>2. \A x, y \in A : f[x] = f[y] => x = y
      BY <1>10
    <3>3. IsFiniteSet(A) /\ \A m \in M : \E d \in A : f[d] = m
      BY <1>1, <1>9
    <3> QED
      BY <1>8, <3>1, <3>2, <3>3 DEF Renames
  <2> QED
    BY <2>1, RenamedChurns
<1> QED
  BY <1>11, <1>12 DEF M, A

LEMMA NoProgressIsTold ==
    ASSUME NEW g \in Seq(Turns), NEW t \in Turns, NEW w, LastIs(w, g, OpenStat(t))
    PROVE  NoProgress(w) <=> MadeNoProgress(Append(g, t))
<1> DEFINE h == Append(g, t)
           n == Len(h)
           K == NoProgressThreshold
           G == Gather(w)
<1>1. h \in Seq(Turns) /\ n = Len(g) + 1 /\ n \in Nat /\ K \in Nat /\ K >= 1 /\ \A i \in 1..n - 1 : h[i] = g[i]
  BY StuckAssumption
<1>2. w \in Seq(Emitted) /\ G \in Seq(SomeStats) /\ Len(G) = n /\ G[n] = OpenStat(t)
      /\ \A i \in 1..n - 1 : G[i] = StatOf(h[i])
  <2>1. w \in Seq(Emitted) /\ G \in Seq(SomeStats)
    BY WalkTypes DEF LastIs, WalksTyped
  <2>2. Len(G) = Len(g) + 1 /\ G[Len(g) + 1] = OpenStat(t) /\ \A i \in 1..Len(g) : G[i] = StatOf(g[i])
    BY DEF LastIs
  <2>3. n - 1 = Len(g)
    BY <1>1
  <2> HIDE DEF G, n, h
  <2> QED
    BY <1>1, <2>1, <2>2, <2>3
<1> HIDE DEF h, n, G
<1>3. CASE n < K
  <2>1. ~NoProgress(w)
    BY <1>1, <1>2, <1>3, NoProgressIsIdle DEF G
  <2>2. ~MadeNoProgress(h)
    BY <1>1, <1>3, MadeNoProgressIs DEF n
  <2> QED
    BY <2>1, <2>2 DEF h
<1>4. CASE n >= K
  <2> DEFINE B == n - K
             last == LastOf(G, K)
  <2>1. B \in Nat /\ B + K = n
    BY <1>1, <1>4
  <2> HIDE DEF K
  <2>2. last = From(G, n - K + 1) /\ n - K + 1 \in 1..n + 1
    <3>1. G \in Seq(SomeStats) /\ K \in Nat /\ K <= Len(G) /\ Len(G) = n
      BY <1>1, <1>2, <1>4
    <3>2. last = From(G, Len(G) - K + 1) /\ Len(G) - K + 1 \in 1..Len(G) + 1
      BY <3>1, LastAreFromAPlace
    <3> HIDE DEF last
    <3> QED
      BY <3>1, <3>2
  <2>3. last \in Seq(SomeStats) /\ Len(last) = K /\ \A j \in 1..K : last[j] = G[B + j]
    <3> DEFINE p == n - K + 1
    <3>1. p \in 1..Len(G) + 1 /\ Len(G) - p + 1 = K /\ \A j \in 1..K : p + j - 1 = B + j
      BY <1>1, <1>2, <2>2
    <3> HIDE DEF p
    <3>0. G \in Seq(SomeStats) /\ p \in 1..Len(G) + 1
      BY <1>2, <3>1
    <3>2. From(G, p) \in Seq(SomeStats) /\ Len(From(G, p)) = Len(G) - p + 1
          /\ \A i \in 1..Len(G) - p + 1 : From(G, p)[i] = G[p + i - 1]
      BY <3>0, FromAPlace
    <3>3. From(G, p) \in Seq(SomeStats) /\ Len(From(G, p)) = K /\ \A i \in 1..K : From(G, p)[i] = G[B + i]
      BY <3>1, <3>2
    <3>4. last = From(G, p)
      BY <2>2 DEF p
    <3> HIDE DEF last, B
    <3> QED
      BY <3>3, <3>4
  <2> HIDE DEF last, B
  <2>4. \A j \in 1..K - 1 : last[j] = StatOf(h[B + j])
    <3> SUFFICES ASSUME NEW j \in 1..K - 1 PROVE last[j] = StatOf(h[B + j])
      OBVIOUS
    <3>1. j \in 1..K /\ B + j \in 1..n - 1
      BY <1>1, <2>1
    <3> QED
      BY <1>2, <2>3, <3>1
  <2>5. last[K] = OpenStat(t)
    <3>1. K \in 1..K
      BY <1>1
    <3> QED
      BY <1>2, <2>1, <2>3, <3>1
  <2>6. DOMAIN last = 1..K
    BY <2>3
  <2>7. LastAre(last, h, t, B, n)
    BY <1>1, <2>1, <2>4, <2>5, <2>6 DEF LastAre, n, K
  <2>8. NoProgress(w) <=> Idle(last)
    BY <1>2, <1>4, NoProgressIsIdle DEF G, K, last
  <2>9. MadeNoProgress(h) <=>
             /\ \A i, j \in CheckedOf(h) : i < j => Passed(h[j]) <= Passed(h[i])
             /\ \/ RecentEdits(h) = {}
                \/ CheckedOf(h) # {} /\ Churns(RecentEdits(h), EditedFiles(h))
    BY <1>4, MadeNoProgressIs DEF n, K
  <2>10. Idle(last) <=> MadeNoProgress(h)
    BY <2>7, <2>9, IdleIs, FallsAgree, EditsAgree
  <2> QED
    BY <2>8, <2>10 DEF h
<1>5. n < K \/ n >= K
  BY <1>1
<1> QED
  BY <1>3, <1>4, <1>5

\* What a buffer tells of a history of turns, pattern by pattern.
Told(w, h) ==
    /\ w \in Seq(Emitted) /\ Answered(w)
    /\ \A p : Cardinality(Same(w, p)) = Cardinality(SameIn(Done(h), p))
    /\ LongestTalk(w) >= TalkLimit <=> TalkedOnly(h)
    /\ Alternates(w) <=> WentToAndFro(h)
    /\ NoProgress(w) <=> MadeNoProgress(h)

\* Two calls alternate in the signatures as they do in what was done.
LEMMA AlternatesAsDone ==
    ASSUME NEW w, NEW h, Tells(w, Done(h))
    PROVE  Alternates(w) <=> WentToAndFro(h)
<1> DEFINE d == Done(h)
           sigs == Sigs(w)
           n == Len(d)
           P == PingPong
<1>1. d \in Seq(Deeds) /\ w \in Seq(Emitted) /\ Len(sigs) = n /\ n \in Nat /\ (\A i \in 1..n : sigs[i] = CallOf(d[i]))
      /\ P \in Nat /\ P >= 2
  BY StuckAssumption DEF Tells
<1>2. Alternates(w) <=> \E s \in Nat : AltAt(sigs, s)
  BY <1>1, AlternatesAt
<1>3. \A i, j \in 1..n : sigs[i] = sigs[j] <=> Signature(d[i]) = Signature(d[j])
  <2>1. ASSUME NEW x, NEW y PROVE CallOf(x) = CallOf(y) <=> Signature(x) = Signature(y)
    <3> DEFINE a == x.action.tool
               b == y.action.tool
               c == Input(x.action)
               e == Input(y.action)
               k == "tool_call"
    <3> HIDE DEF a, b, c, e, k
    <3>1. [type |-> k, name |-> a, input |-> c] = [type |-> k, name |-> b, input |-> e] <=> a = b /\ c = e
      OBVIOUS
    <3>2. [tool |-> a, input |-> c] = [tool |-> b, input |-> e] <=> a = b /\ c = e
      OBVIOUS
    <3>3. CallOf(x) = [type |-> k, name |-> a, input |-> c] /\ CallOf(y) = [type |-> k, name |-> b, input |-> e]
      BY DEF CallOf, a, b, c, e, k
    <3>4. Signature(x) = [tool |-> a, input |-> c] /\ Signature(y) = [tool |-> b, input |-> e]
      BY DEF Signature, a, b, c, e
    <3> QED
      BY <3>1, <3>2, <3>3, <3>4
  <2> QED
    BY <1>1, <2>1
<1>4. WentToAndFro(h) <=> \E i \in 1..n - P + 1 :
                             /\ Signature(d[i]) # Signature(d[i + 1])
                             /\ \A j \in i + 2..i + P - 1 : Signature(d[j]) = Signature(d[j - 2])
  BY DEF WentToAndFro
<1> HIDE DEF d, n, sigs
<1>5. ASSUME NEW i \in 1..n - P + 1
      PROVE  AltAt(sigs, i) <=> /\ Signature(d[i]) # Signature(d[i + 1])
                                /\ \A j \in i + 2..i + P - 1 : Signature(d[j]) = Signature(d[j - 2])
  <2>1. i \in Nat /\ i \in 1..n /\ i + 1 \in 1..n /\ \A j \in i + 2..i + P - 1 : j \in 1..n /\ j - 2 \in 1..n
    BY <1>1
  <2> HIDE DEF P
  <2>2. AltAt(sigs, i) <=> /\ sigs[i] # sigs[i + 1]
                           /\ \A k \in i + 2..i + P - 1 : sigs[k] = sigs[k - 2]
    BY <1>1, <1>5 DEF AltAt, P
  <2> QED
    BY <1>3, <2>1, <2>2
<1>6. \A i : AltAt(sigs, i) => i \in 1..n - P + 1
  BY <1>1 DEF AltAt
<1>7. \A i \in 1..n - P + 1 : i \in Nat
  BY <1>1
<1> HIDE DEF P
<1>8. (\E s \in Nat : AltAt(sigs, s)) <=> \E i \in 1..n - P + 1 : AltAt(sigs, i)
  BY <1>6, <1>7
<1> QED
  BY <1>2, <1>4, <1>5, <1>8

\* The buffer when the detector looks: the turns before, and the last one's
\* response.
LEMMA BufferTells ==
    ASSUME NEW g \in Seq(Turns), NEW t \in Turns
    PROVE  Told(Trail(g) \o Opening(t), Append(g, t))
<1> DEFINE w == Trail(g) \o Opening(t)
           h == Append(g, t)
<1>1. Tells(w, DoneAll(g)) /\ Done(h) = DoneAll(g)
  BY TrailTells, TurnTells, DoneAllOfOneMore
<1>2. RowIs(w, h)
  BY TrailTalks, TurnTalks
<1>3. LastIs(w, g, OpenStat(t))
  BY TrailGathers, TurnGathers
<1> HIDE DEF w
<1>4. NoProgress(w) <=> MadeNoProgress(h)
  BY <1>3, NoProgressIsTold
<1> HIDE DEF h
<1>5. Tells(w, Done(h))
  BY <1>1
<1>6. Alternates(w) <=> WentToAndFro(h)
  BY <1>5, AlternatesAsDone
<1>7. LongestTalk(w) >= TalkLimit <=> TalkedOnly(h)
  <2>1. h \in Seq(Turns) /\ TalkIs(Row(w).cur, Row(w).max, h)
    BY <1>2 DEF RowIs
  <2> QED
    BY <2>1, TalkIsRead DEF LongestTalk
<1>8. w \in Seq(Emitted) /\ Answered(w) /\ \A p : Cardinality(Same(w, p)) = Cardinality(SameIn(Done(h), p))
  BY <1>5 DEF Tells
<1>9. Told(w, h)
  BY <1>4, <1>6, <1>7, <1>8 DEF Told
<1> QED
  BY <1>9 DEF w, h

\* The patterns of a buffer are those of the turns it tells of.
LEMMA PatternsAreShown ==
    ASSUME NEW w, NEW h, Told(w, h), DOMAIN Done(h) = 1..Len(Done(h))
    PROVE  /\ \A s \in Patterns(w) : Shows(h, s)
           /\ \A s \in AllSignals(h) : Shows(h, s) => s \in Patterns(w)
<1>1. ASSUME NEW p, NEW k \in Nat \ {0} PROVE p \in Repeated(w, k) <=> SameCalls(h, p, k)
  <2>1. w \in Seq(Emitted) /\ Answered(w) /\ Cardinality(Same(w, p)) = Cardinality(SameIn(Done(h), p))
    BY DEF Told
  <2>2. p \in Repeated(w, k) <=> Cardinality(Same(w, p)) >= k
    BY <2>1, RepeatedOf
  <2>3. {i \in DOMAIN Done(h) : PairOf(Done(h)[i]) = p} = SameIn(Done(h), p)
    BY DEF SameIn
  <2> QED
    BY <2>1, <2>2, <2>3 DEF SameCalls
<1>2. SameResult \in Nat \ {0} /\ SameError \in Nat \ {0}
  BY StuckAssumption
<1>3. \A p : /\ p \in RepeatedResult(w) <=> Well(p) /\ SameCalls(h, p, SameResult)
             /\ p \in RepeatedError(w) <=> ~Well(p) /\ SameCalls(h, p, SameError)
  BY <1>1, <1>2 DEF RepeatedResult, RepeatedError
<1>4. \A s : s \in Patterns(w) <=> \/ \E p : p \in RepeatedResult(w) /\ s = <<"RepeatedActionObservation", p>>
                                   \/ \E p : p \in RepeatedError(w) /\ s = <<"RepeatedActionError", p>>
                                   \/ s = <<"Monologue">> /\ LongestTalk(w) >= TalkLimit
                                   \/ s = <<"PingPong">> /\ Alternates(w)
                                   \/ s = <<"NoProgress">> /\ NoProgress(w)
  BY DEF Patterns, Signal
<1>5. /\ \A p : Shows(h, <<"RepeatedActionObservation", p>>) <=> Well(p) /\ SameCalls(h, p, SameResult)
      /\ \A p : Shows(h, <<"RepeatedActionError", p>>) <=> ~Well(p) /\ SameCalls(h, p, SameError)
      /\ Shows(h, <<"Monologue">>) <=> TalkedOnly(h)
      /\ Shows(h, <<"PingPong">>) <=> WentToAndFro(h)
      /\ Shows(h, <<"NoProgress">>) <=> MadeNoProgress(h)
  BY DEF Shows
<1>6. /\ LongestTalk(w) >= TalkLimit <=> TalkedOnly(h)
      /\ Alternates(w) <=> WentToAndFro(h)
      /\ NoProgress(w) <=> MadeNoProgress(h)
  BY DEF Told
<1>7. ASSUME NEW s \in Patterns(w) PROVE Shows(h, s)
  BY <1>3, <1>4, <1>5, <1>6
<1>8. \A s \in AllSignals(h) : \/ \E p : s = <<"RepeatedActionObservation", p>>
                               \/ \E p : s = <<"RepeatedActionError", p>>
                               \/ s = <<"Monologue">> \/ s = <<"PingPong">> \/ s = <<"NoProgress">>
  BY DEF AllSignals, Signal
<1>9. ASSUME NEW s \in AllSignals(h), Shows(h, s) PROVE s \in Patterns(w)
  BY <1>3, <1>4, <1>5, <1>6, <1>8, <1>9
<1> QED
  BY <1>7, <1>9

LEMMA SignalsAreFinite ==
    ASSUME NEW w \in Seq(Emitted), Answered(w)
    PROVE  IsFiniteSet(Patterns(w))
<1> DEFINE C == CallPlaces(w)
           f == [i \in C |-> PairAt(w, <<i, i + 1>>)]
           Q == {f[i] : i \in C}
<1>1. IsFiniteSet(C)
  <2>1. Len(w) \in Nat /\ C \in SUBSET (1..Len(w))
    BY DEF CallPlaces
  <2>2. IsFiniteSet(1..Len(w))
    BY <2>1, FS_Interval
  <2> QED
    BY <2>1, <2>2, FS_Subset
<1>2. \A t : Repeated(w, t) \subseteq Q
  <2>1. Pairs(w) = {<<i, i + 1>> : i \in C}
    BY PairsOf
  <2>2. \A m \in Pairs(w) : PairAt(w, m) \in Q
    BY <2>1
  <2> HIDE DEF Q
  <2> QED
    BY <2>2 DEF Repeated
<1>3. \A k : IsFiniteSet(Signal(k, Q))
  <2> SUFFICES ASSUME NEW k PROVE IsFiniteSet(Signal(k, Q))
    OBVIOUS
  <2> DEFINE S == Signal(k, Q)
             e == [i \in C |-> <<k, f[i]>>]
  <2>1. S = {<<k, p>> : p \in Q}
    BY DEF Signal
  <2>2. e \in Surjection(C, S)
    BY <2>1 DEF Surjection
  <2> HIDE DEF S, e
  <2>3. IsFiniteSet(S)
    BY <1>1, <2>2, FS_Surjection
  <2> QED
    BY <2>3 DEF S
<1> DEFINE a == Signal("RepeatedActionObservation", Q)
           b == Signal("RepeatedActionError", Q)
           c == {<<"Monologue">>}
           d == {<<"PingPong">>}
           g == {<<"NoProgress">>}
<1>4. IsFiniteSet(a) /\ IsFiniteSet(b) /\ IsFiniteSet(c) /\ IsFiniteSet(d) /\ IsFiniteSet(g)
  BY <1>3, FS_Singleton
<1>5. Patterns(w) \in SUBSET (a \cup b \cup c \cup d \cup g)
  <2>1. RepeatedResult(w) \subseteq Q /\ RepeatedError(w) \subseteq Q
    BY <1>2 DEF RepeatedResult, RepeatedError
  <2> HIDE DEF Q
  <2> QED
    BY <2>1 DEF Patterns, Signal
<1> HIDE DEF a, b, c, d, g
<1>6. IsFiniteSet(a \cup b \cup c \cup d \cup g)
  BY <1>4, FS_Union
<1> QED
  BY <1>5, <1>6, FS_Subset

\* A check tells nothing that the whole buffer would not, and all of it when
\* the buffer fits into the window.
LEMMA CheckTellsNoMore ==
    ASSUME NEW w \in Seq(Emitted), Answered(w)
    PROVE  /\ Check(w) \subseteq Patterns(w)
           /\ Len(w) <= Window => Check(w) = Patterns(w)
           /\ IsFiniteSet(Check(w)) /\ Cardinality(Check(w)) \in Nat
<1>1. Len(w) \in Nat /\ Window \in Nat
  BY StuckAssumption
<1>2. CASE Len(w) > Window
  <2>1. LastOf(w, Window) = From(w, Len(w) - Window + 1) /\ Len(w) - Window + 1 \in 1..Len(w) + 1
    BY <1>1, <1>2, LastAreFromAPlace
  <2> DEFINE p == Len(w) - Window + 1
  <2>2. LastOf(w, Window) = From(w, p) /\ p \in 1..Len(w) + 1
    BY <2>1
  <2> HIDE DEF p
  <2>3. Check(w) \subseteq Patterns(w)
    BY <1>2, <2>2, WindowShowsNoMore DEF Check
  <2>4. ~(Len(w) <= Window)
    BY <1>1, <1>2
  <2>5. Check(w) \in SUBSET Patterns(w) /\ IsFiniteSet(Patterns(w))
    BY <2>3, SignalsAreFinite
  <2>6. IsFiniteSet(Check(w))
    BY <2>5, FS_Subset
  <2> QED
    BY <2>3, <2>4, <2>6, FS_CardinalityType
<1>3. CASE ~(Len(w) > Window)
  <2>1. Check(w) = Patterns(w)
    BY <1>3 DEF Check
  <2> QED
    BY <2>1, SignalsAreFinite, FS_CardinalityType
<1> QED
  BY <1>2, <1>3

-----------------------------------------------------------------------------
\* The last check: what it saw, what it told and what the buffer became.
Checked(g, t) ==
    LET seen == Trail(g) \o Opening(t)
    IN  signals = Check(seen) /\ recent = (IF halted THEN seen ELSE seen \o Closing(t))

\* The inductive invariant: the buffer holds what the turns made and the
\* signals are those of the last check, which is one the loop survived as
\* long as it goes on.
StuckInv ==
    /\ turnsTaken \in Seq(Turns) /\ Len(turnsTaken) <= MaxIters /\ halted \in BOOLEAN
    /\ IsFiniteSet(signals) /\ unrecovered \in 0..StuckLimit + Cardinality(signals)
    /\ ~halted => unrecovered < StuckLimit /\ recent = Trail(turnsTaken)
    /\ turnsTaken # <<>> => \E g \in Seq(Turns) : \E t \in Turns : turnsTaken = Append(g, t) /\ Checked(g, t)

LEMMA StuckInvInit == StuckInit => StuckInv
<1> SUFFICES ASSUME StuckInit PROVE StuckInv
  OBVIOUS
<1>1. recent = <<>> /\ signals = {} /\ unrecovered = 0 /\ halted = FALSE /\ turnsTaken = <<>>
  BY DEF StuckInit
<1>2. IsFiniteSet(signals) /\ Cardinality(signals) = 0
  BY <1>1, FS_EmptySet
<1>3. StuckLimit \in Nat \ {0} /\ MaxIters \in Nat
  BY StuckAssumption
<1>4. turnsTaken \in Seq(Turns) /\ Len(turnsTaken) = 0
  BY <1>1
<1>5. recent = Trail(turnsTaken)
  BY <1>1, TrailOfOneMore
<1>6. unrecovered \in 0..StuckLimit + Cardinality(signals) /\ unrecovered < StuckLimit /\ Len(turnsTaken) <= MaxIters
  BY <1>1, <1>2, <1>3, <1>4
<1>7. halted \in BOOLEAN /\ ~halted
  BY <1>1
<1> QED
  BY <1>1, <1>2, <1>4, <1>5, <1>6, <1>7 DEF StuckInv

LEMMA StuckInvStep == StuckInv /\ [StuckNext]_stuckVars => StuckInv'
<1> SUFFICES ASSUME StuckInv, [StuckNext]_stuckVars PROVE StuckInv'
  OBVIOUS
<1>1. CASE UNCHANGED stuckVars
  BY <1>1 DEF stuckVars, StuckInv, Checked
<1>2. ASSUME NEW t \in Turns, Iterate(t) PROVE StuckInv'
  <2>0. PICK g : g = turnsTaken
    OBVIOUS
  <2> DEFINE h == Append(g, t)
             seen == Trail(g) \o Opening(t)
  <2>1. /\ g \in Seq(Turns) /\ ~halted /\ recent = Trail(g) /\ unrecovered \in Nat /\ unrecovered < StuckLimit
        /\ Len(g) < MaxIters /\ StuckLimit \in Nat /\ MaxIters \in Nat /\ Len(g) \in Nat
    BY <1>2, <2>0, StuckAssumption DEF StuckInv, Iterate
  <2>2. /\ turnsTaken' = h /\ signals' = Check(seen) /\ unrecovered' = unrecovered + Cardinality(signals')
        /\ halted' = (unrecovered' >= StuckLimit)
        /\ recent' = IF halted' THEN seen ELSE seen \o Closing(t)
    BY <1>2, <2>0, <2>1 DEF Iterate
  <2>3. seen \in Seq(Emitted) /\ Answered(seen)
    BY <2>1, BufferTells DEF Told
  <2>4. seen \o Closing(t) = Trail(h)
    <3> DEFINE a == Trail(g)
               b == Opening(t)
               c == Closing(t)
    <3>1. a \in Seq(Emitted) /\ b \in Seq(Emitted) /\ c \in Seq(Emitted)
      BY <2>1, TrailOfOneMore, TurnEvents
    <3>2. Trail(h) = a \o Work(t)
      BY <2>1, TrailOfOneMore
    <3> HIDE DEF a, b, c
    <3>3. a \o (b \o c) = (a \o b) \o c
      BY <3>1, InARow
    <3> QED
      BY <3>2, <3>3 DEF Work, a, b, c
  <2>5. h \in Seq(Turns) /\ Len(h) <= MaxIters
    BY <2>1
  <2> HIDE DEF h, seen
  <2>6. IsFiniteSet(signals') /\ Cardinality(signals') \in Nat
    BY <2>2, <2>3, CheckTellsNoMore
  <2> DEFINE k == Cardinality(signals')
  <2>7. k \in Nat /\ unrecovered' = unrecovered + k
    BY <2>2, <2>6
  <2> HIDE DEF k
  <2>8. unrecovered' \in 0..StuckLimit + k
    BY <2>1, <2>7
  <2>9. halted' \in BOOLEAN /\ (~halted' => unrecovered' < StuckLimit)
    <3>1. halted' \in BOOLEAN
      BY <2>2
    <3>2. ~halted' => ~(unrecovered' >= StuckLimit)
      BY <2>2
    <3>3. unrecovered' \in Nat
      BY <2>1, <2>7
    <3>4. ~(unrecovered' >= StuckLimit) => unrecovered' < StuckLimit
      BY <2>1, <3>3
    <3> QED
      BY <3>1, <3>2, <3>4
  <2>10. ~halted' => recent' = Trail(h)
    BY <2>2, <2>4
  <2>11. h = Append(g, t) /\ g \in Seq(Turns) /\ Checked(g, t)'
    <3>1. signals' = Check(seen) /\ recent' = IF halted' THEN seen ELSE seen \o Closing(t)
      BY <2>2
    <3>2. Checked(g, t)'
      BY <3>1 DEF Checked, seen
    <3> QED
      BY <2>1, <3>2 DEF h
  <2>12. \E a \in Seq(Turns) : \E b \in Turns : h = Append(a, b) /\ Checked(a, b)'
    BY <2>11
  <2> QED
    BY <2>2, <2>5, <2>6, <2>8, <2>9, <2>10, <2>12 DEF StuckInv, k
<1> QED
  BY <1>1, <1>2 DEF StuckNext

LEMMA StuckInvIsRight == StuckInv => StuckTypeOK /\ SignalsAreRight
<1> SUFFICES ASSUME StuckInv PROVE StuckTypeOK /\ SignalsAreRight
  OBVIOUS
<1>1. StuckTypeOK
  BY DEF StuckInv, StuckTypeOK
<1>2. ASSUME turnsTaken # <<>>
      PROVE  /\ \A s \in signals : Shows(turnsTaken, s)
             /\ Len(recent) <= Window => \A s \in AllSignals(turnsTaken) : Shows(turnsTaken, s) => s \in signals
  <2>1. PICK g \in Seq(Turns) : \E t \in Turns : turnsTaken = Append(g, t) /\ Checked(g, t)
    BY <1>2 DEF StuckInv
  <2>2. PICK t \in Turns : turnsTaken = Append(g, t) /\ Checked(g, t)
    BY <2>1
  <2> DEFINE w == Trail(g) \o Opening(t)
             h == turnsTaken
  <2>3. Told(w, h)
    BY <2>2, BufferTells
  <2>4. signals = Check(w) /\ recent = (IF halted THEN w ELSE w \o Closing(t)) /\ Closing(t) \in Seq(Emitted)
    BY <2>2, TurnEvents DEF Checked
  <2>5. DOMAIN Done(h) = 1..Len(Done(h))
    <3>1. Done(h) \in Seq(Deeds)
      BY <2>2, DoneAllOfOneMore
    <3> QED
      BY <3>1
  <2> HIDE DEF w, h
  <2>6. w \in Seq(Emitted) /\ Answered(w)
    BY <2>3 DEF Told
  <2>7. /\ \A s \in Patterns(w) : Shows(h, s)
        /\ \A s \in AllSignals(h) : Shows(h, s) => s \in Patterns(w)
    BY <2>3, <2>5, PatternsAreShown
  <2>8. signals \subseteq Patterns(w) /\ (Len(w) <= Window => signals = Patterns(w))
    BY <2>4, <2>6, CheckTellsNoMore
  <2>9. Len(recent) <= Window => Len(w) <= Window
    <3> DEFINE c == Closing(t)
    <3>1. c \in Seq(Emitted) /\ recent = (IF halted THEN w ELSE w \o c) /\ Window \in Nat
      BY <2>4, StuckAssumption
    <3> HIDE DEF c
    <3>2. Len(w) \in Nat /\ Len(c) \in Nat /\ Len(w \o c) = Len(w) + Len(c)
      BY <2>6, <3>1
    <3> QED
      BY <3>1, <3>2
  <2>10. /\ \A s \in signals : Shows(h, s)
         /\ Len(recent) <= Window => \A s \in AllSignals(h) : Shows(h, s) => s \in signals
    BY <2>7, <2>8, <2>9
  <2> QED
    BY <2>10 DEF h
<1> QED
  BY <1>1, <1>2 DEF SignalsAreRight

\* The detector counts its signals, and the loop goes on while they are few
\* (runner.go), for every set of turns.
THEOREM DetectorTypeCorrect == StuckSpec => []StuckTypeOK
<1>1. StuckInv => StuckTypeOK
  BY StuckInvIsRight
<1> QED
  BY <1>1, StuckInvInit, StuckInvStep, PTL DEF StuckSpec

\* What Detector.Check returns are the patterns of the turns before it, and all
\* of them while the buffer fits into the window (detector.go), for every set
\* of turns, every threshold and every window.
THEOREM SignalsAreTheTurns == StuckSpec => []SignalsAreRight
<1>1. StuckInv => SignalsAreRight
  BY StuckInvIsRight
<1> QED
  BY <1>1, StuckInvInit, StuckInvStep, PTL DEF StuckSpec

=============================================================================
