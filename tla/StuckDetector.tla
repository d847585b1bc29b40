--------------------------- MODULE StuckDetector ---------------------------
(***************************************************************************)
(* Stuck detection (core/stuck/detector.go) as the agent loop drives it    *)
(* (core/runner/runner.go): each iteration emits its events into a buffer, *)
(* the detector looks at the buffer after the provider's response and      *)
(* before the tools run, and each signal counts, as the service wires no   *)
(* recovery strategy.                                                      *)
(*                                                                         *)
(* An action is a tool call's input; of a long one the buffer has the      *)
(* first 512 bytes only, which tell the file but are no JSON any more.     *)
(* The run_error of ContextWindowError ends the loop it is emitted in, so  *)
(* that no buffer ever holds two: the pattern is left out.                 *)
(***************************************************************************)
EXTENDS Integers, Sequences, FiniteSets, FiniteSetsExt, SequencesExt

CONSTANTS
    Turns,      \* what an agent may do in an iteration, see Turn below
    SameResult, \* 4: equal actions with equal results
    SameError,  \* 3: equal actions that fail
    TalkLimit,  \* 3: responses in a row without a tool call
    PingPong,   \* 6: calls that alternate
    NoProgressThreshold,  \* 4: iterations without progress
    OscillationCap,       \* 2: edits of one file that are churn
    Window,     \* 200: events the detector looks at
    StuckLimit, \* 3: signals that end the run
    MaxIters    \* bound: iterations

VARIABLES
    recent,   \* the loop's buffer of events
    signals,  \* what the last check returned
    unrecovered, \* the signals so far
    halted,   \* the loop ended as stuck
    turnsTaken   \* history: the turns taken

stuckVars == <<recent, signals, unrecovered, halted, turnsTaken>>

ASSUME StuckAssumption ==
    /\ {SameResult, SameError, TalkLimit, NoProgressThreshold, OscillationCap, Window, StuckLimit, MaxIters} \subseteq Nat \ {0}
    /\ PingPong \in Nat \ {0, 1}
    /\ \A turn \in Turns :
         /\ turn.passed \in Nat /\ turn.calls \in Seq(Range(turn.calls))
         /\ \A call \in Range(turn.calls) : call.action.long \in BOOLEAN

(* A turn is a sequence of calls, each with an action and the content of   *)
(* its result, or none and the number of checks that passed.  All errors   *)
(* of an action have one content.                                          *)
Passed(turn) == turn.passed
Calls(turn) == turn.calls
Talks(turn) == Calls(turn) = <<>>
Well(result) == result.out # "error"

(* ---------------------------- the events ------------------------------- *)

(* truncateJSON: a long input keeps its head. *)
Input(action) ==
    IF action.long THEN [file |-> action.file, cut |-> TRUE]
    ELSE [file |-> action.file, cut |-> FALSE, body |-> action.body]

CallEvents(call) ==
    << [type |-> "tool_call", name |-> call.action.tool, input |-> Input(call.action)],
       [type |-> "tool_result", name |-> call.action.tool, out |-> call.out] >>

Opening(turn) == << [type |-> "iteration_start"],
                    [type |-> "provider_response", calls |-> Len(Calls(turn))] >>

Closing(turn) ==
    IF Talks(turn)
    THEN << [type |-> "verify_run"], [type |-> "verify_result", passed |-> Passed(turn)] >>
    ELSE FlattenSeq([i \in DOMAIN Calls(turn) |-> CallEvents(Calls(turn)[i])])

(* --------------------------- the detector ------------------------------ *)

(* The results of its tool behind a call. *)
Replies(events, i) ==
    {j \in i + 1..Len(events) : /\ events[i].type = "tool_call" /\ events[j].type = "tool_result"
                                /\ events[j].name = events[i].name}

(* pairToolEvents: the places of a call and the next result of its tool;   *)
(* the walk goes on behind the result.                                     *)
PairUp(walk, look) ==
    IF look.at < walk.next \/ look.replies = {} THEN walk
    ELSE [next |-> Min(look.replies) + 1, found |-> walk.found \cup {<<look.at, Min(look.replies)>>}]

Looks(events) == [i \in 1..Len(events) |-> [at |-> i, replies |-> Replies(events, i)]]
Walk(looks) == FoldLeft(PairUp, [next |-> 1, found |-> {}], looks)
Pairs(events) == Walk(Looks(events)).found
PairAt(events, m) == [call |-> events[m[1]], out |-> events[m[2]].out]

(* The pairs of a call and its result that come so often. *)
Repeated(events, times) ==
    {p \in {PairAt(events, m) : m \in Pairs(events)} :
       Cardinality({m \in Pairs(events) : PairAt(events, m) = p}) >= times}

RepeatedResult(events) == {p \in Repeated(events, SameResult) : Well(p)}
RepeatedError(events) == {p \in Repeated(events, SameError) : ~Well(p)}

(* checkMonologue: the longest row of responses without calls. *)
TalkOn(row, e) ==
    LET cur == CASE e.type = "provider_response" -> IF e.calls = 0 THEN row.cur + 1 ELSE 0
                 [] e.type = "tool_result" -> 0
                 [] OTHER -> row.cur
    IN  [cur |-> cur, max |-> IF cur > row.max THEN cur ELSE row.max]
Row(events) == FoldLeft(TalkOn, [cur |-> 0, max |-> 0], events)
LongestTalk(events) == Row(events).max

(* checkPingPong: from each start, how far two calls alternate. *)
SigOn(sigs, e) == IF e.type = "tool_call" THEN Append(sigs, e) ELSE sigs
Expected(sigs, s, k) == sigs[s + ((k - s) % 2)]
RunFrom(sigs, s) ==
    Min({k \in s..Len(sigs) + 1 : k = Len(sigs) + 1 \/ sigs[k] # Expected(sigs, s, k)}) - s
Sigs(events) == FoldLeft(SigOn, <<>>, events)
Alternates(events) ==
    LET sigs == Sigs(events)
    IN  \E s \in 1..Len(sigs) - PingPong + 1 : sigs[s] # sigs[s + 1] /\ RunFrom(sigs, s) >= PingPong

EditTools == {"edit", "write_file", "apply_patch"}

(* extractEditedPath: a cut input is no JSON and has no path.  The edit    *)
(* counts if the next result of its tool is no error.                      *)
Edits(events) ==
    {i \in DOMAIN events : /\ Replies(events, i) # {} /\ Well(events[Min(Replies(events, i))])
                           /\ events[i].name \in EditTools /\ ~events[i].input.cut}

NewStat == [verified |-> FALSE, passing |-> 0, events |-> <<>>]

(* collectNoProgressStats: one entry per iteration_start; what comes       *)
(* before the first is dropped.                                            *)
WithEvent(stat, e) ==
    [verified |-> stat.verified \/ e.type = "verify_run",
     passing |-> stat.passing + (IF e.type = "verify_result" THEN e.passed ELSE 0),
     events |-> Append(stat.events, e)]
GatherOn(stats, e) ==
    CASE e.type = "iteration_start" -> Append(stats, NewStat)
      [] e.type # "iteration_start" /\ stats # <<>> -> [stats EXCEPT ![Len(stats)] = WithEvent(@, e)]
      [] OTHER -> stats
Gather(events) == FoldLeft(GatherOn, <<>>, events)

(* A faulty variant: the iteration that is going on is never closed.       *)
Stats_DropsLast(events) == IF Gather(events) = <<>> THEN <<>> ELSE Front(Gather(events))

(* The last iteration counts, though its calls are still to come. *)
Stats(events) == Gather(events)

LastOf(s, n) == SubSeq(s, Len(s) - n + 1, Len(s))

NoProgress(events) ==
    LET last == LastOf(Stats(events), NoProgressThreshold)
        trace == {j \in DOMAIN last : last[j].verified}
        merged == UNION {{j} \X Edits(last[j].events) : j \in DOMAIN last}
        File(m) == last[m[1]].events[m[2]].input.file
        churns == \E m \in merged : Cardinality({n \in merged : File(n) = File(m)}) >= OscillationCap
    IN  /\ Len(Stats(events)) >= NoProgressThreshold
        /\ trace = {} => merged = {}
        /\ \A i, j \in trace : i < j /\ trace \cap (i + 1..j - 1) = {} => last[j].passing <= last[i].passing
        /\ merged = {} \/ churns

Signal(pattern, pairs) == {<<pattern, p>> : p \in pairs}

(* Check, on the last events of the buffer. *)
Patterns(events) ==
    Signal("RepeatedActionObservation", RepeatedResult(events))
    \cup Signal("RepeatedActionError", RepeatedError(events))
    \cup (IF LongestTalk(events) >= TalkLimit THEN {<<"Monologue">>} ELSE {})
    \cup (IF Alternates(events) THEN {<<"PingPong">>} ELSE {})
    \cup (IF NoProgress(events) THEN {<<"NoProgress">>} ELSE {})
Check(buffer) == Patterns(IF Len(buffer) > Window THEN LastOf(buffer, Window) ELSE buffer)

(* ----------------------------- the loop -------------------------------- *)

StuckInit ==
    /\ recent = <<>> /\ signals = {} /\ unrecovered = 0 /\ halted = FALSE /\ turnsTaken = <<>>

Iterate(turn) ==
    /\ ~halted /\ Len(turnsTaken) < MaxIters
    /\ LET seen == recent \o Opening(turn)
       IN  /\ signals' = Check(seen)
           /\ unrecovered' = unrecovered + Cardinality(signals')
           /\ halted' = (unrecovered' >= StuckLimit)
           /\ recent' = IF halted' THEN seen ELSE seen \o Closing(turn)
    /\ turnsTaken' = Append(turnsTaken, turn)

StuckNext == \E turn \in Turns : Iterate(turn)

StuckSpec == StuckInit /\ [][StuckNext]_stuckVars

-----------------------------------------------------------------------------

StuckTypeOK ==
    /\ turnsTaken \in Seq(Turns) /\ Len(turnsTaken) <= MaxIters
    /\ halted \in BOOLEAN /\ unrecovered \in 0..StuckLimit + Cardinality(signals)

(* What has been done when the detector looks at a history of turns: the   *)
(* last turn has only its response.                                        *)
Done(turns) == FlattenSeq([i \in 1..Len(turns) - 1 |-> Calls(turns[i])])
LastTurns(turns) == Len(turns) - NoProgressThreshold + 1..Len(turns) - 1

Signature(call) == [tool |-> call.action.tool, input |-> Input(call.action)]
PairOf(call) == [call |-> CallEvents(call)[1], out |-> call.out]

(* The patterns, told from the turns and not from the events.              *)
SameCalls(turns, pair, times) ==
    Cardinality({i \in DOMAIN Done(turns) : PairOf(Done(turns)[i]) = pair}) >= times
TalkedOnly(turns) ==
    \E i \in TalkLimit..Len(turns) : \A j \in i - TalkLimit + 1..i : Talks(turns[j])
WentToAndFro(turns) ==
    \E i \in 1..Len(Done(turns)) - PingPong + 1 :
        /\ Signature(Done(turns)[i]) # Signature(Done(turns)[i + 1])
        /\ \A j \in i + 2..i + PingPong - 1 : Signature(Done(turns)[j]) = Signature(Done(turns)[j - 2])
VisibleEdit(call) == Well(call) /\ call.action.tool \in EditTools /\ ~call.action.long
RecentEdits(turns) ==
    {d \in UNION {{i} \X DOMAIN Calls(turns[i]) : i \in LastTurns(turns)} : VisibleEdit(Calls(turns[d[1]])[d[2]])}
MadeNoProgress(turns) ==
    LET checked == {i \in LastTurns(turns) : Talks(turns[i])}
        edits == RecentEdits(turns)
        File(d) == Calls(turns[d[1]])[d[2]].action.file
    IN  /\ Len(turns) >= NoProgressThreshold
        /\ \A i, j \in checked : i < j => Passed(turns[j]) <= Passed(turns[i])
        /\ \/ edits = {}
           \/ checked # {} /\ \E d \in edits : Cardinality({c \in edits : File(c) = File(d)}) >= OscillationCap

Shows(turns, s) ==
    CASE s[1] = "RepeatedActionObservation" -> Well(s[2]) /\ SameCalls(turns, s[2], SameResult)
      [] s[1] = "RepeatedActionError" -> ~Well(s[2]) /\ SameCalls(turns, s[2], SameError)
      [] s[1] = "Monologue" -> TalkedOnly(turns)
      [] s[1] = "PingPong" -> WentToAndFro(turns)
      [] s[1] = "NoProgress" -> MadeNoProgress(turns)
AllSignals(turns) ==
    LET pairs == {PairOf(call) : call \in Range(Done(turns))}
    IN  Signal("RepeatedActionObservation", pairs) \cup Signal("RepeatedActionError", pairs)
        \cup {<<"Monologue">>, <<"PingPong">>, <<"NoProgress">>}

(* The signals of a check are the patterns of the turns before it, and all *)
(* of them while the buffer fits into the window: the cut at the window's  *)
(* start, the pairing of calls and results and the half iteration at the   *)
(* end make no signal and hide none.                                       *)
SignalsAreRight ==
    turnsTaken # <<>> =>
        /\ \A s \in signals : Shows(turnsTaken, s)
        /\ Len(recent) <= Window => \A s \in AllSignals(turnsTaken) : Shows(turnsTaken, s) => s \in signals

(* "expected NO NoProgress when no verify events but files ARE modified"   *)
(* (core/stuck/detector_test.go:383): an agent that has edited a file in   *)
(* the iterations looked at, and not verified, is not told to be stuck.    *)
EditingIsNotStuck ==
    <<"NoProgress">> \in signals =>
        \/ \E i \in LastTurns(turnsTaken) : Talks(turnsTaken[i])
        \/ \A i \in LastTurns(turnsTaken) : \A c \in Range(Calls(turnsTaken[i])) : ~(Well(c) /\ c.action.tool \in EditTools)

=============================================================================
