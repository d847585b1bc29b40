------------------------------ MODULE AskGate ------------------------------
(***************************************************************************)
(* The permission gate of a tool call (core/runner/runner.go), the rules   *)
(* it consults (core/permission/evaluator_store.go) and the ask it makes   *)
(* when no rule decides (makeAskCallback and AnswerPermission in           *)
(* server/internal/service/run.go).                                        *)
(*                                                                         *)
(* The loops are those of one root session and its subagents, whose asks   *)
(* are all kept under the root's id; each has session rules of its own.    *)
(* A call is the sequence of keys it is judged by: the parts of a chained  *)
(* bash command, and one key for any other call.  A key stands for itself  *)
(* as a pattern, so wildcards play no part.  NoKey is the empty key that   *)
(* edit, apply_patch and others are judged by.                             *)
(*                                                                         *)
(* The always rules are one set, read and written whole; what concurrent   *)
(* writers do to the file is RuleStore's matter.                           *)
(***************************************************************************)
EXTENDS Integers, Sequences

CONSTANTS
    Loops,     \* agent loops
    Answerers, \* concurrent AnswerPermission calls
    Asks,      \* bound: the asks ever made
    Keys,      \* permission keys
    NoKey,     \* the empty key, which may be one of them
    Calls,     \* what a loop may call
    Answers,   \* what AnswerPermission calls may say: a verdict and a tier
    SpecRule,  \* what the frozen spec's autonomy says of a key
    NoAsk      \* not an ask

Verdicts == {"allow", "deny"}
Tiers == {"once", "session", "always"}
NoAnswer == <<"none", "none">>

ASSUME AskAssumption ==
    /\ Answers \subseteq Verdicts \X Tiers
    /\ SpecRule \in [Keys -> Verdicts \cup {"ask"}]
    /\ Calls \subseteq Seq(Keys) \ {<<>>}
    /\ NoAsk \notin Asks

VARIABLES
    at,        \* where a loop has got to with its call
    call,      \* the keys the call is judged by
    part,      \* the one being judged
    seen,      \* the always rules this judgement has read
    current,   \* the ask the call waits for
    pending,   \* RunService.pendingAsks of the root session
    about,     \* the loop and key of an ask, <<>> while it is unused
    box,       \* the ask's channel, with the tier beside the bool
    rules,     \* EvaluatorWithStore.SessionAllow and SessionDeny
    file,      \* the project's rules in permissions.toml
    answer,    \* an AnswerPermission call: its step, ask and answer
    verdict,   \* history: what the callback returned
    by,        \* history: the answer it took, if any
    said,      \* history: the verdicts that found the ask pending
    told,      \* history: answers reported as delivered
    forbidden  \* history: the keys that were always_deny when the call began
               \* and have been ever since

callVars == <<at, call, part, seen, current, forbidden>>
askVars == <<pending, about, box, verdict, by>>
gateVars == <<callVars, askVars, rules, file, answer, said, told>>

Idle == [step |-> "idle", ask |-> NoAsk, what |-> NoAnswer]

GateInit ==
    /\ at = [l \in Loops |-> "idle"]
    /\ call = [l \in Loops |-> <<>>]
    /\ part = [l \in Loops |-> 1]
    /\ seen = [l \in Loops |-> {}]
    /\ current = [l \in Loops |-> NoAsk]
    /\ pending = {}
    /\ about = [a \in Asks |-> <<>>]
    /\ box = [a \in Asks |-> NoAnswer]
    /\ rules = [l \in Loops |-> {}]
    /\ file = {}
    /\ answer = [c \in Answerers |-> Idle]
    /\ verdict = [a \in Asks |-> "none"]
    /\ by = [a \in Asks |-> NoAnswer]
    /\ said = [a \in Asks |-> {}]
    /\ told = {}
    /\ forbidden = [l \in Loops |-> {}]

-----------------------------------------------------------------------------
(* The gate. *)

\* Evaluate: the first layer with a rule for the key decides, and in a layer
\* deny goes before allow.
Decision(l, k) ==
    LET inFile == {v \in Verdicts : <<k, v>> \in seen[l]}
        inSession == {v \in Verdicts : <<k, v>> \in rules[l]}
    IN  IF "deny" \in inFile THEN "deny"
        ELSE IF "allow" \in inFile THEN "allow"
        ELSE IF "deny" \in inSession THEN "deny"
        ELSE IF "allow" \in inSession THEN "allow"
        ELSE SpecRule[k]

BeginCall(l, c) ==
    /\ at[l] \in {"idle", "ran", "refused"}
    /\ at' = [at EXCEPT ![l] = "judging"]
    /\ call' = [call EXCEPT ![l] = c]
    /\ part' = [part EXCEPT ![l] = 1]
    /\ current' = [current EXCEPT ![l] = NoAsk]
    /\ forbidden' = [forbidden EXCEPT ![l] = {k \in Keys : <<k, "deny">> \in file}]
    /\ UNCHANGED <<seen, askVars, rules, file, answer, said, told>>

\* PersistentStore.Load.
LoadRules(l) ==
    /\ at[l] = "judging"
    /\ at' = [at EXCEPT ![l] = "loaded"]
    /\ seen' = [seen EXCEPT ![l] = file]
    /\ UNCHANGED <<call, part, current, forbidden, askVars, rules, file, answer, said, told>>

\* The part is allowed: the next one is judged, or the tool runs.
Allow(l) ==
    /\ at[l] = "loaded"
    /\ Decision(l, call[l][part[l]]) = "allow"
    /\ seen' = [seen EXCEPT ![l] = {}]
    /\ IF part[l] < Len(call[l])
       THEN /\ part' = [part EXCEPT ![l] = @ + 1]
            /\ at' = [at EXCEPT ![l] = "judging"]
       ELSE /\ at' = [at EXCEPT ![l] = "ran"]
            /\ UNCHANGED part
    /\ UNCHANGED <<call, current, forbidden, askVars, rules, file, answer, said, told>>

Deny(l) ==
    /\ at[l] = "loaded"
    /\ Decision(l, call[l][part[l]]) = "deny"
    /\ at' = [at EXCEPT ![l] = "refused"]
    /\ seen' = [seen EXCEPT ![l] = {}]
    /\ UNCHANGED <<call, part, current, forbidden, askVars, rules, file, answer, said, told>>

\* Nothing decides: the callback registers an ask about this part, and the
\* parts behind it are not judged.
PostAsk(l, a) ==
    /\ at[l] = "loaded"
    /\ Decision(l, call[l][part[l]]) = "ask"
    /\ about[a] = <<>>
    /\ about' = [about EXCEPT ![a] = <<l, call[l][part[l]]>>]
    /\ pending' = pending \cup {a}
    /\ current' = [current EXCEPT ![l] = a]
    /\ at' = [at EXCEPT ![l] = "waiting"]
    /\ seen' = [seen EXCEPT ![l] = {}]
    /\ UNCHANGED <<call, part, forbidden, box, verdict, by, rules, file, answer, said, told>>

\* The callback's select: any of its cases that is ready may be taken.
TakeAnswer(l) ==
    /\ at[l] = "waiting"
    /\ box[current[l]] # NoAnswer
    /\ verdict' = [verdict EXCEPT ![current[l]] = box[current[l]][1]]
    /\ by' = [by EXCEPT ![current[l]] = box[current[l]]]
    /\ box' = [box EXCEPT ![current[l]] = NoAnswer]
    /\ at' = [at EXCEPT ![l] = "leaving"]
    /\ UNCHANGED <<call, part, seen, current, forbidden, pending, about, rules, file, answer, said, told>>

\* A faulty variant: silence is consent.
GiveUp_Allows(l) ==
    /\ at[l] = "waiting"
    /\ verdict' = [verdict EXCEPT ![current[l]] = "allow"]
    /\ at' = [at EXCEPT ![l] = "leaving"]
    /\ UNCHANGED <<call, part, seen, current, forbidden, pending, about, box, by, rules, file, answer, said, told>>

\* A faulty variant: no timer, and nobody who cancels.
GiveUp_NoTimer(l) ==
    /\ FALSE
    /\ at[l] = "waiting"
    /\ verdict' = [verdict EXCEPT ![current[l]] = "deny"]
    /\ at' = [at EXCEPT ![l] = "leaving"]
    /\ UNCHANGED <<call, part, seen, current, forbidden, pending, about, box, by, rules, file, answer, said, told>>

\* The context is or 60 seconds have gone by.
GiveUp(l) ==
    /\ at[l] = "waiting"
    /\ verdict' = [verdict EXCEPT ![current[l]] = "deny"]
    /\ at' = [at EXCEPT ![l] = "leaving"]
    /\ UNCHANGED <<call, part, seen, current, forbidden, pending, about, box, by, rules, file, answer, said, told>>

\* A faulty variant: an ask that nobody answered is left in the table.
Leave_KeepsEntry(l) ==
    /\ at[l] = "leaving"
    /\ pending' = IF by[current[l]] = NoAnswer THEN pending ELSE pending \ {current[l]}
    /\ at' = [at EXCEPT ![l] = IF verdict[current[l]] = "allow" THEN "ran" ELSE "refused"]
    /\ UNCHANGED <<call, part, seen, current, forbidden, about, box, verdict, by, rules, file, answer, said, told>>

\* The deferred delete; the tool then runs if the callback said so.
Leave(l) ==
    /\ at[l] = "leaving"
    /\ pending' = pending \ {current[l]}
    /\ at' = [at EXCEPT ![l] = IF verdict[current[l]] = "allow" THEN "ran" ELSE "refused"]
    /\ UNCHANGED <<call, part, seen, current, forbidden, about, box, verdict, by, rules, file, answer, said, told>>

-----------------------------------------------------------------------------
(* AnswerPermission. *)

\* The ask is looked up; one that is not pending is answered Delivered=false.
LookUp(c, a, w) ==
    /\ answer[c].step = "idle"
    /\ a \in pending
    /\ answer' = [answer EXCEPT ![c] = [step |-> "found", ask |-> a, what |-> w]]
    /\ said' = [said EXCEPT ![a] = @ \cup {w[1]}]
    /\ UNCHANGED <<callVars, askVars, rules, file, told>>

\* AppendSession and PersistentStore.Append, which pass over the empty key.
\* The error of an Append that fails is dropped.
Record(c) ==
    LET a == answer[c].ask
        w == answer[c].what
        rule == <<about[a][2], w[1]>>
    IN  /\ answer[c].step = "found"
        /\ answer' = [answer EXCEPT ![c] = [step |-> "recorded", ask |-> a, what |-> w]]
        /\ IF w[2] = "session" /\ rule[1] # NoKey
           THEN rules' = [rules EXCEPT ![about[a][1]] = @ \cup {rule}]
           ELSE UNCHANGED rules
        /\ \/ w[2] = "always" /\ rule[1] # NoKey /\ file' = file \cup {rule}
           \/ UNCHANGED file
        /\ UNCHANGED <<callVars, askVars, said, told>>

\* A faulty variant: the ask is answered before the rule is recorded.
Deliver_First(c) ==
    LET a == answer[c].ask
        w == answer[c].what
    IN  /\ answer[c].step = "found"
        /\ box[a] = NoAnswer
        /\ box' = [box EXCEPT ![a] = w]
        /\ UNCHANGED <<callVars, pending, about, verdict, by, rules, file, answer, said, told>>

\* A faulty variant: a later answer replaces an earlier one in the channel.
Deliver_Replaces(c) ==
    LET a == answer[c].ask
        w == answer[c].what
    IN  /\ answer[c].step = "recorded"
        /\ answer' = [answer EXCEPT ![c] = Idle]
        /\ box' = [box EXCEPT ![a] = w]
        /\ told' = told \cup {<<a, w>>}
        /\ UNCHANGED <<callVars, pending, about, verdict, by, rules, file, said>>

\* The non-blocking send: Delivered=true if the channel had room.
Deliver(c) ==
    LET a == answer[c].ask
        w == answer[c].what
    IN  /\ answer[c].step = "recorded"
        /\ answer' = [answer EXCEPT ![c] = Idle]
        /\ IF box[a] = NoAnswer
           THEN box' = [box EXCEPT ![a] = w] /\ told' = told \cup {<<a, w>>}
           ELSE UNCHANGED <<box, told>>
        /\ UNCHANGED <<callVars, pending, about, verdict, by, rules, file, said>>

\* `gil permissions remove`.
ForgetRule(r) ==
    /\ r \in file
    /\ file' = file \ {r}
    /\ forbidden' = IF r[2] = "deny" THEN [l \in Loops |-> forbidden[l] \ {r[1]}] ELSE forbidden
    /\ UNCHANGED <<at, call, part, seen, current, askVars, rules, answer, said, told>>

-----------------------------------------------------------------------------
Wake(l) == TakeAnswer(l) \/ GiveUp(l)

LoopStep(l) ==
    \/ \E c \in Calls : BeginCall(l, c)
    \/ LoadRules(l) \/ Allow(l) \/ Deny(l)
    \/ \E a \in Asks : PostAsk(l, a)
    \/ Wake(l) \/ Leave(l)

AnswerStep(c) ==
    \/ \E a \in Asks, w \in Answers : LookUp(c, a, w)
    \/ Record(c) \/ Deliver(c)

GateNext ==
    \/ \E l \in Loops : LoopStep(l)
    \/ \E c \in Answerers : AnswerStep(c)
    \/ \E r \in Keys \X Verdicts : ForgetRule(r)

GateSafety == GateInit /\ [][GateNext]_gateVars

\* The select wakes up, at the latest when its timer fires, and a callback
\* that has an answer returns.
GateFairness == \A l \in Loops : WF_gateVars(Wake(l) \/ Leave(l))

GateSpec == GateSafety /\ GateFairness

-----------------------------------------------------------------------------
(* Properties. *)

GateTypeOK ==
    /\ at \in [Loops -> {"idle", "judging", "loaded", "waiting", "leaving", "ran", "refused"}]
    /\ call \in [Loops -> Calls \cup {<<>>}]
    /\ part \in [Loops -> Nat \ {0}]
    /\ \A l \in Loops : at[l] # "idle" => part[l] \in 1..Len(call[l])
    /\ seen \in [Loops -> SUBSET (Keys \X Verdicts)]
    /\ current \in [Loops -> Asks \cup {NoAsk}]
    /\ pending \subseteq Asks
    /\ about \in [Asks -> (Loops \X Keys) \cup {<<>>}]
    /\ box \in [Asks -> Answers \cup {NoAnswer}]
    /\ rules \in [Loops -> SUBSET (Keys \X Verdicts)]
    /\ file \in SUBSET (Keys \X Verdicts)
    /\ answer \in [Answerers -> [step : {"idle", "found", "recorded"}, ask : Asks \cup {NoAsk},
                                 what : Answers \cup {NoAnswer}]]
    /\ verdict \in [Asks -> Verdicts \cup {"none"}]
    /\ by \in [Asks -> Answers \cup {NoAnswer}]
    /\ said \in [Asks -> SUBSET Verdicts]
    /\ told \subseteq Asks \X Answers
    /\ forbidden \in [Loops -> SUBSET Keys]

\* pendingAsks holds exactly the asks whose callback has not returned: none is
\* left behind, whichever way its callback ended.
PendingIsOpen ==
    \A a \in Asks : a \in pending <=>
        \E l \in Loops : current[l] = a /\ at[l] \in {"waiting", "leaving"}

\* A call that had to ask runs only if some AnswerPermission for that very ask
\* said allow: silence, a stop and answers to other asks never let it through.
RunsOnConsent ==
    \A l \in Loops : at[l] = "ran" /\ current[l] # NoAsk => "allow" \in said[current[l]]

\* A session-tier answer is in the session list by the time the loop acts on
\* it, so its loop never asks about that key again; the empty key cannot be
\* recorded.
AskedOncePerSession ==
    \A a, b \in Asks :
        /\ by[a][2] = "session"
        /\ about[a][2] # NoKey
        /\ about[b] = about[a]
        /\ verdict[b] = "none"
        => a = b

\* Of several answers to an ask that each said "delivered" before it was
\* settled there is only one.
FirstAnswerStands ==
    \A a \in pending : verdict[a] = "none" =>
        \A v, w \in Answers : <<a, v>> \in told /\ <<a, w>> \in told => v = w

\* A call does not run if one of its keys was always_deny throughout.
\* evaluator_store.go: "an explicit "always deny" must never be overridden".
AlwaysDenyHolds ==
    \A l \in Loops : at[l] = "ran" =>
        \A i \in DOMAIN call[l] : call[l][i] \notin forbidden[l]

\* Every ask is settled once, by consent or by default (AskPromise).
Promise == INSTANCE AskPromise WITH
    state <- [a \in Asks |-> IF about[a] = <<>> THEN "unposted"
                             ELSE IF verdict[a] = "none" THEN "open" ELSE verdict[a]]

KeepsPromise == Promise!Spec

=============================================================================
