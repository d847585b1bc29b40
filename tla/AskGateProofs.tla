--------------------------- MODULE AskGateProofs ---------------------------
(***************************************************************************)
(* The safety properties of AskGate, and that it implements the safety     *)
(* part of AskPromise, for any numbers of loops, answerers, asks and keys. *)
(*                                                                         *)
(* None of the properties is inductive by itself.  LoopInv ties a loop     *)
(* that waits to the one ask it made, AskInv says where an ask's answer    *)
(* came from and that its rule went before it, and AnswerInv says the same *)
(* of an answer on its way to the channel.                                 *)
(***************************************************************************)
EXTENDS AskGate, TLAPS

\* The rule of a session answer w to the ask a is in its loop's list.
Kept(a, w) ==
    w[2] = "session" /\ about[a][2] # NoKey => <<about[a][2], w[1]>> \in rules[about[a][1]]

LoopInv ==
    \A l \in Loops :
        /\ at[l] \in {"judging", "loaded"} => current[l] = NoAsk
        /\ at[l] \in {"waiting", "leaving"} => current[l] # NoAsk
        /\ current[l] # NoAsk =>
            /\ about[current[l]] # <<>>
            /\ about[current[l]][1] = l
            /\ verdict[current[l]] = "none" <=> at[l] = "waiting"
            /\ at[l] = "ran" => verdict[current[l]] = "allow"

AskInv ==
    \A a \in Asks :
        /\ about[a] = <<>> =>
            /\ verdict[a] = "none"
            /\ by[a] = NoAnswer
            /\ box[a] = NoAnswer
            /\ said[a] = {}
            /\ \A w \in Answers : <<a, w>> \notin told
        /\ about[a] # <<>> /\ verdict[a] = "none" => \E l \in Loops : current[l] = a /\ at[l] = "waiting"
        /\ verdict[a] = "allow" => "allow" \in said[a]
        /\ by[a] # NoAnswer => verdict[a] # "none" /\ Kept(a, by[a])
        /\ box[a] # NoAnswer => box[a][1] \in said[a] /\ Kept(a, box[a])
        /\ verdict[a] = "none" => \A w \in Answers : <<a, w>> \in told => box[a] = w

AnswerInv ==
    \A c \in Answerers : answer[c].step # "idle" =>
        /\ answer[c].ask \in Asks
        /\ answer[c].what \in Answers
        /\ about[answer[c].ask] # <<>>
        /\ answer[c].what[1] \in said[answer[c].ask]
        /\ answer[c].step = "recorded" => Kept(answer[c].ask, answer[c].what)

GateInv ==
    GateTypeOK /\ LoopInv /\ AskInv /\ AnswerInv /\ PendingIsOpen /\ AskedOncePerSession

LEMMA GateInitially == GateInit => GateInv
<1> SUFFICES ASSUME GateInit PROVE GateInv
  OBVIOUS
<1> USE DEF GateInit
<1>1. GateTypeOK
  BY DEF GateTypeOK, Idle, Verdicts
<1>2. LoopInv /\ AskInv /\ AnswerInv
  BY DEF LoopInv, AskInv, AnswerInv, Kept, NoAnswer, Idle
<1>3. PendingIsOpen /\ AskedOncePerSession
  BY DEF PendingIsOpen, AskedOncePerSession, NoAnswer
<1> QED
  BY <1>1, <1>2, <1>3 DEF GateInv

\* Asks have one loop each.
LEMMA OneLoopPerAsk ==
    ASSUME LoopInv, NEW l \in Loops, NEW m \in Loops, current[l] # NoAsk, current[m] = current[l]
    PROVE  l = m
BY DEF LoopInv

LEMMA SpecRuleType == \A k \in Keys : SpecRule[k] \in Verdicts \cup {"ask"}
BY AskAssumption

LEMMA AnswerType == \A w \in Answers : w \in Verdicts \X Tiers /\ w[1] \in Verdicts /\ w # NoAnswer
BY AskAssumption DEF Verdicts, NoAnswer

\* The part that is being judged is one of the call's keys.
LEMMA PartIsAKey ==
    ASSUME GateTypeOK, NEW l \in Loops, at[l] # "idle"
    PROVE  Len(call[l]) \in Nat /\ part[l] \in 1..Len(call[l]) /\ call[l][part[l]] \in Keys
<1>1. call[l] \in Seq(Keys) \/ call[l] = <<>>
  BY AskAssumption DEF GateTypeOK
<1>2. call[l] \in Seq(Keys)
  <2>1. <<>> \in Seq(Keys)
    OBVIOUS
  <2> QED
    BY <1>1, <2>1
<1>3. part[l] \in 1..Len(call[l])
  BY DEF GateTypeOK
<1> QED
  BY <1>2, <1>3

\* An ask is made only about a key that no session rule decides.
LEMMA AskMeansNoRule ==
    ASSUME NEW l, NEW k, Decision(l, k) = "ask"
    PROVE  \A v \in Verdicts : <<k, v>> \notin rules[l]
BY DEF Decision, Verdicts

-----------------------------------------------------------------------------
(* The loop's steps. *)

\* Steps of a loop between calls, or still judging one, leave the asks alone.
LEMMA JudgeKeeps ==
    ASSUME GateInv, NEW l \in Loops,
           (\E c \in Calls : BeginCall(l, c)) \/ LoadRules(l) \/ Allow(l) \/ Deny(l)
    PROVE  GateInv'
<1> USE DEF GateInv
<1>1. UNCHANGED <<askVars, rules, file, answer, said, told>>
  BY DEF BeginCall, LoadRules, Allow, Deny
<1>2. /\ \A m \in Loops \ {l} : at'[m] = at[m] /\ current'[m] = current[m]
      /\ current'[l] = NoAsk
      /\ at[l] \notin {"waiting", "leaving"}
      /\ at'[l] \in {"judging", "loaded", "ran", "refused"}
  BY DEF BeginCall, LoadRules, Allow, Deny, GateTypeOK, LoopInv
<1>3. GateTypeOK'
  <2>1. CASE \E c \in Calls : BeginCall(l, c)
    BY <2>1, AskAssumption DEF GateTypeOK, BeginCall, askVars
  <2>2. CASE LoadRules(l)
    BY <2>2 DEF GateTypeOK, LoadRules, askVars
  <2>3. CASE Allow(l)
    <3>1. /\ at[l] = "loaded" /\ seen' = [seen EXCEPT ![l] = {}]
          /\ \/ /\ part[l] < Len(call[l])
                /\ part' = [part EXCEPT ![l] = @ + 1] /\ at' = [at EXCEPT ![l] = "judging"]
             \/ at' = [at EXCEPT ![l] = "ran"] /\ UNCHANGED part
          /\ UNCHANGED <<call, current, forbidden, askVars, rules, file, answer, said, told>>
      BY <2>3 DEF Allow
    <3>2. Len(call[l]) \in Nat /\ part[l] \in 1..Len(call[l])
      BY <3>1, PartIsAKey
    <3>3. \A m \in Loops \ {l} : at'[m] = at[m] /\ part'[m] = part[m]
      BY <3>1 DEF GateTypeOK
    <3>4. part'[l] \in 1..Len(call[l]) /\ part' \in [Loops -> Nat \ {0}]
      <4>1. part[l] \in Nat \ {0} /\ part \in [Loops -> Nat \ {0}]
        BY DEF GateTypeOK
      <4>2. CASE part[l] < Len(call[l]) /\ part' = [part EXCEPT ![l] = @ + 1]
        BY <4>1, <4>2, <3>2
      <4>3. CASE UNCHANGED part
        BY <4>1, <4>3, <3>2
      <4> QED
        BY <4>2, <4>3, <3>1
    <3>5. \A m \in Loops : at'[m] # "idle" => part'[m] \in 1..Len(call'[m])
      BY <3>1, <3>3, <3>4 DEF GateTypeOK
    <3> QED
      BY <3>1, <3>4, <3>5 DEF GateTypeOK, askVars
  <2>4. CASE Deny(l)
    BY <2>4 DEF GateTypeOK, Deny, askVars
  <2> QED
    BY <2>1, <2>2, <2>3, <2>4
<1>4. LoopInv'
  BY <1>1, <1>2 DEF LoopInv, askVars
<1>5. \A a \in Asks, m \in Loops :
        current'[m] = a /\ at'[m] \in {"waiting", "leaving"} <=> current[m] = a /\ at[m] \in {"waiting", "leaving"}
  BY <1>2
<1>6. \A a \in Asks, m \in Loops : current'[m] = a /\ at'[m] = "waiting" <=> current[m] = a /\ at[m] = "waiting"
  BY <1>2
<1>7. AskInv' /\ AnswerInv'
  BY <1>1, <1>6, SMTT(30) DEF AskInv, AnswerInv, Kept, askVars
<1>8. PendingIsOpen' /\ AskedOncePerSession'
  BY <1>1, <1>5 DEF PendingIsOpen, AskedOncePerSession, askVars
<1> QED
  BY <1>3, <1>4, <1>7, <1>8

LEMMA PostKeeps ==
    ASSUME GateInv, NEW l \in Loops, NEW a \in Asks, PostAsk(l, a)
    PROVE  GateInv'
<1> USE DEF GateInv
<1> DEFINE k == call[l][part[l]]
<1>1. /\ at[l] = "loaded" /\ Decision(l, k) = "ask" /\ about[a] = <<>>
      /\ about' = [about EXCEPT ![a] = <<l, k>>]
      /\ pending' = pending \cup {a}
      /\ current' = [current EXCEPT ![l] = a]
      /\ at' = [at EXCEPT ![l] = "waiting"]
      /\ seen' = [seen EXCEPT ![l] = {}]
      /\ UNCHANGED <<call, part, forbidden, box, verdict, by, rules, file, answer, said, told>>
  BY DEF PostAsk
<1> HIDE DEF k
<1>2. k \in Keys
  BY <1>1, PartIsAKey DEF k
<1>3. GateTypeOK'
  BY <1>1, <1>2 DEF GateTypeOK
<1>4. a # NoAsk /\ current[l] = NoAsk /\ \A m \in Loops : current[m] # a
  BY <1>1, AskAssumption DEF LoopInv, GateTypeOK
<1>5. /\ \A m \in Loops \ {l} : at'[m] = at[m] /\ current'[m] = current[m]
      /\ at'[l] = "waiting" /\ current'[l] = a
      /\ about'[a] = <<l, k>> /\ \A b \in Asks \ {a} : about'[b] = about[b]
  BY <1>1 DEF GateTypeOK
<1>6. LoopInv'
  BY <1>1, <1>4, <1>5 DEF LoopInv, AskInv, GateTypeOK
<1>7. \A b \in Asks : \A w : b # a => (Kept(b, w) <=> Kept(b, w)')
  BY <1>1, <1>5 DEF Kept
<1>8. AskInv'
  <2> SUFFICES ASSUME NEW b \in Asks PROVE AskInv!(b)'
    BY DEF AskInv
  <2>1. CASE b = a
    BY <2>1, <1>1, <1>5 DEF AskInv
  <2>2. CASE b # a
    BY <2>2, <1>1, <1>4, <1>5, <1>7 DEF AskInv, GateTypeOK
  <2> QED
    BY <2>1, <2>2
<1>9. AnswerInv'
  BY <1>1, <1>5, <1>7 DEF AnswerInv, GateTypeOK
<1>10. PendingIsOpen'
  BY <1>1, <1>4, <1>5 DEF PendingIsOpen
<1>11. AskedOncePerSession'
  <2> SUFFICES ASSUME NEW x \in Asks, NEW y \in Asks, by[x][2] = "session", about'[x][2] # NoKey,
                      about'[y] = about'[x], verdict[y] = "none"
               PROVE  x = y
    BY <1>1 DEF AskedOncePerSession
  <2>1. about[x] # <<>> /\ by[x] \in Answers /\ by[x] # NoAnswer
    BY DEF AskInv, GateTypeOK, NoAnswer
  <2>2. x # a
    BY <1>1, <2>1
  <2>3. CASE y = a
    <3>1. about[x] = <<l, k>>
      BY <2>2, <2>3, <1>5
    <3>2. k # NoKey /\ Kept(x, by[x])
      BY <2>1, <2>2, <3>1, <1>5 DEF AskInv
    <3>3. by[x][1] \in Verdicts
      BY <2>1, AnswerType
    <3> QED
      BY <3>1, <3>2, <3>3, <1>1, AskMeansNoRule DEF Kept
  <2>4. CASE y # a
    BY <2>2, <2>4, <1>5 DEF AskedOncePerSession
  <2> QED
    BY <2>3, <2>4
<1> QED
  BY <1>3, <1>6, <1>8, <1>9, <1>10, <1>11

LEMMA WakeKeeps ==
    ASSUME GateInv, NEW l \in Loops, Wake(l)
    PROVE  GateInv'
<1> USE DEF GateInv
<1> DEFINE a == current[l]
<1>1. /\ at[l] = "waiting"
      /\ at' = [at EXCEPT ![l] = "leaving"]
      /\ UNCHANGED <<call, part, seen, current, forbidden, pending, about, rules, file, answer, said, told>>
  BY DEF Wake, TakeAnswer, GiveUp
<1>2. \/ /\ box[a] # NoAnswer
         /\ verdict' = [verdict EXCEPT ![a] = box[a][1]]
         /\ by' = [by EXCEPT ![a] = box[a]]
         /\ box' = [box EXCEPT ![a] = NoAnswer]
      \/ /\ verdict' = [verdict EXCEPT ![a] = "deny"]
         /\ UNCHANGED <<box, by>>
  BY DEF Wake, TakeAnswer, GiveUp
<1> HIDE DEF a
<1>3. a \in Asks /\ a = current[l] /\ a # NoAsk /\ verdict[a] = "none" /\ by[a] = NoAnswer /\ about[a] # <<>> /\ about[a][1] = l
  BY <1>1 DEF a, LoopInv, AskInv, GateTypeOK
<1>4. /\ \A b \in Asks \ {a} : verdict'[b] = verdict[b] /\ by'[b] = by[b] /\ box'[b] = box[b]
      /\ verdict'[a] \in Verdicts
      /\ by'[a] # NoAnswer => by'[a] = box[a] /\ box[a] # NoAnswer /\ verdict'[a] = box[a][1]
      /\ verdict'[a] = "allow" => box[a] # NoAnswer /\ box[a][1] = "allow"
      /\ box'[a] \in {box[a], NoAnswer}
  BY <1>2, <1>3, AskAssumption DEF GateTypeOK, Verdicts, NoAnswer
<1>5. GateTypeOK'
  <2>1. box[a] # NoAnswer => box[a] \in Answers /\ box[a][1] \in Verdicts
    BY <1>3, AnswerType DEF GateTypeOK
  <2>2. verdict' \in [Asks -> Verdicts \cup {"none"}]
    BY <1>2, <1>3, <2>1 DEF GateTypeOK, Verdicts
  <2>3. by' \in [Asks -> Answers \cup {NoAnswer}] /\ box' \in [Asks -> Answers \cup {NoAnswer}]
    BY <1>2, <1>3, <2>1 DEF GateTypeOK
  <2> QED
    BY <1>1, <2>2, <2>3 DEF GateTypeOK
<1>6. /\ \A m \in Loops \ {l} : at'[m] = at[m] /\ current[m] # a
      /\ at'[l] = "leaving"
  BY <1>1, <1>3, OneLoopPerAsk DEF GateTypeOK
<1>7. LoopInv'
  BY <1>1, <1>3, <1>4, <1>6 DEF LoopInv, GateTypeOK, Verdicts
<1>8. \A b, w : Kept(b, w)' <=> Kept(b, w)
  BY <1>1 DEF Kept
<1>9. AskInv'
  <2> SUFFICES ASSUME NEW b \in Asks PROVE AskInv!(b)'
    BY DEF AskInv
  <2>1. CASE b = a
    BY <2>1, <1>1, <1>3, <1>4, <1>8 DEF AskInv, Verdicts
  <2>2. CASE b # a
    BY <2>2, <1>1, <1>3, <1>4, <1>6, <1>8 DEF AskInv
  <2> QED
    BY <2>1, <2>2
<1>10. AnswerInv'
  BY <1>1, <1>8 DEF AnswerInv
<1>11. PendingIsOpen'
  BY <1>1, <1>3, <1>6 DEF PendingIsOpen
<1>12. AskedOncePerSession'
  <2> SUFFICES ASSUME NEW x \in Asks, NEW y \in Asks, by'[x][2] = "session", about[x][2] # NoKey,
                      about[y] = about[x], verdict'[y] = "none"
               PROVE  x = y
    BY <1>1 DEF AskedOncePerSession
  <2>1. y # a /\ verdict[y] = "none"
    BY <1>4 DEF Verdicts
  <2>2. CASE x = a
    <3>1. PICK m \in Loops : current[m] = y /\ at[m] = "waiting"
      BY <2>1, <2>2, <1>3 DEF AskInv
    <3>2. about[y][1] = m /\ m = l
      BY <3>1, <2>2, <1>3, AskAssumption DEF LoopInv
    <3> QED
      BY <3>1, <3>2, <2>1, <1>3
  <2>3. CASE x # a
    BY <2>1, <2>3, <1>4 DEF AskedOncePerSession
  <2> QED
    BY <2>2, <2>3
<1> QED
  BY <1>5, <1>7, <1>9, <1>10, <1>11, <1>12

LEMMA LeaveKeeps ==
    ASSUME GateInv, NEW l \in Loops, Leave(l)
    PROVE  GateInv'
<1> USE DEF GateInv
<1>1. /\ at[l] = "leaving"
      /\ pending' = pending \ {current[l]}
      /\ at' = [at EXCEPT ![l] = IF verdict[current[l]] = "allow" THEN "ran" ELSE "refused"]
      /\ UNCHANGED <<call, part, seen, current, forbidden, about, box, verdict, by, rules, file, answer, said, told>>
  BY DEF Leave
<1>2. GateTypeOK'
  BY <1>1 DEF GateTypeOK
<1>3. /\ \A m \in Loops \ {l} : at'[m] = at[m]
      /\ at'[l] \in {"ran", "refused"} /\ (at'[l] = "ran" => verdict[current[l]] = "allow")
      /\ current[l] # NoAsk
  BY <1>1 DEF GateTypeOK, LoopInv
<1>4. LoopInv'
  BY <1>1, <1>3 DEF LoopInv
<1>5. AskInv' /\ AnswerInv' /\ AskedOncePerSession'
  <2>1. \A b, w : Kept(b, w)' <=> Kept(b, w)
    BY <1>1 DEF Kept
  <2>2. \A m \in Loops : at'[m] = "waiting" <=> at[m] = "waiting"
    BY <1>1, <1>3
  <2> QED
    BY <1>1, <2>1, <2>2 DEF AskInv, AnswerInv, AskedOncePerSession
<1>6. PendingIsOpen'
  BY <1>1, <1>3, OneLoopPerAsk DEF PendingIsOpen
<1> QED
  BY <1>2, <1>4, <1>5, <1>6

-----------------------------------------------------------------------------
(* AnswerPermission and the rules. *)

LEMMA AnswerKeeps ==
    ASSUME GateInv, NEW c \in Answerers, AnswerStep(c)
    PROVE  GateInv'
<1> USE DEF GateInv
<1>1. UNCHANGED <<callVars, pending, about, verdict, by>>
  BY DEF AnswerStep, LookUp, Record, Deliver, askVars
<1>2. LoopInv' /\ PendingIsOpen' /\ AskedOncePerSession'
  BY <1>1 DEF LoopInv, PendingIsOpen, AskedOncePerSession, callVars
<1>3. CASE \E a \in Asks, w \in Answers : LookUp(c, a, w)
  <2>1. PICK a \in Asks, w \in Answers : LookUp(c, a, w)
    BY <1>3
  <2>2. /\ a \in pending
        /\ answer' = [answer EXCEPT ![c] = [step |-> "found", ask |-> a, what |-> w]]
        /\ said' = [said EXCEPT ![a] = @ \cup {w[1]}]
        /\ UNCHANGED <<callVars, askVars, rules, file, told>>
    BY <2>1 DEF LookUp
  <2>3. GateTypeOK'
    BY <2>2, AskAssumption DEF GateTypeOK, callVars, askVars
  <2>4. \A b, v : Kept(b, v)' <=> Kept(b, v)
    BY <2>2 DEF Kept, askVars
  <2>5. about[a] # <<>>
    BY <2>2 DEF PendingIsOpen, LoopInv
  <2>6. \A b \in Asks : said[b] \subseteq said'[b] /\ (b # a => said'[b] = said[b])
    BY <2>2 DEF GateTypeOK
  <2>7. AskInv'
    BY <2>2, <2>4, <2>5, <2>6 DEF AskInv, callVars, askVars
  <2>8. AnswerInv'
    BY <2>2, <2>4, <2>5, <2>6 DEF AnswerInv, GateTypeOK, callVars, askVars
  <2> QED
    BY <1>2, <2>3, <2>7, <2>8
<1>4. CASE Record(c)
  <2> DEFINE a == answer[c].ask
             w == answer[c].what
             rule == <<about[a][2], w[1]>>
  <2>1. /\ answer[c].step = "found"
        /\ answer' = [answer EXCEPT ![c] = [step |-> "recorded", ask |-> a, what |-> w]]
        /\ IF w[2] = "session" /\ rule[1] # NoKey
           THEN rules' = [rules EXCEPT ![about[a][1]] = @ \cup {rule}]
           ELSE UNCHANGED rules
        /\ file' = file \cup {rule} \/ UNCHANGED file
        /\ UNCHANGED <<callVars, askVars, said, told>>
    BY <1>4 DEF Record
  <2>2. a \in Asks /\ w \in Answers /\ w \in Verdicts \X Tiers /\ about[a] \in Loops \X Keys
    BY <2>1, AskAssumption DEF AnswerInv, GateTypeOK
  <2>3. rule \in Keys \X Verdicts
    BY <2>2
  <2>4. rules' \in [Loops -> SUBSET (Keys \X Verdicts)]
    <3>1. about[a][1] \in Loops
      BY <2>2
    <3>2. \/ UNCHANGED rules
          \/ rules' = [rules EXCEPT ![about[a][1]] = @ \cup {rule}]
      BY <2>1
    <3> HIDE DEF rule, a
    <3>3. rules[about[a][1]] \cup {rule} \in SUBSET (Keys \X Verdicts)
      BY <2>3, <3>1 DEF GateTypeOK
    <3> QED
      BY <3>2, <3>3 DEF GateTypeOK
  <2>5. GateTypeOK'
    <3>1. file' \in SUBSET (Keys \X Verdicts)
      BY <2>1, <2>3 DEF GateTypeOK
    <3>2. answer' \in [Answerers -> [step : {"idle", "found", "recorded"}, ask : Asks \cup {NoAsk},
                                     what : Answers \cup {NoAnswer}]]
      BY <2>1, <2>2 DEF GateTypeOK
    <3> QED
      BY <2>1, <2>4, <3>1, <3>2 DEF GateTypeOK, callVars, askVars
  <2>6. Kept(a, w)'
    <3>1. CASE w[2] = "session" /\ rule[1] # NoKey
      <4>1. rules'[about[a][1]] = rules[about[a][1]] \cup {rule}
        BY <2>1, <2>2, <3>1 DEF GateTypeOK
      <4> QED
        BY <4>1, <2>1 DEF Kept, askVars
    <3>2. CASE ~(w[2] = "session" /\ rule[1] # NoKey)
      BY <3>2, <2>1 DEF Kept, askVars
    <3> QED
      BY <3>1, <3>2
  <2> HIDE DEF a, w, rule
  <2>7. \A l \in Loops : rules[l] \subseteq rules'[l]
    <3> DEFINE o == about[a][1]
    <3>1. UNCHANGED rules \/ rules' = [rules EXCEPT ![o] = @ \cup {rule}]
      BY <2>1
    <3> HIDE DEF o
    <3>2. CASE UNCHANGED rules
      BY <3>2
    <3>3. CASE rules' = [rules EXCEPT ![o] = @ \cup {rule}]
      <4>1. DOMAIN rules = Loops
        BY DEF GateTypeOK
      <4>2. \A l \in Loops : rules'[l] = IF l = o THEN rules[l] \cup {rule} ELSE rules[l]
        BY <3>3, <4>1
      <4> QED
        BY <4>2
    <3> QED
      BY <3>1, <3>2, <3>3
  <2>8. \A b \in Asks : \A v : about[b] # <<>> /\ Kept(b, v) => Kept(b, v)'
    BY <2>1, <2>7 DEF Kept, GateTypeOK, askVars
  <2>9. AskInv'
    BY <2>1, <2>8 DEF AskInv, callVars, askVars
  <2>10. AnswerInv'
    <3> SUFFICES ASSUME NEW d \in Answerers, answer'[d].step # "idle" PROVE AnswerInv!(d)'
      BY DEF AnswerInv
    <3>1. CASE d = c
      BY <3>1, <2>1, <2>2, <2>6 DEF AnswerInv, GateTypeOK, askVars, a, w
    <3>2. CASE d # c
      BY <3>2, <2>1, <2>8 DEF AnswerInv, GateTypeOK, askVars
    <3> QED
      BY <3>1, <3>2
  <2> QED
    BY <1>2, <2>5, <2>9, <2>10
<1>5. CASE Deliver(c)
  <2> DEFINE a == answer[c].ask
             w == answer[c].what
  <2>1. /\ answer[c].step = "recorded"
        /\ answer' = [answer EXCEPT ![c] = Idle]
        /\ IF box[a] = NoAnswer
           THEN box' = [box EXCEPT ![a] = w] /\ told' = told \cup {<<a, w>>}
           ELSE UNCHANGED <<box, told>>
        /\ UNCHANGED <<callVars, pending, about, verdict, by, rules, file, said>>
    BY <1>5 DEF Deliver
  <2>2. a \in Asks /\ w \in Answers /\ about[a] # <<>> /\ w[1] \in said[a] /\ Kept(a, w)
    BY <2>1 DEF AnswerInv, GateTypeOK
  <2> HIDE DEF a, w
  <2>3. GateTypeOK'
    BY <2>1, <2>2, AskAssumption, SMTT(30) DEF GateTypeOK, Idle, callVars
  <2>4. \A b, v : Kept(b, v)' <=> Kept(b, v)
    BY <2>1 DEF Kept
  <2>5. NoAnswer \notin Answers
    BY AskAssumption DEF NoAnswer, Verdicts, Tiers
  <2>6. AskInv'
    <3> SUFFICES ASSUME NEW b \in Asks PROVE AskInv!(b)'
      BY DEF AskInv
    <3>1. CASE b = a
      BY <3>1, <2>1, <2>2, <2>4, <2>5 DEF AskInv, GateTypeOK, callVars
    <3>2. CASE b # a
      BY <3>2, <2>1, <2>2, <2>4 DEF AskInv, GateTypeOK, callVars
    <3> QED
      BY <3>1, <3>2
  <2>7. AnswerInv'
    BY <2>1, <2>4 DEF AnswerInv, GateTypeOK, Idle
  <2> QED
    BY <1>2, <2>3, <2>6, <2>7
<1> QED
  BY <1>3, <1>4, <1>5 DEF AnswerStep

LEMMA ForgetKeeps ==
    ASSUME GateInv, NEW r \in Keys \X Verdicts, ForgetRule(r)
    PROVE  GateInv'
<1> USE DEF GateInv
<1>1. /\ UNCHANGED <<at, call, part, seen, current, askVars, rules, answer, said, told>>
      /\ file' = file \ {r} /\ forbidden' \in [Loops -> SUBSET Keys]
  BY DEF ForgetRule, GateTypeOK
<1>2. GateTypeOK'
  BY <1>1 DEF GateTypeOK, askVars
<1>3. LoopInv' /\ AskInv' /\ AnswerInv'
  BY <1>1, SMTT(30) DEF LoopInv, AskInv, AnswerInv, Kept, askVars
<1>4. PendingIsOpen' /\ AskedOncePerSession'
  BY <1>1 DEF PendingIsOpen, AskedOncePerSession, askVars
<1> QED
  BY <1>2, <1>3, <1>4

LEMMA GateStep == GateInv /\ [GateNext]_gateVars => GateInv'
<1> SUFFICES ASSUME GateInv, [GateNext]_gateVars PROVE GateInv'
  OBVIOUS
<1>1. CASE UNCHANGED gateVars
  <2> USE <1>1 DEF gateVars, callVars, askVars, GateInv
  <2>1. GateTypeOK'
    BY DEF GateTypeOK
  <2>2. LoopInv' /\ PendingIsOpen' /\ AskedOncePerSession'
    BY DEF LoopInv, PendingIsOpen, AskedOncePerSession
  <2>3. \A b, w : Kept(b, w)' <=> Kept(b, w)
    BY DEF Kept
  <2>4. AskInv'
    BY <2>3 DEF AskInv
  <2>5. AnswerInv'
    BY <2>3 DEF AnswerInv
  <2> QED
    BY <2>1, <2>2, <2>4, <2>5
<1>2. ASSUME NEW l \in Loops, LoopStep(l) PROVE GateInv'
  BY <1>2, JudgeKeeps, PostKeeps, WakeKeeps, LeaveKeeps DEF LoopStep
<1>3. ASSUME NEW c \in Answerers, AnswerStep(c) PROVE GateInv'
  BY <1>3, AnswerKeeps
<1>4. ASSUME NEW r \in Keys \X Verdicts, ForgetRule(r) PROVE GateInv'
  BY <1>4, ForgetKeeps
<1> QED
  BY <1>1, <1>2, <1>3, <1>4 DEF GateNext

LEMMA GateHolds == GateSafety => []GateInv
BY GateInitially, GateStep, PTL DEF GateSafety

-----------------------------------------------------------------------------
(* The results. *)

\* Every reachable state of the gate is well typed; in particular a chained
\* command is never judged past its last part.
THEOREM TypeCorrect == GateSafety => []GateTypeOK
<1>1. GateInv => GateTypeOK
  BY DEF GateInv
<1> QED
  BY <1>1, GateHolds, PTL

\* pendingAsks holds an ask for exactly as long as its callback has not
\* returned, whichever way it returns.
THEOREM NoAskIsLeftBehind == GateSafety => []PendingIsOpen
<1>1. GateInv => PendingIsOpen
  BY DEF GateInv
<1> QED
  BY <1>1, GateHolds, PTL

\* A call that asked runs only if an AnswerPermission for that ask said allow.
THEOREM ConsentFirst == GateSafety => []RunsOnConsent
<1>1. GateInv => RunsOnConsent
  BY DEF GateInv, LoopInv, AskInv, RunsOnConsent, GateTypeOK
<1> QED
  BY <1>1, GateHolds, PTL

\* After a "for this session" answer its loop never asks about that key again,
\* unless the key is empty.
THEOREM AskedOnce == GateSafety => []AskedOncePerSession
<1>1. GateInv => AskedOncePerSession
  BY DEF GateInv
<1> QED
  BY <1>1, GateHolds, PTL

\* At most one answer is reported as delivered before the ask is settled.
THEOREM FirstAnswerWins == GateSafety => []FirstAnswerStands
<1>1. GateInv => FirstAnswerStands
  BY DEF GateInv, AskInv, FirstAnswerStands, GateTypeOK
<1> QED
  BY <1>1, GateHolds, PTL

-----------------------------------------------------------------------------
(* AskGate implements AskPromise. *)

StateOf(a) == IF about[a] = <<>> THEN "unposted" ELSE IF verdict[a] = "none" THEN "open" ELSE verdict[a]

\* A step that leaves what an ask is about and its verdict alone is no step of
\* the promise, or a user's Say.
LEMMA SameState ==
    ASSUME UNCHANGED <<about, verdict>>
    PROVE  UNCHANGED [a \in Asks |-> StateOf(a)]
BY DEF StateOf

LEMMA PromiseStep == GateInv /\ [GateNext]_gateVars => [Promise!Next]_<<[a \in Asks |-> StateOf(a)], said>>
<1> SUFFICES ASSUME GateInv, [GateNext]_gateVars
             PROVE  [Promise!Next]_<<[a \in Asks |-> StateOf(a)], said>>
  OBVIOUS
<1> DEFINE st == [a \in Asks |-> StateOf(a)]
<1>1. CASE UNCHANGED <<about, verdict, said>>
  BY <1>1, SameState
<1>2. ASSUME NEW l \in Loops, NEW a \in Asks, PostAsk(l, a) PROVE Promise!Next
  <2>1. about[a] = <<>> /\ about' = [about EXCEPT ![a] = <<l, call[l][part[l]]>>] /\ UNCHANGED <<verdict, said>>
    BY <1>2 DEF PostAsk
  <2>2. verdict[a] = "none"
    BY <2>1 DEF GateInv, AskInv
  <2>3. /\ about'[a] # <<>> /\ \A b \in Asks \ {a} : about'[b] = about[b]
    BY <2>1 DEF GateInv, GateTypeOK
  <2>4. st[a] = "unposted" /\ st' = [st EXCEPT ![a] = "open"]
    BY <2>1, <2>2, <2>3 DEF StateOf
  <2>5. Promise!Post(a)
    BY <2>1, <2>4 DEF Promise!Post, StateOf
  <2> QED
    BY <2>5 DEF Promise!Next
<1>3. ASSUME NEW l \in Loops, Wake(l) PROVE Promise!Next
  <2> DEFINE a == current[l]
  <2>1. /\ at[l] = "waiting" /\ UNCHANGED <<about, said>>
        /\ \/ box[a] # NoAnswer /\ verdict' = [verdict EXCEPT ![a] = box[a][1]]
           \/ verdict' = [verdict EXCEPT ![a] = "deny"]
    BY <1>3 DEF Wake, TakeAnswer, GiveUp
  <2>2. a \in Asks /\ about[a] # <<>> /\ verdict[a] = "none"
    BY <2>1 DEF GateInv, LoopInv, GateTypeOK
  <2>3. PICK v \in Verdicts : v \in said[a] \cup {"deny"} /\ verdict' = [verdict EXCEPT ![a] = v]
    BY <2>1, <2>2, AnswerType DEF GateInv, AskInv, GateTypeOK, Verdicts
  <2>4. v # "none" /\ verdict'[a] = v /\ \A b \in Asks \ {a} : verdict'[b] = verdict[b]
    BY <2>2, <2>3 DEF GateInv, GateTypeOK, Verdicts
  <2>5. st[a] = "open" /\ st' = [st EXCEPT ![a] = v]
    BY <2>1, <2>2, <2>4 DEF StateOf
  <2>6. Promise!Settle(a, v)
    BY <2>1, <2>3, <2>5 DEF Promise!Settle, StateOf
  <2> QED
    BY <2>2, <2>3, <2>6 DEF Promise!Next, Promise!Verdicts, Verdicts
<1>4. ASSUME NEW c \in Answerers, NEW a \in Asks, NEW w \in Answers, LookUp(c, a, w) PROVE Promise!Next
  <2>1. a \in pending /\ said' = [said EXCEPT ![a] = @ \cup {w[1]}] /\ UNCHANGED <<about, verdict>>
    BY <1>4 DEF LookUp, askVars
  <2>2. about[a] # <<>>
    BY <2>1 DEF GateInv, PendingIsOpen, LoopInv, AskInv, GateTypeOK
  <2>3. st[a] # "unposted" /\ UNCHANGED st
    BY <2>1, <2>2, SameState DEF StateOf, GateInv, GateTypeOK, Verdicts
  <2>4. Promise!Say(a, w[1])
    BY <2>1, <2>3 DEF Promise!Say, StateOf
  <2> QED
    BY <2>4, AnswerType DEF Promise!Next, Promise!Verdicts, Verdicts
<1>5. ASSUME NEW l \in Loops, LoopStep(l) PROVE Promise!Next \/ UNCHANGED <<about, verdict, said>>
  BY <1>2, <1>3, <1>5 DEF LoopStep, BeginCall, LoadRules, Allow, Deny, Leave, askVars
<1>6. ASSUME NEW c \in Answerers, AnswerStep(c) PROVE Promise!Next \/ UNCHANGED <<about, verdict, said>>
  BY <1>4, <1>6 DEF AnswerStep, Record, Deliver, askVars
<1>7. ASSUME NEW r \in Keys \X Verdicts, ForgetRule(r) PROVE UNCHANGED <<about, verdict, said>>
  BY <1>7 DEF ForgetRule, askVars
<1>8. CASE UNCHANGED gateVars
  BY <1>8, <1>1 DEF gateVars, askVars
<1> QED
  BY <1>1, <1>5, <1>6, <1>7, <1>8 DEF GateNext

\* An ask is settled once, "allow" only after a user said so and "deny" at any
\* time: every step of the gate is a step of AskPromise or leaves it alone.
THEOREM ImplementsPromise == GateSafety => Promise!Safety
<1>1. GateInit => Promise!Init
  BY DEF GateInit, Promise!Init
<1>2. GateInv /\ [GateNext]_gateVars =>
        [Promise!Next]_<<[a \in Asks |-> IF about[a] = <<>> THEN "unposted"
                                        ELSE IF verdict[a] = "none" THEN "open" ELSE verdict[a]], said>>
  BY PromiseStep DEF StateOf
<1> QED
  BY <1>1, <1>2, GateHolds, PTL DEF GateSafety, Promise!Safety

=============================================================================
