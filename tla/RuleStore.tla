----------------------------- MODULE RuleStore -----------------------------
(***************************************************************************)
(* permissions.toml: Append and Remove of PersistentStore                  *)
(* (core/permission/store.go), called by AnswerPermission with the store   *)
(* of a run, and by gil permissions with one of its own.                   *)
(*                                                                         *)
(* A store's mutex orders the calls of one store, and nothing orders those *)
(* of two.  A rule is a project, a list and a pattern, the file a set of   *)
(* them, which is replaced by a rename, so that no reader sees a part.     *)
(***************************************************************************)

CONSTANTS
    Writers,  \* calls of Append or Remove, one at a time each
    Stores,   \* PersistentStore values
    StoreOf,  \* the store a writer calls
    Rules     \* a project, a list and a pattern each

ASSUME RulesAssumption == StoreOf \in [Writers -> Stores] /\ Rules # {}

VARIABLES
    onDisk,  \* the file
    job,     \* of each writer: where it is, what it is to do, what it has read
    told,    \* history: the rules by what the calls have returned
    crossed  \* history: calls of two stores were at work at a time

ruleVars == <<onDisk, job, told, crossed>>

Jobs == [step : {"idle", "called", "read", "done", "failed"}, adds : BOOLEAN, rule : Rules, seen : SUBSET Rules]

RulesInit ==
    /\ onDisk = {} /\ told = {} /\ crossed = FALSE
    /\ job = [w \in Writers |-> [step |-> "idle", adds |-> TRUE, rule |-> CHOOSE r \in Rules : TRUE, seen |-> {}]]

Inside(w) == job[w].step \in {"read", "done", "failed"}
With(j, rules) == IF j.adds THEN rules \cup {j.rule} ELSE rules \ {j.rule}

CallStore(w, adds, rule) ==
    /\ job[w].step = "idle"
    /\ job' = [job EXCEPT ![w] = [@ EXCEPT !.step = "called", !.adds = adds, !.rule = rule]]
    /\ UNCHANGED <<onDisk, told, crossed>>

(* A faulty variant: the file is read before the mutex is taken.           *)
ReadRules_BeforeLock(w, fails) ==
    /\ job[w].step = "called"
    /\ job' = [job EXCEPT ![w] = [@ EXCEPT !.step = IF fails THEN "failed" ELSE "read", !.seen = onDisk]]
    /\ crossed' = (crossed \/ \E v \in Writers : Inside(v) /\ StoreOf[v] # StoreOf[w])
    /\ UNCHANGED <<onDisk, told>>

(* The mutex is taken and the file read.                                   *)
ReadRules(w, fails) ==
    /\ job[w].step = "called"
    /\ \A v \in Writers : Inside(v) => StoreOf[v] # StoreOf[w]
    /\ job' = [job EXCEPT ![w] = [@ EXCEPT !.step = IF fails THEN "failed" ELSE "read", !.seen = onDisk]]
    /\ crossed' = (crossed \/ \E v \in Writers : Inside(v))
    /\ UNCHANGED <<onDisk, told>>

(* Nothing to do, a failure before the rename, or the rename.              *)
WriteRules(w, fails) ==
    LET rules == With(job[w], job[w].seen)
    IN  /\ job[w].step = "read"
        /\ fails => rules # job[w].seen
        /\ onDisk' = IF fails \/ rules = job[w].seen THEN onDisk ELSE rules
        /\ job' = [job EXCEPT ![w] = [@ EXCEPT !.step = IF fails THEN "failed" ELSE "done"]]
        /\ UNCHANGED <<told, crossed>>

(* The return, which gives the mutex back.                                 *)
LeaveStore(w) ==
    /\ job[w].step \in {"done", "failed"}
    /\ told' = IF job[w].step = "done" THEN With(job[w], told) ELSE told
    /\ job' = [job EXCEPT ![w] = [@ EXCEPT !.step = "idle", !.seen = {}]]
    /\ UNCHANGED <<onDisk, crossed>>

RulesStep(w) ==
    \/ \E adds \in BOOLEAN, rule \in Rules : CallStore(w, adds, rule)
    \/ \E fails \in BOOLEAN : ReadRules(w, fails) \/ WriteRules(w, fails)
    \/ LeaveStore(w)

RulesNext == \E w \in Writers : RulesStep(w)
RulesSpec == RulesInit /\ [][RulesNext]_ruleVars

RulesTypeOK ==
    /\ onDisk \subseteq Rules /\ told \subseteq Rules /\ crossed \in BOOLEAN
    /\ job \in [Writers -> Jobs]

-----------------------------------------------------------------------------

(* As long as no two stores were at work at a time, the file says what the *)
(* calls have said: what Append was done with is there until Remove was,   *)
(* whoever wrote in between and whichever calls failed, but for the call   *)
(* that is about to return (store.go:133-222).                             *)
RulesStay ==
    ~crossed =>
        \/ onDisk = told
        \/ \E w \in Writers : job[w].step = "done" /\ onDisk = With(job[w], told)

=============================================================================
