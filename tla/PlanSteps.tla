----------------------------- MODULE PlanSteps -----------------------------
(***************************************************************************)
(* plan_steps and verify of one session                                    *)
(* (server/internal/service/agent_tools_plan_verify.go): the plan kept in  *)
(* memory, its rows in plan_steps, and the statuses that only verify sets. *)
(*                                                                         *)
(* A step is its key, the description with the check, and its status; its  *)
(* number is its place.  The store's mutex is held over a whole operation, *)
(* its database calls included; it is not held while verify's command runs.*)
(***************************************************************************)
EXTENDS Integers, Sequences

CONSTANTS
    Keys,       \* descriptions with their checks
    Verifiers,  \* verify calls that may run at once
    MaxSteps,   \* bound: steps of a plan
    MaxPlans    \* bound: plan_steps calls

ASSUME PlanAssumption == "none" \notin Keys /\ MaxSteps \in Nat /\ MaxPlans \in Nat

VARIABLES
    items,    \* planStore.items of the session
    loaded,   \* the rows have been read, or the plan was declared
    rows,     \* the session's rows of plan_steps
    check,    \* a verify call: the number it names, and the key that had it
    plans,    \* the number of plan_steps calls
    earned,   \* history: the keys a passing verify was for
    slipped,  \* history: a database call failed
    astray    \* history: an outcome was put down to another step

planVars == <<items, loaded, rows, check, plans, earned, slipped, astray>>

Idle == [id |-> 0, key |-> "none"]

PlanInit ==
    /\ items = <<>> /\ loaded = FALSE /\ rows = <<>>
    /\ check = [v \in Verifiers |-> Idle]
    /\ plans = 0
    /\ earned = {} /\ slipped = FALSE /\ astray = FALSE

(* ensureLoadedLocked: the first operation after a start reads the rows.   *)
(* A query that fails leaves no plan, to be tried again; an iteration that *)
(* breaks off leaves what it had, and is not tried again.                  *)
Loads ==
    IF loaded THEN {[steps |-> items, done |-> TRUE]}
    ELSE {[steps |-> SubSeq(rows, 1, n), done |-> TRUE] : n \in 0..Len(rows)}
         \cup {[steps |-> <<>>, done |-> FALSE]}

Slips(load) == ~load.done \/ load.steps # IF loaded THEN items ELSE rows

(* replace: a step whose key the old plan has keeps its status; of several *)
(* with one key, the last one's.                                           *)
Status(steps, key) ==
    LET same == {i \in DOMAIN steps : steps[i].key = key}
    IN  IF same = {} THEN "pending"
        ELSE steps[CHOOSE i \in same : \A j \in same : j <= i].status

(* A faulty variant: a step keeps the status of the step in its place.     *)
Renewed_ByPlace(steps, keys) ==
    [i \in DOMAIN keys |-> [key |-> keys[i],
                            status |-> IF i \in DOMAIN steps THEN steps[i].status ELSE "pending"]]

Renewed(steps, keys) ==
    [i \in DOMAIN keys |-> [key |-> keys[i], status |-> Status(steps, keys[i])]]

(* A faulty variant: the rows are inserted without their status.           *)
Replace_SavesPending(keys, load, saved) ==
    /\ plans < MaxPlans /\ plans' = plans + 1
    /\ load \in Loads
    /\ items' = Renewed(load.steps, keys)
    /\ loaded' = TRUE
    /\ rows' = IF saved THEN Renewed(<<>>, keys) ELSE rows
    /\ slipped' = (slipped \/ Slips(load) \/ ~saved)
    /\ UNCHANGED <<check, earned, astray>>

(* plan_steps: the transaction is committed as a whole or silently not.   *)
Replace(keys, load, saved) ==
    /\ plans < MaxPlans /\ plans' = plans + 1
    /\ load \in Loads
    /\ items' = Renewed(load.steps, keys)
    /\ loaded' = TRUE
    /\ rows' = IF saved THEN items' ELSE rows
    /\ slipped' = (slipped \/ Slips(load) \/ ~saved)
    /\ UNCHANGED <<check, earned, astray>>

KeyAt(steps, id) == IF id \in DOMAIN steps THEN steps[id].key ELSE "none"

(* verify runs its command; the plan is not looked at before.              *)
StartVerify(v, id) ==
    /\ check[v] = Idle
    /\ check' = [check EXCEPT ![v] = [id |-> id, key |-> KeyAt(IF loaded THEN items ELSE rows, id)]]
    /\ UNCHANGED <<items, loaded, rows, plans, earned, slipped, astray>>

Mark(steps, id, status) ==
    IF id \in DOMAIN steps THEN [steps EXCEPT ![id].status = status] ELSE steps

(* transition: the step that has the number by now.  The UPDATE may fail, *)
(* and so may the reading of the rows, which leaves no such step.          *)
EndVerify(v, passed, load, saved) ==
    LET id == check[v].id
        status == IF passed THEN "verified" ELSE "failed"
    IN  /\ check[v] # Idle
        /\ load \in Loads
        /\ items' = Mark(load.steps, id, status)
        /\ loaded' = load.done
        /\ rows' = IF saved /\ id \in DOMAIN load.steps THEN Mark(rows, id, status) ELSE rows
        /\ check' = [check EXCEPT ![v] = Idle]
        /\ earned' = IF passed THEN earned \cup {check[v].key} ELSE earned
        /\ slipped' = (slipped \/ Slips(load) \/ (~saved /\ id \in DOMAIN load.steps))
        /\ astray' = (astray \/ KeyAt(items', id) \notin {check[v].key, "none"})
        /\ UNCHANGED plans

(* The reading that renders a plan after a verify. *)
Snapshot(load) ==
    /\ load \in Loads
    /\ items' = load.steps /\ loaded' = load.done
    /\ slipped' = (slipped \/ Slips(load))
    /\ UNCHANGED <<rows, check, plans, earned, astray>>

(* The daemon stops: the plan in memory and the running checks are gone.   *)
RestartStore ==
    /\ items' = <<>> /\ loaded' = FALSE
    /\ check' = [v \in Verifiers |-> Idle]
    /\ astray' = (astray \/ (loaded /\ slipped /\ rows # items))
    /\ UNCHANGED <<rows, plans, earned, slipped>>

KeyLists == UNION {[1..n -> Keys] : n \in 0..MaxSteps}

PlanNext ==
    \/ \E keys \in KeyLists, load \in Loads, saved \in BOOLEAN : Replace(keys, load, saved)
    \/ \E v \in Verifiers, id \in 1..MaxSteps : StartVerify(v, id)
    \/ \E v \in Verifiers, passed, saved \in BOOLEAN, load \in Loads : EndVerify(v, passed, load, saved)
    \/ \E load \in Loads : Snapshot(load)
    \/ RestartStore

PlanSpec == PlanInit /\ [][PlanNext]_planVars

-----------------------------------------------------------------------------

PlanStep == [key : Keys, status : {"pending", "verified", "failed"}]

(* Every reachable state is well typed, and a plan that was not read is    *)
(* empty.                                                                  *)
PlanTypeOK ==
    /\ items \in Seq(PlanStep) /\ rows \in Seq(PlanStep)
    /\ loaded \in BOOLEAN /\ (~loaded => items = <<>>)
    /\ check \in [Verifiers -> [id : 0..MaxSteps, key : Keys \cup {"none"}]]
    /\ plans \in 0..MaxPlans /\ earned \subseteq Keys \cup {"none"}
    /\ slipped \in BOOLEAN /\ astray \in BOOLEAN

(* "The agent cannot self-mark a step verified" (line 24): whatever plans  *)
(* it declares, in memory and in the rows a step is verified only if a     *)
(* verify that passed was for its description and check.  Two things can   *)
(* put a verdict on another step: a plan declared while a command runs,    *)
(* and a restart after a database call that failed silently, for the       *)
(* UPDATE goes by the step's number.                                       *)
StatusIsEarned ==
    /\ ~astray => \A i \in DOMAIN items : items[i].status = "verified" => items[i].key \in earned
    /\ ~astray /\ ~slipped =>
         \A i \in DOMAIN rows : rows[i].status = "verified" => rows[i].key \in earned

(* "Every mutation writes through" (line 32): while no database call has   *)
(* failed, a restart brings back the plan as it was, every verdict in it.  *)
VerdictsSurvive == ~slipped /\ loaded => rows = items

=============================================================================
