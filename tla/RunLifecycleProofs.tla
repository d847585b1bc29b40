------------------------- MODULE RunLifecycleProofs -------------------------
(***************************************************************************)
(* The safety properties of RunLifecycle for every number of Start,        *)
(* freeze_spec, Delete and Restore calls.                                  *)
(*                                                                         *)
(* RowMatchesRun is not inductive: that no second run can start beside a   *)
(* first needs that a call which has passed Start's check still finds the  *)
(* row frozen, and that a row which is still to be run has no run.  GateInv *)
(* adds the two.                                                           *)
(***************************************************************************)
EXTENDS RunLifecycle, FiniteSetTheorems, TLAPS

GateInv ==
    /\ \A r \in Runs : run[r] = "reporting" => outcome[r] \in {"done", "stopped"}
    /\ ~late =>
        /\ \A r \in Runs : run[r] = "checked" => row \in {"frozen", "gone"}
        /\ InFlight \cup Published # {} => row \notin {"created", "frozen"}

LifecycleInv ==
    TypeOK /\ GateInv /\ RowMatchesRun /\ RunsAlone /\ EntriesAreLive /\ AccountedFor

LEMMA ActiveFinite == IsFiniteSet(Active) /\ Cardinality(Active) \in Nat
<1>1. Active \subseteq Runs
  BY DEF Active, InFlight, Published, Aborted
<1> QED
  BY <1>1, LifecycleAssumption, FS_Subset, FS_CardinalityType

LEMMA LifecycleInit == Init => LifecycleInv
<1> SUFFICES ASSUME Init PROVE LifecycleInv
  OBVIOUS
<1> USE DEF Init
<1>1. TypeOK
  BY DEF TypeOK, Rows, RunPhases
<1>2. InFlight = {} /\ Published = {} /\ Active = {}
  BY DEF InFlight, Published, Aborted, Active
<1>3. AccountedFor
  BY <1>2, FS_EmptySet DEF AccountedFor
<1> QED
  BY <1>1, <1>2, <1>3 DEF LifecycleInv, GateInv, RowMatchesRun, RunsAlone, EntriesAreLive

-----------------------------------------------------------------------------
(* One lemma for each kind of call. *)

\* freeze_spec, Delete and Restore leave the runs and the tables alone.
LEMMA FreezeKeeps ==
    ASSUME LifecycleInv, NEW f \in Freezers, FreezeStep(f)
    PROVE  LifecycleInv'
<1> USE DEF LifecycleInv
<1>1. UNCHANGED <<runVars, tables, del, res>>
  BY DEF FreezeStep, BeginFreeze, SaveSpec, LockSpec, BumpStatus, FailBump
<1>2. TypeOK'
  BY DEF TypeOK, Rows, RunPhases, runVars, tables, FreezeStep, BeginFreeze, SaveSpec,
         LockSpec, BumpStatus, FailBump
<1>3. UNCHANGED <<InFlight, Published, Active>>
  BY <1>1 DEF runVars, InFlight, Published, Aborted, Active
<1>4. \/ UNCHANGED <<row, late>>
      \/ /\ row' \in {"frozen", "gone"}
         /\ row' = "gone" <=> row = "gone"
         /\ ~late' => ~late /\ row \in {"created", "frozen", "gone"}
  BY DEF FreezeStep, BeginFreeze, SaveSpec, LockSpec, BumpStatus, FailBump, TypeOK
<1>5. GateInv' /\ RowMatchesRun' /\ RunsAlone'
  BY <1>1, <1>3, <1>4 DEF GateInv, RowMatchesRun, RunsAlone, runVars
<1>6. EntriesAreLive' /\ AccountedFor'
  BY <1>1, <1>3 DEF EntriesAreLive, AccountedFor, tables
<1> QED
  BY <1>2, <1>5, <1>6

LEMMA DeleteKeeps ==
    ASSUME LifecycleInv, NEW d \in Deleters, DeleteStep(d)
    PROVE  LifecycleInv'
<1> USE DEF LifecycleInv
<1>1. UNCHANGED <<runVars, tables, freeze, res>>
  BY DEF DeleteStep, BeginDelete, DeleteRow, Unlink
<1>2. TypeOK'
  BY DEF TypeOK, Rows, RunPhases, runVars, tables, DeleteStep, BeginDelete, DeleteRow, Unlink
<1>3. UNCHANGED <<InFlight, Published, Active>>
  BY <1>1 DEF runVars, InFlight, Published, Aborted, Active
<1>4. \/ UNCHANGED <<row, late>>
      \/ /\ row' = "gone"
         /\ ~late' => ~late /\ row # "running"
  BY DEF DeleteStep, BeginDelete, DeleteRow, Unlink, TypeOK
<1>5. GateInv' /\ RowMatchesRun' /\ RunsAlone'
  BY <1>1, <1>3, <1>4 DEF GateInv, RowMatchesRun, RunsAlone, runVars
<1>6. EntriesAreLive' /\ AccountedFor'
  BY <1>1, <1>3 DEF EntriesAreLive, AccountedFor, tables
<1> QED
  BY <1>2, <1>5, <1>6

LEMMA RestoreKeeps ==
    ASSUME LifecycleInv, NEW x \in Restorers, RestoreStep(x)
    PROVE  LifecycleInv'
<1> USE DEF LifecycleInv
<1>1. UNCHANGED <<row, lock, runVars, tables, freeze, del, late>>
  BY DEF RestoreStep, BeginRestore, EndRestore
<1>2. TypeOK'
  BY DEF TypeOK, Rows, RunPhases, runVars, tables, RestoreStep, BeginRestore, EndRestore
<1>3. UNCHANGED <<InFlight, Published, Active>>
  BY <1>1 DEF runVars, InFlight, Published, Aborted, Active
<1>4. GateInv' /\ RowMatchesRun' /\ RunsAlone'
  BY <1>1, <1>3 DEF GateInv, RowMatchesRun, RunsAlone, runVars
<1>5. EntriesAreLive' /\ AccountedFor'
  BY <1>1, <1>3 DEF EntriesAreLive, AccountedFor, tables
<1> QED
  BY <1>2, <1>4, <1>5

LEMMA StartKeeps ==
    ASSUME LifecycleInv, NEW r \in Runs, StartStep(r)
    PROVE  LifecycleInv'
<1> USE DEF LifecycleInv
<1>1. TypeOK
  OBVIOUS
<1>2. CASE BeginStart(r) \/ RefuseStart(r)
  <2>1. PICK ph \in {"idle", "checked"} : run' = [run EXCEPT ![r] = ph] /\ (ph = "checked" => row = "frozen")
    BY <1>2 DEF BeginStart, RefuseStart
  <2>2. UNCHANGED <<row, lock, detached, outcome, tables, callers, late>> /\ run[r] \in {"idle", "checked"}
    BY <1>2 DEF BeginStart, RefuseStart
  <2>3. UNCHANGED <<InFlight, Published, Active>>
    BY <1>1, <2>1, <2>2 DEF TypeOK, InFlight, Published, Aborted, Active
  <2>4. TypeOK'
    BY <1>2, <2>1, <2>2 DEF TypeOK, RunPhases, tables, callers, BeginStart, RefuseStart
  <2>5. \A q \in Runs : q # r => run'[q] = run[q]
    BY <2>1 DEF TypeOK
  <2>6. GateInv' /\ RowMatchesRun' /\ RunsAlone'
    BY <2>1, <2>2, <2>3, <2>5 DEF GateInv, RowMatchesRun, RunsAlone, TypeOK
  <2>7. EntriesAreLive' /\ AccountedFor'
    BY <2>2, <2>3 DEF EntriesAreLive, AccountedFor, tables
  <2> QED
    BY <2>4, <2>6, <2>7
<1>3. CASE MarkRunning(r)
  <2>1. /\ run' = [run EXCEPT ![r] = "marked"] /\ run[r] = "checked"
        /\ row # "gone" /\ row' = "running" /\ gauge' = gauge + 1
        /\ UNCHANGED <<lock, detached, ended, outcome, cancels, loop, progress, callers>>
        /\ late' = (late \/ \E q \in Runs \ {r} : run[q] = "checked")
    BY <1>3 DEF MarkRunning
  <2>2. TypeOK'
    BY <2>1 DEF TypeOK, Rows, RunPhases, callers
  <2>3. InFlight' = InFlight \cup {r} /\ Published' = Published /\ Active' = Active \cup {r} /\ r \notin Active
    BY <2>1 DEF TypeOK, InFlight, Published, Aborted, Active
  <2>4. ~late' => ~late /\ InFlight \cup Published = {} /\ \A q \in Runs : run'[q] # "checked"
    BY <2>1 DEF GateInv, TypeOK
  <2>5. GateInv' /\ RowMatchesRun' /\ RunsAlone'
    BY <2>1, <2>3, <2>4 DEF GateInv, RowMatchesRun, RunsAlone, TypeOK
  <2>6. Cardinality(Active') = Cardinality(Active) + 1
    BY <2>3, ActiveFinite, FS_AddElement
  <2>7. EntriesAreLive' /\ AccountedFor'
    BY <2>1, <2>3, <2>6 DEF EntriesAreLive, AccountedFor
  <2> QED
    BY <2>2, <2>5, <2>7
<1>4. CASE SpawnDetached(r) \/ RunAttached(r)
  <2>1. /\ run' = [run EXCEPT ![r] = "spawned"] /\ run[r] = "marked"
        /\ UNCHANGED <<row, lock, outcome, loop, progress, gauge, callers, late>>
        /\ cancels' \in {cancels, r}
    BY <1>4 DEF SpawnDetached, RunAttached, tables
  <2>2. TypeOK'
    BY <1>4, <2>1 DEF TypeOK, RunPhases, callers, SpawnDetached, RunAttached
  <2>3. UNCHANGED <<InFlight, Published, Active>> /\ r \in Active
    BY <1>1, <2>1 DEF TypeOK, InFlight, Published, Aborted, Active
  <2>4. GateInv' /\ RowMatchesRun' /\ RunsAlone'
    BY <2>1, <2>3 DEF GateInv, RowMatchesRun, RunsAlone, TypeOK
  <2>5. EntriesAreLive' /\ AccountedFor'
    BY <2>1, <2>3 DEF EntriesAreLive, AccountedFor
  <2> QED
    BY <2>2, <2>4, <2>5
<1> QED
  BY <1>2, <1>3, <1>4 DEF StartStep

LEMMA ExecuteKeeps ==
    ASSUME LifecycleInv, NEW r \in Runs, ExecuteStep(r)
    PROVE  LifecycleInv'
<1> USE DEF LifecycleInv
<1>1. TypeOK
  OBVIOUS
<1>2. CASE AbortEarly(r)
  <2>1. /\ run' = [run EXCEPT ![r] = "aborted"] /\ run[r] = "spawned"
        /\ row' \in {row, "stopped"} /\ (row = "gone" => row' = "gone")
        /\ UNCHANGED <<lock, detached, ended, tables, callers, late>>
        /\ outcome' \in {outcome, [outcome EXCEPT ![r] = "unsaid"]}
    BY <1>2 DEF AbortEarly, SetRow, SayNothing
  <2>2. TypeOK'
    BY <2>1 DEF TypeOK, Rows, RunPhases, tables, callers
  <2>3. InFlight' = InFlight \ {r} /\ Published' = Published /\ Active' = Active /\ r \in InFlight
    BY <2>1 DEF TypeOK, InFlight, Published, Aborted, Active
  <2>4. GateInv' /\ RowMatchesRun' /\ RunsAlone'
    BY <2>1, <2>3 DEF GateInv, RowMatchesRun, RunsAlone, TypeOK
  <2>5. EntriesAreLive' /\ AccountedFor'
    BY <2>1, <2>3 DEF EntriesAreLive, AccountedFor, tables
  <2> QED
    BY <2>2, <2>4, <2>5
<1>3. CASE SetUp(r) \/ EnterLoop(r)
  <2>1. PICK ph \in {"setup", "looping"} : run' = [run EXCEPT ![r] = ph] /\ run[r] \in {"spawned", "setup"}
    BY <1>3 DEF SetUp, EnterLoop
  <2>2. /\ UNCHANGED <<row, lock, detached, ended, outcome, cancels, gauge, callers, late>>
        /\ loop' \in {loop, r} /\ progress' \in {progress, r}
    BY <1>3 DEF SetUp, EnterLoop
  <2>3. TypeOK'
    BY <2>1, <2>2 DEF TypeOK, RunPhases, callers
  <2>4. InFlight' = InFlight /\ Published' = Published \cup {r} /\ Active' = Active /\ r \in InFlight
    BY <2>1 DEF TypeOK, InFlight, Published, Aborted, Active
  <2>5. GateInv' /\ RowMatchesRun' /\ RunsAlone'
    BY <2>1, <2>2, <2>4 DEF GateInv, RowMatchesRun, RunsAlone, TypeOK
  <2>6. EntriesAreLive' /\ AccountedFor'
    BY <2>2, <2>4 DEF EntriesAreLive, AccountedFor
  <2> QED
    BY <2>3, <2>5, <2>6
<1>4. CASE LeaveLoop(r)
  <2>1. /\ run' = [run EXCEPT ![r] = "reporting"] /\ run[r] = "looping"
        /\ UNCHANGED <<row, lock, detached, ended, tables, callers, late>>
        /\ \E o \in {"done", "stopped"} : outcome' = [outcome EXCEPT ![r] = o]
    BY <1>4 DEF LeaveLoop
  <2>2. TypeOK'
    BY <2>1 DEF TypeOK, RunPhases, tables, callers
  <2>3. UNCHANGED <<InFlight, Published, Active>>
    BY <1>1, <2>1 DEF TypeOK, InFlight, Published, Aborted, Active
  <2>4. GateInv' /\ RowMatchesRun' /\ RunsAlone'
    BY <2>1, <2>3 DEF GateInv, RowMatchesRun, RunsAlone, TypeOK
  <2>5. EntriesAreLive' /\ AccountedFor'
    BY <2>1, <2>3 DEF EntriesAreLive, AccountedFor, tables
  <2> QED
    BY <2>2, <2>4, <2>5
<1>5. CASE FailSetup(r) \/ Report(r)
  <2>1. /\ run' = [run EXCEPT ![r] = "reported"] /\ run[r] \in {"setup", "reporting"}
        /\ UNCHANGED <<lock, detached, ended, tables, callers, late>>
        /\ outcome' \in {outcome, [outcome EXCEPT ![r] = "unsaid"]}
        /\ row' \in {row, "stopped", outcome[r]} /\ (row = "gone" => row' = "gone")
        /\ run[r] = "setup" => row' \in {row, "stopped"}
    BY <1>5 DEF FailSetup, Report, SetRow, SayNothing
  <2>2. row' \in {row, "done", "stopped"}
    BY <2>1 DEF GateInv, TypeOK
  <2>3. TypeOK'
    BY <2>1, <2>2 DEF TypeOK, Rows, RunPhases, tables, callers
  <2>4. InFlight' = InFlight \ {r} /\ Published' = Published /\ Active' = Active /\ r \in InFlight
    BY <2>1 DEF TypeOK, InFlight, Published, Aborted, Active
  <2>5. GateInv' /\ RowMatchesRun' /\ RunsAlone'
    BY <2>1, <2>2, <2>4 DEF GateInv, RowMatchesRun, RunsAlone, TypeOK
  <2>6. EntriesAreLive' /\ AccountedFor'
    BY <2>1, <2>4 DEF EntriesAreLive, AccountedFor, tables
  <2> QED
    BY <2>3, <2>5, <2>6
<1>6. CASE Cleanup(r)
  <2>1. /\ run' = [run EXCEPT ![r] = "over"] /\ run[r] = "reported"
        /\ loop' = NoRun /\ progress' = NoRun /\ cancels' = NoRun
        /\ gauge' = gauge - 1
        /\ UNCHANGED <<row, lock, callers, late>>
    BY <1>6 DEF Cleanup, Finish
  <2>0. /\ detached' = [detached EXCEPT ![r] = FALSE] /\ ended' = [ended EXCEPT ![r] = FALSE]
        /\ outcome' = [outcome EXCEPT ![r] = "none"]
    BY <1>6 DEF Cleanup, Finish
  <2>2. InFlight' = InFlight /\ Published' = Published \ {r} /\ Active' = Active \ {r} /\ r \in Active
    BY <2>1 DEF TypeOK, InFlight, Published, Aborted, Active
  <2>3. Cardinality(Active') = Cardinality(Active) - 1 /\ Cardinality(Active') \in Nat
    BY <2>2, ActiveFinite, FS_RemoveElement, FS_CardinalityType
  <2>4. EntriesAreLive' /\ AccountedFor'
    BY <2>1, <2>3 DEF EntriesAreLive, AccountedFor
  <2>5. TypeOK'
    BY <2>0, <2>1, <2>3 DEF TypeOK, RunPhases, callers, AccountedFor
  <2>6. GateInv' /\ RowMatchesRun' /\ RunsAlone'
    BY <2>0, <2>1, <2>2 DEF GateInv, RowMatchesRun, RunsAlone, TypeOK
  <2> QED
    BY <2>4, <2>5, <2>6
<1> QED
  BY <1>2, <1>3, <1>4, <1>5, <1>6 DEF ExecuteStep

LEMMA CancelKeeps ==
    ASSUME LifecycleInv, RequestStop \/ \E r \in Runs : Disconnect(r)
    PROVE  LifecycleInv'
<1> USE DEF LifecycleInv
<1>1. UNCHANGED <<row, lock, run, detached, outcome, tables, callers, late>>
  BY DEF RequestStop, Disconnect
<1>2. ended' \in [Runs -> BOOLEAN]
  BY DEF RequestStop, Disconnect, TypeOK
<1>3. TypeOK'
  BY <1>1, <1>2 DEF TypeOK, tables, callers
<1>4. UNCHANGED <<InFlight, Published, Active>>
  BY <1>1 DEF InFlight, Published, Aborted, Active
<1> QED
  BY <1>1, <1>3, <1>4
     DEF GateInv, RowMatchesRun, RunsAlone, EntriesAreLive, AccountedFor, tables

LEMMA RestartKeeps ==
    ASSUME LifecycleInv, Restart
    PROVE  LifecycleInv'
<1> USE DEF LifecycleInv
<1>1. TypeOK'
  BY DEF Restart, TypeOK, RunPhases
<1>2. \A r \in Runs : run'[r] \in {"idle", "over", "killed"}
  BY DEF Restart
<1>3. InFlight' = {} /\ Published' = {} /\ Active' = {}
  BY <1>2 DEF InFlight, Published, Aborted, Active
<1>4. GateInv' /\ RowMatchesRun' /\ RunsAlone'
  BY <1>2, <1>3 DEF GateInv, RowMatchesRun, RunsAlone
<1>5. EntriesAreLive' /\ AccountedFor'
  BY <1>3, FS_EmptySet DEF EntriesAreLive, AccountedFor, Restart
<1> QED
  BY <1>1, <1>4, <1>5

LEMMA LifecycleNext == LifecycleInv /\ [Next]_vars => LifecycleInv'
<1> SUFFICES ASSUME LifecycleInv, [Next]_vars
             PROVE  LifecycleInv'
  OBVIOUS
<1>1. CASE UNCHANGED vars
  <2>1. UNCHANGED <<InFlight, Published, Active>>
    BY <1>1 DEF vars, runVars, InFlight, Published, Aborted, Active
  <2> QED
    BY <1>1, <2>1
       DEF LifecycleInv, TypeOK, GateInv, RowMatchesRun, RunsAlone, EntriesAreLive,
           AccountedFor, vars, runVars, tables, callers
<1> QED
  BY <1>1, FreezeKeeps, StartKeeps, ExecuteKeeps, CancelKeeps, DeleteKeeps,
     RestoreKeeps, RestartKeeps
     DEF Next

LEMMA LifecycleCorrect == Spec => []LifecycleInv
  BY LifecycleInit, LifecycleNext, PTL DEF Spec

-----------------------------------------------------------------------------
\* Every reachable state is well typed, so SessionsRunning (executeRun's
\* deferred Dec) never goes below zero.
THEOREM TypeCorrect == Spec => []TypeOK
<1>1. LifecycleInv => TypeOK
  BY DEF LifecycleInv
<1> QED
  BY <1>1, LifecycleCorrect, PTL

\* Start's two-step gate is enough as long as no call acts on a stale check:
\* the row then says running for as long as a run is in flight.
THEOREM RowIsReliable == Spec => []RowMatchesRun
<1>1. LifecycleInv => RowMatchesRun
  BY DEF LifecycleInv
<1> QED
  BY <1>1, LifecycleCorrect, PTL

\* Under the same condition no two runs of a session overlap.
THEOREM OneRunAtATime == Spec => []RunsAlone
<1>1. LifecycleInv => RunsAlone
  BY DEF LifecycleInv
<1> QED
  BY <1>1, LifecycleCorrect, PTL

\* However many runs overlap, the entries of the tables belong to runs that
\* have their cleanup ahead of them.
THEOREM TablesPointAtLiveRuns == Spec => []EntriesAreLive
<1>1. LifecycleInv => EntriesAreLive
  BY DEF LifecycleInv
<1> QED
  BY <1>1, LifecycleCorrect, PTL

\* SessionsRunning is the number of runs that still have their cleanup to do,
\* or that were given up before they had one.
THEOREM EveryRunIsAccountedFor == Spec => []AccountedFor
<1>1. LifecycleInv => AccountedFor
  BY DEF LifecycleInv
<1> QED
  BY <1>1, LifecycleCorrect, PTL

LEMMA StatusNext == LifecycleInv /\ [Next]_vars => [~late' => StatusStep]_row
<1> SUFFICES ASSUME LifecycleInv, [Next]_vars, row' # row, ~late'
             PROVE  StatusStep
  OBVIOUS
<1> USE DEF LifecycleInv, StatusStep
<1>1. ASSUME NEW r \in Runs, NEW st \in {"done", "stopped"}, r \in InFlight, SetRow(r, st), late' = late
      PROVE  StatusStep
  BY <1>1 DEF SetRow, RowMatchesRun
<1>2. ASSUME NEW r \in Runs, ExecuteStep(r)
      PROVE  StatusStep
  <2>1. CASE AbortEarly(r) \/ FailSetup(r)
    <3>1. SetRow(r, "stopped") /\ late' = late /\ r \in InFlight
      BY <2>1 DEF AbortEarly, FailSetup, SayNothing, InFlight
    <3> QED
      BY <1>1, <3>1
  <2>2. CASE Report(r)
    <3>1. SetRow(r, outcome[r]) /\ late' = late /\ r \in InFlight /\ outcome[r] \in {"done", "stopped"}
      BY <2>2 DEF Report, InFlight, GateInv, TypeOK
    <3> QED
      BY <1>1, <3>1
  <2> QED
    BY <1>2, <2>1, <2>2 DEF ExecuteStep, SetUp, EnterLoop, LeaveLoop, Cleanup, Finish
<1>3. ASSUME NEW r \in Runs, StartStep(r)
      PROVE  StatusStep
  <2>1. MarkRunning(r)
    BY <1>3 DEF StartStep, BeginStart, RefuseStart, SpawnDetached, RunAttached
  <2>2. run[r] = "checked" /\ row # "gone" /\ row' = "running" /\ ~late
    BY <2>1 DEF MarkRunning
  <2> QED
    BY <2>2 DEF GateInv
<1>4. ASSUME NEW f \in Freezers, FreezeStep(f)
      PROVE  StatusStep
  BY <1>4 DEF FreezeStep, BeginFreeze, SaveSpec, LockSpec, BumpStatus, FailBump
<1>5. ASSUME NEW d \in Deleters, DeleteStep(d)
      PROVE  StatusStep
  BY <1>5 DEF DeleteStep, BeginDelete, DeleteRow, Unlink
<1> QED
  BY <1>2, <1>3, <1>4, <1>5
     DEF Next, RequestStop, Disconnect, RestoreStep, BeginRestore, EndRestore, Restart, vars

\* A session's status moves only forward, unless a call acts on a stale check.
THEOREM StatusMovesForward == Spec => StatusMachine
  BY LifecycleCorrect, StatusNext, PTL DEF Spec, StatusMachine

\* No update of any call or run brings a deleted session back.
THEOREM DeletedStaysDeleted == Spec => GoneStaysGone
<1>1. [Next]_vars => [row = "gone" => row' = "gone"]_row
  BY DEF Next, FreezeStep, BeginFreeze, SaveSpec, LockSpec, BumpStatus, FailBump,
         StartStep, BeginStart, RefuseStart, MarkRunning, SpawnDetached, RunAttached,
         ExecuteStep, AbortEarly, SetUp, FailSetup, EnterLoop, LeaveLoop, Report, Cleanup, Finish,
         SetRow, SayNothing, RequestStop, Disconnect, DeleteStep, BeginDelete, DeleteRow, Unlink,
         RestoreStep, BeginRestore, EndRestore, Restart, vars
<1> QED
  BY <1>1, PTL DEF Spec, GoneStaysGone

=============================================================================
