---------------------------- MODULE RunLifecycle ----------------------------
(***************************************************************************)
(* The life of one session and of the runs started in it: the status row   *)
(* in SQLite (core/session/repo.go), the run service's in-memory tables    *)
(* (server/internal/service/run.go), and the calls that read the one and   *)
(* change the other: freeze_spec, Start, stop_run, Delete, Restore.        *)
(*                                                                         *)
(* Each call reads the row, or the lock file, in one step and acts on what *)
(* it read in a later one; nothing spans the two.  A database update made  *)
(* with a cancelled context fails and changes nothing.  A restart of the   *)
(* daemon loses every goroutine and table and keeps the row and the files. *)
(*                                                                         *)
(* A run is one Start call that gets past its status check, and is not     *)
(* reused.  The agent loop itself, its events and its asks are abstracted  *)
(* to the two ways a run can end.                                          *)
(***************************************************************************)
EXTENDS Integers, FiniteSets

CONSTANTS
    Runs,      \* Start calls
    Freezers,  \* concurrent freeze_spec calls
    Deleters,  \* concurrent Delete calls
    Restorers, \* concurrent Restore calls
    NoRun      \* an empty table entry

ASSUME LifecycleAssumption == NoRun \notin Runs /\ IsFiniteSet(Runs)

VARIABLES
    row,      \* sessions.status, "gone" once the row is deleted
    lock,     \* spec.lock exists
    run,      \* where a Start call, and then its run, has got to
    detached, \* the run has a context of its own
    ended,    \* the context of a Start call or run is cancelled
    outcome,  \* what a run came to: the agent loop's answer, or "unsaid" if
              \* executeRun returned without an update of the row
    cancels,  \* RunService.runCancels of the session
    loop,     \* RunService.runLoops of the session
    progress, \* RunService.runProgress of the session
    gauge,    \* metrics.SessionsRunning
    freeze,   \* where a freeze_spec call has got to
    del,      \* where a Delete call has got to
    res,      \* where a Restore call has got to
    late      \* history: some call acted on a status, or a missing lock,
              \* that was no longer so

runVars == <<run, detached, ended, outcome>>
tables == <<cancels, loop, progress, gauge>>
callers == <<freeze, del, res>>
vars == <<row, lock, runVars, tables, callers, late>>

\* "marked" to "looping": the row says running on behalf of the run.
InFlight == {r \in Runs : run[r] \in {"marked", "spawned", "setup", "looping", "reporting"}}

\* Runs that have entries in the tables which their deferred cleanup removes.
Published == {r \in Runs : run[r] \in {"setup", "looping", "reporting", "reported"}}

Aborted == {r \in Runs : run[r] = "aborted"}

Init ==
    /\ row = "created"
    /\ lock = FALSE
    /\ run = [r \in Runs |-> "idle"]
    /\ detached = [r \in Runs |-> FALSE]
    /\ ended = [r \in Runs |-> FALSE]
    /\ outcome = [r \in Runs |-> "none"]
    /\ cancels = NoRun
    /\ loop = NoRun
    /\ progress = NoRun
    /\ gauge = 0
    /\ freeze = [f \in Freezers |-> "idle"]
    /\ del = [d \in Deleters |-> "idle"]
    /\ res = [x \in Restorers |-> "idle"]
    /\ late = FALSE

-----------------------------------------------------------------------------
(* freeze_spec: IsFrozen, Save, Freeze, UpdateStatus. *)

\* IsFrozen said no.
BeginFreeze(f) ==
    /\ freeze[f] = "idle"
    /\ ~lock
    /\ freeze' = [freeze EXCEPT ![f] = "saving"]
    /\ UNCHANGED <<row, lock, runVars, tables, del, res, late>>

\* Store.Save looks at the lock again and refuses if it has appeared.
SaveSpec(f) ==
    /\ freeze[f] = "saving"
    /\ freeze' = [freeze EXCEPT ![f] = IF lock THEN "idle" ELSE "locking"]
    /\ UNCHANGED <<row, lock, runVars, tables, del, res, late>>

\* Store.Freeze writes spec.lock, and says nothing if it finds one.
LockSpec(f) ==
    /\ freeze[f] = "locking"
    /\ lock' = TRUE
    /\ freeze' = [freeze EXCEPT ![f] = "bumping"]
    /\ UNCHANGED <<row, runVars, tables, del, res, late>>

\* UpdateStatus "frozen", whatever the row says; no row is not an error.
BumpStatus(f) ==
    /\ freeze[f] = "bumping"
    /\ freeze' = [freeze EXCEPT ![f] = "idle"]
    /\ row' = IF row = "gone" THEN "gone" ELSE "frozen"
    /\ late' = (late \/ row \notin {"created", "frozen", "gone"})
    /\ UNCHANGED <<lock, runVars, tables, del, res>>

\* The client went away: the update fails and only a message says so.
FailBump(f) ==
    /\ freeze[f] = "bumping"
    /\ freeze' = [freeze EXCEPT ![f] = "idle"]
    /\ UNCHANGED <<row, lock, runVars, tables, del, res, late>>

-----------------------------------------------------------------------------
(* RunService.Start and executeRun. *)

\* A faulty variant: the status gate is left out.
BeginStart_NoGate(r) ==
    /\ run[r] = "idle"
    /\ row # "gone"
    /\ run' = [run EXCEPT ![r] = "checked"]
    /\ UNCHANGED <<row, lock, detached, ended, outcome, tables, callers, late>>

\* repo.Get found the session frozen.
BeginStart(r) ==
    /\ run[r] = "idle"
    /\ row = "frozen"
    /\ run' = [run EXCEPT ![r] = "checked"]
    /\ UNCHANGED <<row, lock, detached, ended, outcome, tables, callers, late>>

\* The spec, configuration, provider or backend is refused, or the client is
\* gone by the time the row is to be updated.
RefuseStart(r) ==
    /\ run[r] = "checked"
    /\ run' = [run EXCEPT ![r] = "idle"]
    /\ ended' = [ended EXCEPT ![r] = FALSE]
    /\ UNCHANGED <<row, lock, detached, outcome, tables, callers, late>>

\* UpdateStatus "running": it fails if the row or the caller is gone.  The row
\* is not looked at again, and another Start may have passed the same check.
MarkRunning(r) ==
    /\ run[r] = "checked"
    /\ row # "gone"
    /\ ~ended[r]
    /\ row' = "running"
    /\ gauge' = gauge + 1
    /\ run' = [run EXCEPT ![r] = "marked"]
    /\ late' = (late \/ \E q \in Runs \ {r} : run[q] = "checked")
    /\ UNCHANGED <<lock, detached, ended, outcome, cancels, loop, progress, callers>>

\* A detached run gets a context of its own, and its cancel func is
\* registered before the goroutine starts.
SpawnDetached(r) ==
    /\ run[r] = "marked"
    /\ run' = [run EXCEPT ![r] = "spawned"]
    /\ detached' = [detached EXCEPT ![r] = TRUE]
    /\ ended' = [ended EXCEPT ![r] = FALSE]
    /\ cancels' = r
    /\ UNCHANGED <<row, lock, outcome, loop, progress, gauge, callers, late>>

\* An attached run is executed by the call itself, under the call's context.
RunAttached(r) ==
    /\ run[r] = "marked"
    /\ run' = [run EXCEPT ![r] = "spawned"]
    /\ UNCHANGED <<row, lock, detached, ended, outcome, tables, callers, late>>

\* A faulty variant: the row is never set.
SetRow_Skipped(r, st) ==
    row' = row

\* repo.UpdateStatus by a run, which a deleted row or a cancelled context
\* makes fail without effect.
SetRow(r, st) ==
    row' = IF ended[r] \/ row = "gone" THEN row ELSE st

\* executeRun returns an error and leaves the row as it is.
SayNothing(r) ==
    /\ outcome' = [outcome EXCEPT ![r] = "unsaid"]
    /\ UNCHANGED row

\* executeRun gives up before its cleanup is deferred: the container or the
\* cloud sandbox does not start, which the row is told, or the event directory
\* cannot be made, which it is not.
AbortEarly(r) ==
    /\ run[r] = "spawned"
    /\ run' = [run EXCEPT ![r] = "aborted"]
    /\ \/ SetRow(r, "stopped") /\ UNCHANGED outcome
       \/ SayNothing(r)
    /\ UNCHANGED <<lock, detached, ended, tables, callers, late>>

\* The progress counters are registered and the cleanup is deferred.
SetUp(r) ==
    /\ run[r] = "spawned"
    /\ run' = [run EXCEPT ![r] = "setup"]
    /\ progress' = r
    /\ UNCHANGED <<row, lock, detached, ended, outcome, cancels, loop, gauge, callers, late>>

\* A role's provider or the compactor is refused, which the row is told, or
\* the memory bank cannot be made, which it is not; the deferred cleanup runs.
FailSetup(r) ==
    /\ run[r] = "setup"
    /\ run' = [run EXCEPT ![r] = "reported"]
    /\ \/ SetRow(r, "stopped") /\ UNCHANGED outcome
       \/ SayNothing(r)
    /\ UNCHANGED <<lock, detached, ended, tables, callers, late>>

\* The loop is registered for RequestCompact and PostHint, and runs.
EnterLoop(r) ==
    /\ run[r] = "setup"
    /\ run' = [run EXCEPT ![r] = "looping"]
    /\ loop' = r
    /\ UNCHANGED <<row, lock, detached, ended, outcome, cancels, progress, gauge, callers, late>>

\* AgentLoop.Run returns: done, or anything else; never done if cancelled.
LeaveLoop(r) ==
    /\ run[r] = "looping"
    /\ run' = [run EXCEPT ![r] = "reporting"]
    /\ \E o \in IF ended[r] THEN {"stopped"} ELSE {"done", "stopped"} :
          outcome' = [outcome EXCEPT ![r] = o]
    /\ UNCHANGED <<row, lock, detached, ended, tables, callers, late>>

\* The final status, written with the run's own context.
Report(r) ==
    /\ run[r] = "reporting"
    /\ run' = [run EXCEPT ![r] = "reported"]
    /\ SetRow(r, outcome[r])
    /\ UNCHANGED <<lock, detached, ended, outcome, tables, callers, late>>

\* executeRun has returned, and nothing is left of the run.
Finish(r) ==
    /\ run' = [run EXCEPT ![r] = "over"]
    /\ detached' = [detached EXCEPT ![r] = FALSE]
    /\ ended' = [ended EXCEPT ![r] = FALSE]
    /\ outcome' = [outcome EXCEPT ![r] = "none"]

\* A faulty variant: the cancel func stays registered.
Cleanup_KeepsCancel(r) ==
    /\ run[r] = "reported"
    /\ Finish(r)
    /\ loop' = NoRun /\ progress' = NoRun
    /\ gauge' = gauge - 1
    /\ UNCHANGED <<row, lock, cancels, callers, late>>

\* The deferred cleanup: the session's entries go, whoever made them.
Cleanup(r) ==
    /\ run[r] = "reported"
    /\ Finish(r)
    /\ loop' = NoRun /\ progress' = NoRun /\ cancels' = NoRun
    /\ gauge' = gauge - 1
    /\ UNCHANGED <<row, lock, callers, late>>

-----------------------------------------------------------------------------
(* stop_run, a client that disconnects, Delete, Restore, a daemon restart. *)

\* RequestStop found a cancel func and called it.  On an aborted run it
\* cancels a context nobody uses any more.
RequestStop ==
    /\ cancels # NoRun
    /\ ended' = [ended EXCEPT ![cancels] = TRUE]
    /\ UNCHANGED <<row, lock, run, detached, outcome, tables, callers, late>>

\* The client of a Start call goes away; a detached run does not notice.
Disconnect(r) ==
    /\ run[r] \in {"checked", "marked", "spawned", "setup", "looping", "reporting"}
    /\ ~detached[r]
    /\ ended' = [ended EXCEPT ![r] = TRUE]
    /\ UNCHANGED <<row, lock, run, detached, outcome, tables, callers, late>>

\* Delete reads the row and refuses a running session ...
BeginDelete(d) ==
    /\ del[d] = "idle"
    /\ row \notin {"running", "gone"}
    /\ del' = [del EXCEPT ![d] = "deleting"]
    /\ UNCHANGED <<row, lock, runVars, tables, freeze, res, late>>

\* ... deletes it ...
DeleteRow(d) ==
    /\ del[d] = "deleting"
    /\ del' = [del EXCEPT ![d] = IF row = "gone" THEN "idle" ELSE "unlinking"]
    /\ row' = "gone"
    /\ late' = (late \/ row = "running")
    /\ UNCHANGED <<lock, runVars, tables, freeze, res>>

\* ... and removes the session's directory, spec.lock with it.
Unlink(d) ==
    /\ del[d] = "unlinking"
    /\ del' = [del EXCEPT ![d] = "idle"]
    /\ lock' = FALSE
    /\ UNCHANGED <<row, runVars, tables, freeze, res, late>>

\* Restore reads the row and refuses a running session ...
BeginRestore(x) ==
    /\ res[x] = "idle"
    /\ row \notin {"running", "gone"}
    /\ res' = [res EXCEPT ![x] = "writing"]
    /\ UNCHANGED <<row, lock, runVars, tables, freeze, del, late>>

\* ... and from then on rewrites the workspace.
EndRestore(x) ==
    /\ res[x] = "writing"
    /\ res' = [res EXCEPT ![x] = "idle"]
    /\ UNCHANGED <<row, lock, runVars, tables, freeze, del, late>>

\* The daemon stops, or panics, and is started again.
Restart ==
    /\ run' = [r \in Runs |-> IF run[r] \in {"idle", "over"} THEN run[r] ELSE "killed"]
    /\ detached' = [r \in Runs |-> FALSE]
    /\ ended' = [r \in Runs |-> FALSE]
    /\ outcome' = [r \in Runs |-> "none"]
    /\ cancels' = NoRun /\ loop' = NoRun /\ progress' = NoRun
    /\ gauge' = 0
    /\ freeze' = [f \in Freezers |-> "idle"]
    /\ del' = [d \in Deleters |-> "idle"]
    /\ res' = [x \in Restorers |-> "idle"]
    /\ UNCHANGED <<row, lock, late>>

FreezeStep(f) ==
    \/ BeginFreeze(f) \/ SaveSpec(f) \/ LockSpec(f) \/ BumpStatus(f) \/ FailBump(f)

StartStep(r) ==
    \/ BeginStart(r) \/ RefuseStart(r) \/ MarkRunning(r)
    \/ SpawnDetached(r) \/ RunAttached(r)

ExecuteStep(r) ==
    \/ AbortEarly(r) \/ SetUp(r) \/ FailSetup(r) \/ EnterLoop(r)
    \/ LeaveLoop(r) \/ Report(r) \/ Cleanup(r)

DeleteStep(d) == BeginDelete(d) \/ DeleteRow(d) \/ Unlink(d)

RestoreStep(x) == BeginRestore(x) \/ EndRestore(x)

Next ==
    \/ \E f \in Freezers : FreezeStep(f)
    \/ \E r \in Runs : StartStep(r)
    \/ \E r \in Runs : ExecuteStep(r)
    \/ RequestStop
    \/ \E r \in Runs : Disconnect(r)
    \/ \E d \in Deleters : DeleteStep(d)
    \/ \E x \in Restorers : RestoreStep(x)
    \/ Restart

\* A run that is marked is scheduled until it is through, and the agent loop
\* ends: its iterations and the time of each call in it are bounded.  Nothing
\* is assumed of the other calls, and no fault has to occur.
Fairness ==
    \A r \in Runs : WF_vars(SpawnDetached(r) \/ RunAttached(r) \/ ExecuteStep(r))

Spec == Init /\ [][Next]_vars /\ Fairness

-----------------------------------------------------------------------------
(* Properties *)

Rows == {"created", "frozen", "running", "done", "stopped", "gone"}

RunPhases == {"idle", "checked", "marked", "spawned", "setup", "looping",
              "reporting", "reported", "aborted", "over", "killed"}

\* Every variable has its type; SessionsRunning never goes below zero.
TypeOK ==
    /\ row \in Rows
    /\ lock \in BOOLEAN
    /\ run \in [Runs -> RunPhases]
    /\ detached \in [Runs -> BOOLEAN]
    /\ ended \in [Runs -> BOOLEAN]
    /\ outcome \in [Runs -> {"none", "done", "stopped", "unsaid"}]
    /\ cancels \in Runs \cup {NoRun}
    /\ loop \in Runs \cup {NoRun}
    /\ progress \in Runs \cup {NoRun}
    /\ gauge \in Nat
    /\ freeze \in [Freezers -> {"idle", "saving", "locking", "bumping"}]
    /\ del \in [Deleters -> {"idle", "deleting", "unlinking"}]
    /\ res \in [Restorers -> {"idle", "writing"}]
    /\ late \in BOOLEAN

\* As long as no call has acted on a stale check, the row says running from
\* before a run's first side effect until its status is reported: the gates
\* of Start, Delete and Restore, which look at nothing else, can rely on it.
RowMatchesRun == ~late => (InFlight # {} => row = "running")

\* As long as no call has acted on a stale check, two runs of the session
\* never overlap, not even one with the cleanup of another.
RunsAlone == ~late => \A q, r \in InFlight \cup Published : q = r

\* RequestCompact and PostHint find a loop only while its run still has its
\* cleanup ahead of it, however many runs of the session overlap: a hint is
\* never queued on a loop that is over.
EntriesAreLive ==
    /\ loop # NoRun => loop \in Published
    /\ progress # NoRun => progress \in Published

Active == InFlight \cup Published \cup Aborted

\* SessionsRunning counts the runs that are in flight or were given up before
\* their cleanup was deferred, and a registered cancel func belongs to one of
\* those: whatever else ends, no run of the other kind leaks either.
AccountedFor ==
    /\ gauge = Cardinality(Active)
    /\ cancels # NoRun => cancels \in Active

\* A session moves only along created, frozen, running, done or stopped, and
\* is deleted only when it is not running, unless a call acts on a stale check.
StatusStep ==
    \/ row = "created" /\ row' = "frozen"
    \/ row = "frozen" /\ row' = "running"
    \/ row = "running" /\ row' \in {"done", "stopped"}
    \/ row # "running" /\ row' = "gone"

StatusMachine == [][~late' => StatusStep]_row

\* A deleted session stays deleted: no update of any call or run in flight
\* brings its row back.
GoneStaysGone == [][row = "gone" => row' = "gone"]_row

\* A run that is marked is reported in the row, unless its context was
\* cancelled, the daemon went down, or executeRun returned on an event
\* directory or a memory bank that cannot be made (run.go:957, 1260).
EveryRunReports ==
    \A r \in Runs : run[r] = "marked" ~>
        (row # "running" \/ ended[r] \/ run[r] = "killed" \/ outcome[r] = "unsaid")

\* What the documentation and the comments say.

\* "cannot restore while running; stop it first": stopping ends that.
StopUnblocks ==
    \A r \in Runs : (run[r] = "looping" /\ detached[r] /\ ended[r])
                    ~> (row # "running" \/ run[r] = "killed")

=============================================================================
