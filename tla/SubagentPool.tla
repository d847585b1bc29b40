---------------------------- MODULE SubagentPool ----------------------------
(***************************************************************************)
(* The subagents of root sessions: spawn_agent and wait_agent              *)
(* (server/internal/service/agent_tools_subagent.go), and the registry     *)
(* that caps how many of them a root has at once (subagent_registry.go).   *)
(*                                                                         *)
(* A slot is counted when spawn_agent begins.  Its release closure is left *)
(* in SessionService.subagentReleases once the child is started, and a     *)
(* wait_agent that sees the child over takes it from there and calls it.   *)
(*                                                                         *)
(* A child here is one call of spawn_agent by its root.  A subagent's own  *)
(* calls are refused by depth before anything changes.  What a run does is *)
(* AgentLoop's and RunLifecycle's matter: here it is alive, and ends.      *)
(***************************************************************************)
EXTENDS Integers, Sequences, FiniteSets

CONSTANTS
    Children,    \* spawn_agent calls
    Roots,       \* root sessions
    RootOf,      \* the root that makes the call
    LabelOf,     \* the label it gives its child
    MaxPerRoot,  \* subagentMaxPerRoot
    Waiters,     \* concurrent wait_agent calls
    Nobody,      \* not a child
    MaxRestarts  \* bound: how often the daemon dies

ASSUME PoolAssumption ==
    /\ IsFiniteSet(Children)
    /\ RootOf \in [Children -> Roots]
    /\ MaxPerRoot \in Nat \ {0}
    /\ Nobody \notin Children

VARIABLES
    count,     \* subagentRegistry.activePerRoot
    spawn,     \* how far a spawn_agent call has got
    row,       \* the status of the child's session row
    born,      \* the rows in the order of their created_at
    alive,     \* the children whose run's goroutine is there
    releases,  \* subagentReleaseRegistry.entries, by child
    wait,      \* a wait_agent call: what it does and for whom
    doomed,    \* the children that a Delete has found not to be running
    restarts

poolVars == <<count, spawn, row, born, alive, releases, wait, doomed, restarts>>

Free == [does |-> "nothing", child |-> Nobody]

PoolInit ==
    /\ count = [r \in Roots |-> 0]
    /\ spawn = [c \in Children |-> "idle"]
    /\ row = [c \in Children |-> "none"]
    /\ born = <<>>
    /\ alive = {}
    /\ releases = {}
    /\ wait = [w \in Waiters |-> Free]
    /\ doomed = {}
    /\ restarts = 0

-----------------------------------------------------------------------------
(* spawn_agent. *)

\* subagentRegistry.spawn; at the cap the call is refused and changes nothing.
ReserveSlot(c) ==
    /\ spawn[c] = "idle"
    /\ count[RootOf[c]] < MaxPerRoot
    /\ count' = [count EXCEPT ![RootOf[c]] = @ + 1]
    /\ spawn' = [spawn EXCEPT ![c] = "reserved"]
    /\ UNCHANGED <<row, born, alive, releases, wait, doomed, restarts>>

CreateRow(c) ==
    /\ spawn[c] = "reserved"
    /\ spawn' = [spawn EXCEPT ![c] = "created"]
    /\ row' = [row EXCEPT ![c] = "created"]
    /\ born' = Append(born, c)
    /\ UNCHANGED <<count, alive, releases, wait, doomed, restarts>>

\* The child's spec is sliced off its root's, saved and locked, and the row
\* marked frozen, if it is still there.
FreezeRow(c) ==
    /\ spawn[c] = "created"
    /\ row[c] = "created"
    /\ spawn' = [spawn EXCEPT ![c] = "frozen"]
    /\ row' = [row EXCEPT ![c] = "frozen"]
    /\ UNCHANGED <<count, born, alive, releases, wait, doomed, restarts>>

\* RunService.Start, detached.
StartRun(c) ==
    /\ spawn[c] = "frozen"
    /\ row[c] = "frozen"
    /\ spawn' = [spawn EXCEPT ![c] = "started"]
    /\ row' = [row EXCEPT ![c] = "running"]
    /\ alive' = alive \cup {c}
    /\ UNCHANGED <<count, born, releases, wait, doomed, restarts>>

\* registerSubagentRelease: spawn_agent returns the child's id.
Register(c) ==
    /\ spawn[c] = "started"
    /\ spawn' = [spawn EXCEPT ![c] = "returned"]
    /\ releases' = releases \cup {c}
    /\ UNCHANGED <<count, row, born, alive, wait, doomed, restarts>>

\* subagentRegistry.release.
Lower(r) == [count EXCEPT ![r] = IF @ > 1 THEN @ - 1 ELSE 0]

\* A faulty variant: the release deferred, whether or not the run started.
SpawnFails_Late(c) ==
    /\ spawn[c] \in {"reserved", "created", "frozen", "started"}
    /\ spawn' = [spawn EXCEPT ![c] = "failed"]
    /\ count' = Lower(RootOf[c])
    /\ UNCHANGED <<row, born, alive, releases, wait, doomed, restarts>>

\* A step up to the start fails; the rows and files before it stay.
SpawnFails(c) ==
    /\ spawn[c] \in {"reserved", "created", "frozen"}
    /\ spawn' = [spawn EXCEPT ![c] = "failed"]
    /\ count' = Lower(RootOf[c])
    /\ UNCHANGED <<row, born, alive, releases, wait, doomed, restarts>>

-----------------------------------------------------------------------------
(* The child's run, and what else happens to its row. *)

\* executeRun writes "done" or "stopped".
Report(c) ==
    /\ c \in alive
    /\ alive' = alive \ {c}
    /\ row' = [row EXCEPT ![c] = IF @ = "gone" THEN "gone" ELSE "over"]
    /\ UNCHANGED <<count, spawn, born, releases, wait, doomed, restarts>>

\* It ends without writing it: the write fails, as it does after a stop that
\* cancels its context, or executeRun returns before there is a loop.
EndUnreported(c) ==
    /\ c \in alive
    /\ alive' = alive \ {c}
    /\ UNCHANGED <<count, spawn, row, born, releases, wait, doomed, restarts>>

\* SessionService.Delete looks at the status first ...
CheckDelete(c) ==
    /\ row[c] \in {"created", "frozen", "over"}
    /\ doomed' = doomed \cup {c}
    /\ UNCHANGED <<count, spawn, row, born, alive, releases, wait, restarts>>

\* ... and deletes the row, whatever became of it since.
DeleteRow(c) ==
    /\ c \in doomed
    /\ doomed' = doomed \ {c}
    /\ row' = [row EXCEPT ![c] = "gone"]
    /\ UNCHANGED <<count, spawn, born, alive, releases, wait, restarts>>

-----------------------------------------------------------------------------
(* wait_agent. *)

\* ListChildren's first child with the label.
FirstNamed(r, name) ==
    LET kids == SelectSeq(born, LAMBDA c :
                    row[c] # "gone" /\ RootOf[c] = r /\ LabelOf[c] = name)
    IN  IF kids = <<>> THEN Nobody ELSE kids[1]

\* By id, which is known when spawn_agent has returned, or by label.
BeginWait(w, c) ==
    /\ wait[w].does = "nothing"
    /\ spawn[c] = "returned" \/ c = FirstNamed(RootOf[c], LabelOf[c])
    /\ wait' = [wait EXCEPT ![w] = [does |-> "polls", child |-> c]]
    /\ UNCHANGED <<count, spawn, row, born, alive, releases, doomed, restarts>>

\* isTerminalStatus.
Terminal == {"over"}

\* A faulty variant: the closure left where it is.
TakeRelease_Keeps(w) ==
    /\ wait[w].does = "polls"
    /\ row[wait[w].child] \in Terminal
    /\ wait' = [wait EXCEPT ![w] =
            IF wait[w].child \in releases
            THEN [does |-> "releases", child |-> wait[w].child] ELSE Free]
    /\ UNCHANGED <<count, spawn, row, born, alive, releases, doomed, restarts>>

\* The child is over: releaseSubagent takes its closure, if there is one.
TakeRelease(w) ==
    /\ wait[w].does = "polls"
    /\ row[wait[w].child] \in Terminal
    /\ wait' = [wait EXCEPT ![w] =
            IF wait[w].child \in releases
            THEN [does |-> "releases", child |-> wait[w].child] ELSE Free]
    /\ releases' = releases \ {wait[w].child}
    /\ UNCHANGED <<count, spawn, row, born, alive, doomed, restarts>>

\* ... and calls it.
Release(w) ==
    /\ wait[w].does = "releases"
    /\ count' = Lower(RootOf[wait[w].child])
    /\ wait' = [wait EXCEPT ![w] = Free]
    /\ UNCHANGED <<spawn, row, born, alive, releases, doomed, restarts>>

\* A faulty variant: a wait that only its caller's context ends.
GiveUpWait_NoDeadline(w) ==
    /\ wait[w].does = "polls"
    /\ row[wait[w].child] = "gone"
    /\ wait' = [wait EXCEPT ![w] = Free]
    /\ UNCHANGED <<count, spawn, row, born, alive, releases, doomed, restarts>>

\* The deadline passes, the context is cancelled, or the row is gone.
GiveUpWait(w) ==
    /\ wait[w].does = "polls"
    /\ wait' = [wait EXCEPT ![w] = Free]
    /\ UNCHANGED <<count, spawn, row, born, alive, releases, doomed, restarts>>

-----------------------------------------------------------------------------

\* The daemon dies and starts again: rows stay as they are, all else is lost.
Restart ==
    /\ restarts < MaxRestarts
    /\ restarts' = restarts + 1
    /\ count' = [r \in Roots |-> 0]
    /\ spawn' = [c \in Children |->
            IF spawn[c] \in {"reserved", "created", "frozen", "started"} THEN "failed" ELSE spawn[c]]
    /\ alive' = {}
    /\ releases' = {}
    /\ wait' = [w \in Waiters |-> Free]
    /\ doomed' = {}
    /\ UNCHANGED <<row, born>>

PoolNext ==
    \/ \E c \in Children :
        \/ ReserveSlot(c) \/ CreateRow(c) \/ FreezeRow(c) \/ StartRun(c) \/ Register(c)
        \/ SpawnFails(c) \/ Report(c) \/ EndUnreported(c) \/ CheckDelete(c) \/ DeleteRow(c)
        \/ \E w \in Waiters : BeginWait(w, c)
    \/ \E w \in Waiters : TakeRelease(w) \/ Release(w) \/ GiveUpWait(w)
    \/ Restart

PoolSafety == PoolInit /\ [][PoolNext]_poolVars

\* A wait polls until it is over or its deadline has passed, and gives back
\* what it took.  Nothing is assumed of a child, or that anyone waits.
PoolFairness == \A w \in Waiters : WF_poolVars(TakeRelease(w) \/ GiveUpWait(w) \/ Release(w))

PoolSpec == PoolSafety /\ PoolFairness

-----------------------------------------------------------------------------
(* Properties. *)

InFlight == {c \in Children : spawn[c] \in {"reserved", "created", "frozen", "started"}}

Firing == {wait[w].child : w \in {v \in Waiters : wait[v].does = "releases"}}

\* Whoever has a slot to give back: a spawn_agent that is not through, a
\* closure that waits to be taken, a wait_agent that has taken one.
Holders == InFlight \cup releases \cup Firing

HoldersOf(r) == {c \in Holders : RootOf[c] = r}

\* Every variable has its type, and no count exceeds the cap.
PoolTypeOK ==
    /\ count \in [Roots -> 0..MaxPerRoot]
    /\ spawn \in [Children -> {"idle", "reserved", "created", "frozen", "started", "returned", "failed"}]
    /\ row \in [Children -> {"none", "created", "frozen", "running", "over", "gone"}]
    /\ born \in Seq(Children)
    /\ alive \subseteq Children
    /\ releases \subseteq Children
    /\ wait \in [Waiters -> [does : {"nothing", "polls", "releases"}, child : Children \cup {Nobody}]]
    /\ doomed \subseteq Children
    /\ restarts \in Nat

\* The count of a root (activePerRoot) is the number of its subagents that
\* still have a slot to give back: none is released twice, by two wait_agent
\* calls or by a spawn_agent that fails, and none is forgotten.
SlotsAddUp == \A r \in Roots : count[r] = Cardinality(HoldersOf(r))

\* Never more subagents of a root run at once than it has slots
\* (subagentMaxPerRoot), whoever deletes rows, waits, fails or restarts.
RunsWithinCap == \A r \in Roots : Cardinality({c \in alive : RootOf[c] = r}) <= MaxPerRoot

\* Every wait_agent returns, though its child may never end or may end
\* without a word: a caller is never at one for ever.
EveryWaitReturns == \A w \in Waiters : []<>(wait[w].does = "nothing")

\* The registry is a pool of slots: a slot is given back once, and only by a
\* subagent that does not run.
Pool == INSTANCE SlotPool WITH held <- Holders, running <- alive
KeepsPool == Pool!Spec

=============================================================================
