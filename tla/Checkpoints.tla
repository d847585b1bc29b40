---------------------------- MODULE Checkpoints ----------------------------
(***************************************************************************)
(* The checkpoints of a session: a shadow git repository whose work tree   *)
(* is the workspace (core/checkpoint).  The loop of a run commits one      *)
(* after each iteration and may roll back to the one before the last; a    *)
(* Restore or a Diff of any client works on the same repository, one git   *)
(* command at a time, with no lock between them and the loop.              *)
(*                                                                         *)
(* The service gives its loop no recovery strategy: a run that rolls back  *)
(* (PickSection, ResetSection) is one whose loop was given reset_section.  *)
(***************************************************************************)
EXTENDS Integers, Sequences

CONSTANTS Docs,        \* paths of the workspace
          NoDoc,       \* what a path without a file holds
          ToAdd,        \* what `add -N` puts in the index for a new file
          Drafts,      \* contents of a file
          Viewers,     \* clients that call Restore and Diff
          MaxCommits   \* bound on the commits ever made

ASSUME CheckpointsAssumption == MaxCommits \in Nat /\ {NoDoc, ToAdd} \cap Drafts = {} /\ NoDoc # ToAdd

VARIABLES
    bench,     \* the files of the workspace
    staged,    \* git's index: a content, NoDoc or ToAdd for each path
    commits,   \* every commit made: its tree and its parent
    head,      \* the commit HEAD names, 0 before the first
    looping,   \* where the run's loop is
    viewing,   \* where each client's call is
    kept,      \* the snapshots the loop took and did not roll back, oldest first
    raced      \* did a call write the index or HEAD inside the loop's own commands?

checkpointVars == <<bench, staged, commits, head, looping, viewing, kept, raced>>

Snapshots == [Docs -> Drafts \cup {NoDoc}]
NoTree == [d \in Docs |-> NoDoc]

(* `git log` on HEAD, oldest first; the code lists it newest first. *)
LogTo[c \in 0..MaxCommits] ==
    IF c = 0 \/ c > Len(commits) THEN <<>> ELSE Append(LogTo[commits[c].parent], c)
ListCommits == LogTo[head]

(***************************************************************************)
(* The git commands.                                                       *)
(***************************************************************************)
(* Files that are only marked are in no tree. *)
TreeOf(index) == [d \in Docs |-> IF index[d] = ToAdd THEN NoDoc ELSE index[d]]

(* `checkout <sha> -- .` writes the tree's files and leaves every other.   *)
Overlaid(files, tree_) == [d \in Docs |-> IF tree_[d] = NoDoc THEN files[d] ELSE tree_[d]]

(* `reset --hard <sha>` also removes the files of the index.               *)
Hard(files, index, tree_) ==
    [d \in Docs |-> IF tree_[d] = NoDoc /\ index[d] = NoDoc THEN files[d] ELSE tree_[d]]

(* `add -N -- :/` marks the files the index has not.                       *)
Marked(files, index) ==
    [d \in Docs |-> IF index[d] = NoDoc /\ files[d] # NoDoc THEN ToAdd ELSE index[d]]

(***************************************************************************)
(* The run.                                                                *)
(***************************************************************************)
LoopOff == [at |-> "off"]
LoopTop == [at |-> "top"]
NotViewing == [at |-> "idle"]

CheckpointsInit ==
    /\ bench \in Snapshots /\ staged = NoTree
    /\ commits = <<>> /\ head = 0
    /\ looping = LoopOff
    /\ viewing = [v \in Viewers |-> NotViewing]
    /\ kept = <<>> /\ raced = FALSE

(* The row says running from here until the loop returns. *)
EnterLoop ==
    /\ looping = LoopOff
    /\ looping' = LoopTop
    /\ UNCHANGED <<bench, staged, commits, head, viewing, kept, raced>>

(* Done, stopped or died: whatever git command was next is not given.      *)
LeaveLoop ==
    /\ looping # LoopOff
    /\ looping' = LoopOff
    /\ UNCHANGED <<bench, staged, commits, head, viewing, kept, raced>>

(* A tool of the run or the user writes or removes a file.                 *)
WriteDoc(d, content) ==
    /\ bench[d] # content
    /\ bench' = [bench EXCEPT ![d] = content]
    /\ UNCHANGED <<staged, commits, head, looping, viewing, kept, raced>>

(* Commit, first half: `add -A`. *)
StageAll ==
    /\ looping = LoopTop /\ Len(commits) < MaxCommits
    /\ staged' = bench
    /\ looping' = [at |-> "staged", seen |-> bench]
    /\ UNCHANGED <<bench, commits, head, viewing, kept, raced>>

(* Commit, second half: `commit --allow-empty`. *)
CommitStaged ==
    /\ looping.at = "staged"
    /\ commits' = Append(commits, [tree |-> TreeOf(staged), parent |-> head])
    /\ head' = Len(commits')
    /\ kept' = Append(kept, looping.seen)
    /\ looping' = LoopTop
    /\ UNCHANGED <<bench, staged, viewing, raced>>

(* A git command of the loop fails (another holds index.lock): the run     *)
(* notes it and goes on.                                                   *)
LoopGitFails ==
    /\ looping.at \in {"staged", "rolling"}
    /\ looping' = LoopTop
    /\ UNCHANGED <<bench, staged, commits, head, viewing, kept, raced>>

(* reset_section picks the second newest of at least two checkpoints ...   *)
PickSection ==
    /\ looping = LoopTop
    /\ Len(ListCommits) >= 2
    /\ looping' = [at |-> "rolling", to |-> ListCommits[Len(ListCommits) - 1]]
    /\ UNCHANGED <<bench, staged, commits, head, viewing, kept, raced>>

(* ... and the loop hard-resets to it. *)
ResetSection ==
    /\ looping.at = "rolling"
    /\ LET target == commits[looping.to].tree IN
       /\ bench' = Hard(bench, staged, target)
       /\ staged' = target
    /\ head' = looping.to
    /\ kept' = SubSeq(kept, 1, Len(kept) - 1)
    /\ looping' = LoopTop
    /\ UNCHANGED <<commits, viewing, raced>>

(***************************************************************************)
(* Restore.                                                                *)
(***************************************************************************)
Viewing(v, stage) == viewing[v].at = stage
GoesOn(v, call) == viewing' = [viewing EXCEPT ![v] = call]

(* Refused while the row says running; otherwise the call goes on with     *)
(* what the row said.                                                      *)
AskRestore(v) ==
    /\ Viewing(v, "idle")
    /\ looping = LoopOff
    /\ GoesOn(v, [at |-> "asked"])
    /\ UNCHANGED <<bench, staged, commits, head, looping, kept, raced>>

RestoreSteps == (-MaxCommits..MaxCommits) \ {0}

(* A faulty variant: positive steps count from the newest as well.         *)
Target_Newest(list, k) == IF k > 0 THEN k - 1 ELSE -k - 1

(* Positive steps count from the oldest, negative ones from the newest: the*)
(* place in the log, which is newest first and counts from 0.              *)
Target(list, k) == IF k > 0 THEN Len(list) - k ELSE -k - 1

(* What the caller is promised: the k-th kept snapshot, oldest first.      *)
Promised(k) ==
    LET i == IF k > 0 THEN k ELSE Len(kept) + 1 + k
    IN  IF i \in DOMAIN kept THEN kept[i] ELSE NoTree

ResolveStep(v, k) ==
    LET idx == Target(ListCommits, k)
        newestFirst(n) == ListCommits[Len(ListCommits) - n]
    IN  /\ Viewing(v, "asked")
        /\ idx \in 0..(Len(ListCommits) - 1)
        /\ GoesOn(v, [at |-> "picked", to |-> newestFirst(idx), meant |-> Promised(k)])
        /\ UNCHANGED <<bench, staged, commits, head, looping, kept, raced>>

(* `checkout <sha> -- .`: git refuses it for a commit without files.       *)
CheckOut(v) ==
    /\ Viewing(v, "picked")
    /\ LET target == commits[viewing[v].to].tree IN
       /\ target # NoTree
       /\ bench' = Overlaid(bench, target)
       /\ staged' = Overlaid(staged, target)
    /\ raced' = (raced \/ looping.at = "staged")
    /\ GoesOn(v, NotViewing)
    /\ UNCHANGED <<commits, head, looping, kept>>

(***************************************************************************)
(* Diff.                                                                   *)
(***************************************************************************)
(* No checkpoint yet: the reply says so. *)
ListForDiff(v) ==
    /\ Viewing(v, "idle")
    /\ ListCommits # <<>>
    /\ GoesOn(v, [at |-> "listed", to |-> head])
    /\ UNCHANGED <<bench, staged, commits, head, looping, kept, raced>>

MarkNew(v) ==
    /\ Viewing(v, "listed")
    /\ staged' = Marked(bench, staged)
    /\ GoesOn(v, [viewing[v] EXCEPT !.at = "marked"])
    /\ UNCHANGED <<bench, commits, head, looping, kept, raced>>

(* The deferred `reset --mixed` to the commit that was the newest when the *)
(* call listed them: it moves HEAD as well as the index.                   *)
ResetAfterDiff(v) ==
    /\ Viewing(v, "marked")
    /\ staged' = commits[viewing[v].to].tree
    /\ head' = viewing[v].to
    /\ raced' = (raced \/ looping.at = "staged" \/ head # viewing[v].to)
    /\ GoesOn(v, NotViewing)
    /\ UNCHANGED <<bench, commits, looping, kept>>

(* The call fails, its step is out of range, or git finds index.lock.  The *)
(* deferred reset of a Diff is given in any case, and may fail as well.    *)
CallFails(v) ==
    /\ viewing[v].at \in {"asked", "picked", "marked"}
    /\ GoesOn(v, NotViewing)
    /\ UNCHANGED <<bench, staged, commits, head, looping, kept, raced>>

MarkFails(v) ==
    /\ Viewing(v, "listed")
    /\ GoesOn(v, [viewing[v] EXCEPT !.at = "marked"])
    /\ UNCHANGED <<bench, staged, commits, head, looping, kept, raced>>

CheckpointsNext ==
    \/ EnterLoop \/ LeaveLoop \/ StageAll \/ CommitStaged \/ LoopGitFails \/ PickSection \/ ResetSection
    \/ \E d \in Docs, content \in Drafts \cup {NoDoc} : WriteDoc(d, content)
    \/ \E v \in Viewers :
          \/ AskRestore(v) \/ CheckOut(v) \/ CallFails(v)
          \/ \E k \in RestoreSteps : ResolveStep(v, k)
          \/ ListForDiff(v) \/ MarkNew(v) \/ ResetAfterDiff(v) \/ MarkFails(v)

CheckpointsSpec == CheckpointsInit /\ [][CheckpointsNext]_checkpointVars

CheckpointsTypeOK ==
    /\ bench \in Snapshots
    /\ staged \in [Docs -> Drafts \cup {NoDoc, ToAdd}]
    /\ head \in 0..Len(commits)
    /\ \A c \in DOMAIN commits : commits[c].tree \in Snapshots /\ commits[c].parent \in 0..(c - 1)
    /\ \A i \in DOMAIN kept : kept[i] \in Snapshots
    /\ looping.at \in {"off", "top", "staged", "rolling"}
    /\ \A v \in Viewers : viewing[v].at \in {"idle", "asked", "picked", "listed", "marked"}
    /\ raced \in BOOLEAN

(***************************************************************************)
(* Properties                                                              *)
(***************************************************************************)
Holds(files, snapshot) == \A d \in Docs : snapshot[d] # NoDoc => files[d] = snapshot[d]

(* Restore gives the workspace back every file of the checkpoint its step  *)
(* names, counted among the ones the loop took and did not roll back, and  *)
(* reset_section those of the one before the last, however commits,        *)
(* rollbacks, edits, failed git commands and other calls came between      *)
(* (run.go:1579-1581, recovery.go:234-236) - unless some call wrote the    *)
(* index or HEAD in the middle of the loop's own commands.                 *)
RestoreGoesBack ==
    [][~raced =>
          /\ \A v \in Viewers : CheckOut(v) => Holds(bench', viewing[v].meant)
          /\ ResetSection => Holds(bench', kept[Len(kept) - 1])]_checkpointVars

(* run_extras.go:185-187 says of the reset after a diff that it "leaves    *)
(* the shadow git state untouched for the next checkpoint cycle": the log  *)
(* would be the same before and after it.                                  *)
DiffLeavesCheckpoints ==
    [][\A v \in Viewers : ResetAfterDiff(v) => head' = head]_checkpointVars

=============================================================================
