----------------------------- MODULE TurnEdits -----------------------------
(***************************************************************************)
(* What the tools of a chat turn do to the working directory, and what     *)
(* show_diff says of it: write_file, run_bash and verify                   *)
(* (agent_tools_write.go, agent_tools_plan_verify.go), edit_file           *)
(* (agent_tools_extra.go), apply_patch (apply_patch.go) and the tracker    *)
(* they share (turn_diff_tracker.go), of one session.                      *)
(*                                                                         *)
(* A file's content is a sequence of lines, or Absent.  A call that is     *)
(* refused before it touches tracker or file (bad arguments, a path        *)
(* outside the directory, a snippet that is not there exactly once)        *)
(* changes nothing and is no action.                                       *)
(***************************************************************************)
EXTENDS Integers, Sequences, SequencesExt

CONSTANTS
    Prompts,   \* Prompt calls of the session
    Files,     \* paths under the working directory
    Lines,     \* lines of text
    Contents,  \* bound: what write_file and a command may write
    Patches,   \* what apply_patch may be given: sequences of operations
    Snippets,  \* what edit_file may replace, and put in its place
    MaxCalls,  \* bound: tool calls
    Absent     \* the content of a file that does not exist

HunkTexts == [old : Seq(Lines), new : Seq(Lines)]
PatchOps ==
    [kind : {"add"}, file : Files, body : Seq(Lines)]
    \cup [kind : {"delete"}, file : Files]
    \cup [kind : {"update"}, file : Files, hunks : Seq(HunkTexts)]

ASSUME EditsAssumption ==
    /\ MaxCalls \in Nat /\ Absent \notin Seq(Lines)
    /\ Contents \subseteq Seq(Lines) /\ Snippets \subseteq Seq(Lines)
    /\ Patches \subseteq Seq(PatchOps) \ {<<>>}

VARIABLES
    disk,     \* the files
    tracked,  \* turnDiffTracker's files: original and current content
    polluted, \* its flag
    work,     \* how far a prompt's tool call is
    calls,    \* the number of tool calls
    base,     \* history: the files when the turn began
    shaken,   \* history: another prompt ran beside the turn
    failed    \* history: files of calls that failed after they were recorded

editVars == <<disk, tracked, polluted, work, calls, base, shaken, failed>>

NotTracked == [original |-> Absent, current |-> Absent, known |-> FALSE]
AtRest(step) == [step |-> step, ops |-> <<>>, at |-> 1, glimpse |-> Absent, out |-> <<>>]

EditsInit ==
    /\ disk \in [Files -> Contents \cup {Absent}]
    /\ tracked = [f \in Files |-> NotTracked]
    /\ polluted = FALSE
    /\ work = [p \in Prompts |-> AtRest("waiting")]
    /\ calls = 0
    /\ base = disk
    /\ shaken = FALSE
    /\ failed = {}

(* Where a hunk's old lines stand in a content (findContiguousMatches). *)
Matches(lines, old) ==
    {i \in 1..(Len(lines) - Len(old) + 1) : SubSeq(lines, i, i + Len(old) - 1) = old}

Splice(lines, i, old, new) ==
    SubSeq(lines, 1, i - 1) \o new \o SubSeq(lines, i + Len(old), Len(lines))

Unique(lines, old) == old # <<>> /\ \E i \in DOMAIN lines : Matches(lines, old) = {i}

OneHunk(lines, hunk) ==
    IF lines # Absent /\ Unique(lines, hunk.old)
    THEN Splice(lines, CHOOSE i \in Matches(lines, hunk.old) : TRUE, hunk.old, hunk.new)
    ELSE Absent

(* applyHunks: each hunk is looked for in what the ones before it made;   *)
(* Absent if one of them does not match exactly once.                      *)
AfterHunks(lines, hunks) == FoldLeft(OneHunk, lines, hunks)

(* applyPatch's planning: every operation against the file as it is.      *)
Fits(op) ==
    CASE op.kind = "add"    -> disk[op.file] = Absent
      [] op.kind = "delete" -> disk[op.file] # Absent
      [] op.kind = "update" -> disk[op.file] # Absent /\ AfterHunks(disk[op.file], op.hunks) # Absent

Result(op) ==
    CASE op.kind = "add"    -> op.body
      [] op.kind = "delete" -> Absent
      [] op.kind = "update" -> AfterHunks(disk[op.file], op.hunks)

Running(p) == work[p].step \notin {"waiting", "over"}

(* A faulty variant: the tracker goes on from the turn before.             *)
StartTurn_NoReset(p) ==
    /\ work[p].step = "waiting"
    /\ work' = [work EXCEPT ![p].step = "ready"]
    /\ base' = disk
    /\ shaken' = (\E q \in Prompts : Running(q))
    /\ failed' = {}
    /\ UNCHANGED <<disk, tracked, polluted, calls>>

(* The Prompt call resets the tracker. *)
StartTurn(p) ==
    /\ work[p].step = "waiting"
    /\ tracked' = [f \in Files |-> NotTracked]
    /\ polluted' = FALSE
    /\ work' = [work EXCEPT ![p].step = "ready"]
    /\ base' = disk
    /\ shaken' = (\E q \in Prompts : Running(q))
    /\ failed' = {}
    /\ UNCHANGED <<disk, calls>>

EndTurn(p) ==
    /\ work[p].step = "ready"
    /\ work' = [work EXCEPT ![p] = AtRest("over")]
    /\ UNCHANGED <<disk, tracked, polluted, calls, base, shaken, failed>>

Begin(p, step, ops, out) ==
    /\ work[p].step = "ready" /\ calls < MaxCalls /\ calls' = calls + 1
    /\ work' = [work EXCEPT ![p] = [AtRest(step) EXCEPT !.ops = ops, !.out = out]]
    /\ UNCHANGED <<disk, tracked, polluted, base, shaken, failed>>

WriteFile(p, f, body) ==
    Begin(p, "look", <<[kind |-> "write", file |-> f]>>, <<body>>)

(* The new content is worked out from what the call has read. *)
EditFile(p, f, old, new) ==
    /\ disk[f] # Absent /\ Unique(disk[f], old)
    /\ Begin(p, "look", <<[kind |-> "edit", file |-> f]>>,
             <<OneHunk(disk[f], [old |-> old, new |-> new])>>)

ApplyPatch(p, patch) == Begin(p, "look", patch, <<>>)

(* The next file to record, or on to the writing; a patch is planned once  *)
(* all its files are recorded.                                             *)
NextFile(w) ==
    IF w.at < Len(w.ops) THEN [w EXCEPT !.step = "look", !.at = @ + 1]
    ELSE [w EXCEPT !.step = IF w.out = <<>> THEN "plan" ELSE "write", !.at = 1, !.glimpse = Absent]

(* recordPreWrite reads the file between two critical sections. *)
Look(p) ==
    LET w == work[p]  f == w.ops[w.at].file
    IN  /\ w.step = "look"
        /\ work' = [work EXCEPT ![p] =
             IF tracked[f].known THEN NextFile(w) ELSE [w EXCEPT !.step = "keep", !.glimpse = disk[f]]]
        /\ UNCHANGED <<disk, tracked, polluted, calls, base, shaken, failed>>

Keep(p) ==
    LET w == work[p]  f == w.ops[w.at].file
    IN  /\ w.step = "keep"
        /\ tracked' = IF tracked[f].known THEN tracked
                      ELSE [tracked EXCEPT ![f] = [NotTracked EXCEPT !.original = w.glimpse, !.known = TRUE]]
        /\ work' = [work EXCEPT ![p] = NextFile(w)]
        /\ UNCHANGED <<disk, polluted, calls, base, shaken, failed>>

(* applyPatch plans against the files as they now are. *)
PlanPatch(p) ==
    LET w == work[p]
    IN  /\ w.step = "plan"
        /\ \A i \in DOMAIN w.ops : Fits(w.ops[i])
        /\ work' = [work EXCEPT ![p] = [w EXCEPT !.step = "write",
                                        !.out = [i \in DOMAIN w.ops |-> Result(w.ops[i])]]]
        /\ UNCHANGED <<disk, tracked, polluted, calls, base, shaken, failed>>

(* A file is written beside its place and renamed into it, or removed. *)
WriteOne(p) ==
    LET w == work[p]
    IN  /\ w.step = "write"
        /\ disk' = [disk EXCEPT ![w.ops[w.at].file] = w.out[w.at]]
        /\ work' = [work EXCEPT ![p] =
             IF w.at < Len(w.ops) THEN [w EXCEPT !.at = @ + 1]
             ELSE [w EXCEPT !.step = "record", !.at = 1]]
        /\ UNCHANGED <<tracked, polluted, calls, base, shaken, failed>>

FilesOf(ops) == {ops[i].file : i \in DOMAIN ops}

(* A plan that does not fit, or a write or rename that fails: the call    *)
(* returns at once.  rollback has no body: what was written stays.         *)
Fails(p) ==
    LET w == work[p]
    IN  /\ \/ w.step = "plan" /\ \E i \in DOMAIN w.ops : ~Fits(w.ops[i])
           \/ w.step = "write"
        /\ work' = [work EXCEPT ![p] = AtRest("ready")]
        /\ failed' = failed \cup FilesOf(w.ops)
        /\ UNCHANGED <<disk, tracked, polluted, calls, base, shaken>>

(* recordPostWrite: what write_file and edit_file wrote, or what is there *)
(* now for apply_patch.  The file it reads may be gone by then.            *)
RecordOne(p) ==
    LET w == work[p]  f == w.ops[w.at].file
        kind == w.ops[w.at].kind
        now == CASE kind \in {"write", "edit"} -> w.out[w.at]
                 [] kind = "delete" -> Absent
                 [] OTHER -> disk[f]
        skipped == kind \in {"add", "update"} /\ disk[f] = Absent
    IN  /\ w.step = "record"
        /\ tracked' = IF skipped THEN tracked
                      ELSE [tracked EXCEPT ![f].current = now, ![f].known = TRUE]
        /\ failed' = IF skipped THEN failed ELSE failed \ {f}
        /\ work' = [work EXCEPT ![p] =
             IF w.at < Len(w.ops) THEN [w EXCEPT !.at = @ + 1] ELSE AtRest("ready")]
        /\ UNCHANGED <<disk, polluted, calls, base, shaken>>

(* run_bash and verify mark the tracker before the command starts; while  *)
(* it runs, it may change any file.                                        *)
RunCommand(p) ==
    /\ work[p].step = "ready" /\ calls < MaxCalls /\ calls' = calls + 1
    /\ polluted' = TRUE
    /\ work' = [work EXCEPT ![p] = AtRest("command")]
    /\ UNCHANGED <<disk, tracked, base, shaken, failed>>

CommandWrites(p, f, body) ==
    /\ work[p].step = "command"
    /\ disk' = [disk EXCEPT ![f] = body]
    /\ UNCHANGED <<tracked, polluted, work, calls, base, shaken, failed>>

CommandEnds(p) ==
    /\ work[p].step = "command"
    /\ work' = [work EXCEPT ![p] = AtRest("ready")]
    /\ UNCHANGED <<disk, tracked, polluted, calls, base, shaken, failed>>

EditsNext ==
    \E p \in Prompts :
        \/ StartTurn(p) \/ EndTurn(p)
        \/ \E f \in Files, body \in Contents : WriteFile(p, f, body)
        \/ \E f \in Files, old, new \in Snippets : EditFile(p, f, old, new)
        \/ \E patch \in Patches : ApplyPatch(p, patch)
        \/ Look(p) \/ Keep(p) \/ PlanPatch(p)
        \/ WriteOne(p) \/ Fails(p) \/ RecordOne(p)
        \/ RunCommand(p) \/ CommandEnds(p)
        \/ \E f \in Files, body \in Contents \cup {Absent} : CommandWrites(p, f, body)

EditsSpec == EditsInit /\ [][EditsNext]_editVars

-----------------------------------------------------------------------------

Content == Seq(Lines)
Kinds == {"write", "edit", "add", "delete", "update"}
Steps == {"waiting", "over", "ready", "look", "keep", "plan", "write", "record", "command"}

(* Every reachable state is well typed: files hold lines, a call has as    *)
(* many results as operations and is at one of them.                       *)
EditsTypeOK ==
    /\ \A f \in Files :
         /\ disk[f] = Absent \/ disk[f] \in Content
         /\ base[f] = Absent \/ base[f] \in Content
         /\ tracked[f].known \/ tracked[f] = NotTracked
    /\ polluted \in BOOLEAN /\ shaken \in BOOLEAN /\ failed \subseteq Files /\ calls \in 0..MaxCalls
    /\ \A p \in Prompts :
         LET w == work[p]
         IN  /\ w.step \in Steps /\ \A i \in DOMAIN w.ops : w.ops[i].kind \in Kinds
             /\ w.step \in {"look", "keep", "plan", "write", "record"} => w.at \in DOMAIN w.ops
             /\ w.step \in {"write", "record"} => DOMAIN w.out = DOMAIN w.ops

(* Between two calls of a turn, show_diff and apply_diff tell the truth    *)
(* about every file: what is tracked has the content it had when the turn  *)
(* began and the content it has now, and what is not tracked is as it was. *)
(* There are three ways to lose that, and no other: a command ran (and the *)
(* diff says so), a call failed on the file after it was recorded, or two  *)
(* prompts of the session overlap.                                         *)
DiffTellsTruth ==
    \A p \in Prompts : work[p].step = "ready" /\ ~polluted /\ ~shaken =>
        \A f \in Files \ failed :
            IF tracked[f].known
            THEN tracked[f].original = base[f] /\ tracked[f].current = disk[f]
            ELSE disk[f] = base[f]

=============================================================================
