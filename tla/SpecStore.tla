----------------------------- MODULE SpecStore -----------------------------
(***************************************************************************)
(* The frozen spec of a session on disk: spec.yaml and spec.lock           *)
(* (core/specstore/store.go, core/spec/spec.go), the freeze_spec calls     *)
(* that write them (agent_tools_lifecycle.go) and the loads of runs and    *)
(* tools.  os.WriteFile empties the file and then writes it in one go; the *)
(* daemon may crash between any two steps.                                 *)
(*                                                                         *)
(* A spec is named by the call that built it, as its id is new.  A hash is *)
(* what it is the hash of.  The content of spec.lock is never read.        *)
(***************************************************************************)
EXTENDS FiniteSets

CONSTANTS
    Freezes,  \* calls of freeze_spec
    Readers,  \* goroutines that load the spec
    NoFile, Empty, Torn,  \* spec.yaml missing, emptied, of two writes
    NoSeal    \* no content_sha256

VARIABLES
    yaml,    \* spec.yaml: its spec and content_sha256
    lock,    \* spec.lock is there
    call,    \* a freeze_spec call: its step and the spec it has loaded
    read,    \* a load: its step and what it has read
    given,   \* history: specs returned by loads that found the lock; those
             \* of loads that began behind it
    sealed,  \* history: specs whose hash a Freeze computed
    overlap  \* history: two freeze_spec calls ran at a time

specVars == <<yaml, lock, call, read, given, sealed, overlap>>

Sealed(x) == [spec |-> x, sha |-> x]
Unsealed(x) == [spec |-> x, sha |-> NoSeal]
Bad == {NoFile, Empty, Torn}
Specs == [spec : Freezes, sha : Freezes \cup {NoSeal}]
YamlTexts == Bad \cup Specs

ASSUME SpecAssumption == NoSeal \notin Freezes /\ Bad \cap Specs = {}

(* VerifyLock: the hash inside the file against the file's content.        *)
VerifyLock(data) == data.sha = data.spec

SpecInit ==
    /\ yaml = NoFile /\ lock = FALSE
    /\ call = [f \in Freezes |-> [step |-> "new", data |-> NoFile]]
    /\ read = [r \in Readers |-> [step |-> "idle", data |-> NoFile, late |-> FALSE]]
    /\ given = {} /\ sealed = {} /\ overlap = FALSE

Over == {"done", "failed"}
AtWork(f) == call[f].step \notin Over \cup {"new"}
Moves(f, from, to) == call[f].step = from /\ call' = [call EXCEPT ![f].step = to]

(* The tool's own look, and Save's. *)
BeginFreeze(f) ==
    /\ Moves(f, "new", IF lock THEN "failed" ELSE "begun")
    /\ overlap' = (overlap \/ \E g \in Freezes : AtWork(g))
    /\ UNCHANGED <<yaml, lock, read, given, sealed>>

MayWrite(f) ==
    /\ Moves(f, "begun", IF lock THEN "failed" ELSE "saving")
    /\ UNCHANGED <<yaml, lock, read, given, sealed, overlap>>

(* os.WriteFile: what is not empty any more when it writes was written     *)
(* since it emptied the file, and its end may stay behind a shorter text.  *)
EmptyYaml(f, from, to) ==
    /\ Moves(f, from, to) /\ yaml' = Empty
    /\ UNCHANGED <<lock, read, given, sealed, overlap>>

PutYaml(f, from, to, text) ==
    /\ Moves(f, from, to)
    /\ yaml' \in IF yaml = Empty THEN {text} ELSE {text, Torn}
    /\ UNCHANGED <<lock, read, given, sealed, overlap>>

SaveSpec(f) ==
    \/ EmptyYaml(f, "saving", "emptied")
    \/ PutYaml(f, "emptied", "saved", Unsealed(f))

(* Freeze: done if the lock is there, else Load. *)
LookAtLock(f) ==
    /\ Moves(f, "saved", IF lock THEN "done" ELSE "loading")
    /\ UNCHANGED <<yaml, lock, read, given, sealed, overlap>>

LoadForFreeze(f) ==
    /\ call[f].step = "loading"
    /\ call' = [call EXCEPT ![f] = [step |-> IF yaml \in Bad THEN "failed" ELSE "loaded", data |-> yaml]]
    /\ UNCHANGED <<yaml, lock, read, given, sealed, overlap>>

(* The end of Load, and spec.Freeze. *)
Seal(f) ==
    /\ call[f].step = "loaded"
    /\ IF lock /\ ~VerifyLock(call[f].data)
       THEN Moves(f, "loaded", "failed") /\ UNCHANGED sealed
       ELSE Moves(f, "loaded", "sealing") /\ sealed' = sealed \cup {call[f].data.spec}
    /\ UNCHANGED <<yaml, lock, read, given, overlap>>

SaveSealed(f) ==
    \/ EmptyYaml(f, "sealing", "reopened")
    \/ PutYaml(f, "reopened", "locking", Sealed(call[f].data.spec))

WriteLock(f) ==
    /\ Moves(f, "locking", "done") /\ lock' = TRUE
    /\ UNCHANGED <<yaml, read, given, sealed, overlap>>

(* A write fails: the disk is full, say. *)
FailWriting(f) ==
    /\ call[f].step \in {"saving", "emptied", "sealing", "reopened", "locking"}
    /\ call' = [call EXCEPT ![f].step = "failed"]
    /\ UNCHANGED <<yaml, lock, read, given, sealed, overlap>>

(* Load reads the file and looks for the lock afterwards. *)
ReadYaml(r) ==
    /\ read[r].step = "idle" /\ yaml \notin Bad
    /\ read' = [read EXCEPT ![r] = [step |-> "read", data |-> yaml, late |-> lock]]
    /\ UNCHANGED <<yaml, lock, call, given, sealed, overlap>>

Given(r) == [spec |-> read[r].data.spec, late |-> read[r].late]

(* A faulty variant: the lock is taken for proof enough.                   *)
EndLoad_Trusting(r) ==
    /\ read[r].step = "read"
    /\ read' = [read EXCEPT ![r].step = "idle"]
    /\ given' = IF lock THEN given \cup {Given(r)} ELSE given
    /\ UNCHANGED <<yaml, lock, call, sealed, overlap>>

EndLoad(r) ==
    /\ read[r].step = "read"
    /\ read' = [read EXCEPT ![r].step = "idle"]
    /\ given' = IF lock /\ VerifyLock(read[r].data) THEN given \cup {Given(r)} ELSE given
    /\ UNCHANGED <<yaml, lock, call, sealed, overlap>>

Crash ==
    /\ \E f \in Freezes : AtWork(f)
    /\ call' = [f \in Freezes |-> IF AtWork(f) THEN [call[f] EXCEPT !.step = "failed"] ELSE call[f]]
    /\ read' = [r \in Readers |-> [read[r] EXCEPT !.step = "idle"]]
    /\ UNCHANGED <<yaml, lock, given, sealed, overlap>>

FreezeSpec(f) ==
    \/ BeginFreeze(f) \/ MayWrite(f) \/ SaveSpec(f) \/ LookAtLock(f) \/ LoadForFreeze(f)
    \/ Seal(f) \/ SaveSealed(f) \/ WriteLock(f) \/ FailWriting(f)

SpecNext ==
    \/ \E f \in Freezes : FreezeSpec(f)
    \/ \E r \in Readers : ReadYaml(r) \/ EndLoad(r)
    \/ Crash

SpecSpec == SpecInit /\ [][SpecNext]_specVars

-----------------------------------------------------------------------------

SpecTypeOK ==
    /\ yaml \in YamlTexts /\ lock \in BOOLEAN /\ overlap \in BOOLEAN
    /\ call \in [Freezes -> [step : Over \cup {"new", "begun", "saving", "emptied", "saved", "loading",
                                               "loaded", "sealing", "reopened", "locking"},
                             data : YamlTexts]]
    /\ read \in [Readers -> [step : {"idle", "read"}, data : YamlTexts, late : BOOLEAN]]
    /\ given \subseteq [spec : Freezes, late : BOOLEAN] /\ sealed \subseteq Freezes

(* A load that finds the lock gives a spec that a Freeze has sealed, or an *)
(* error.  While freeze_spec calls come one after the other the lock       *)
(* stands beside a sealed spec from the moment it is there, wherever the   *)
(* daemon crashed before, and all loads that begin from then on give that  *)
(* spec.                                                                   *)
LoadsWhatWasFrozen ==
    /\ \A g \in given : g.spec \in sealed
    /\ ~overlap => /\ lock => yaml \in {Sealed(x) : x \in sealed}
                   /\ \A g \in given : g.late => yaml = Sealed(g.spec)

=============================================================================
