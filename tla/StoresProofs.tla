---------------------------- MODULE StoresProofs ----------------------------
(***************************************************************************)
(* The safety of what is stored: a session's frozen spec (SpecStore), for  *)
(* every number of freeze_spec calls and loads, with crashes and failing   *)
(* writes; its plan (PlanSteps), for every number of steps, keys and       *)
(* verify calls, with restarts and failing database calls; its files, and  *)
(* what the diff of a turn says of them (TurnEdits), for patches of every  *)
(* length, with calls that fail half way; its checkpoints (Checkpoints),   *)
(* for every number of commits, clients and files; and the plan its agents *)
(* keep (AgentPlan), for every number of runs, items and parts.            *)
(***************************************************************************)
EXTENDS SpecStore, PlanSteps, TurnEdits, Checkpoints, AgentPlan, SequenceTheorems, FiniteSetTheorems,
        WellFoundedInduction, TLAPS

\* A content_sha256, wherever it was read, is the hash that Freeze computed.
TrueSeal(text) == text \in Specs /\ text.sha # NoSeal => text.sha = text.spec /\ text.spec \in sealed

SealsAreTrue ==
    /\ TrueSeal(yaml)
    /\ \A f \in Freezes : TrueSeal(call[f].data)
    /\ \A r \in Readers : TrueSeal(read[r].data)

StepsHaveData ==
    /\ \A f \in Freezes : call[f].step \in {"loaded", "sealing", "reopened", "locking"} => call[f].data \in Specs
    /\ \A f \in Freezes : call[f].step \in {"sealing", "reopened", "locking"} => call[f].data.spec \in sealed
    /\ \A r \in Readers : read[r].step = "read" => read[r].data \in Specs

GivenWasSealed == \A g \in given : g.spec \in sealed

\* Without overlap a freeze_spec call has the file for itself, and when the
\* lock is there no call is at work that could change what is beside it.
OneAtATime ==
    ~overlap =>
        /\ \A f, g \in Freezes : AtWork(f) /\ AtWork(g) => f = g
        /\ lock => yaml \in Specs /\ VerifyLock(yaml) /\ \A f \in Freezes : ~AtWork(f)
        /\ \A f \in Freezes : call[f].step \in {"emptied", "reopened"} => yaml = Empty
        /\ \A f \in Freezes : call[f].step = "locking" => yaml = Sealed(call[f].data.spec)
        /\ \A r \in Readers : read[r].step = "read" /\ read[r].late => lock /\ read[r].data = yaml
        /\ \A g \in given : g.late => lock /\ yaml = Sealed(g.spec)

StoreInv == SpecTypeOK /\ SealsAreTrue /\ StepsHaveData /\ GivenWasSealed /\ OneAtATime

LEMMA SpecInitially == SpecInit => StoreInv
<1> SUFFICES ASSUME SpecInit PROVE StoreInv
  OBVIOUS
<1> USE SpecAssumption DEF SpecInit
<1>1. SpecTypeOK
  BY DEF SpecTypeOK, YamlTexts, Bad, Over
<1>2. SealsAreTrue /\ StepsHaveData /\ GivenWasSealed
  BY DEF SealsAreTrue, TrueSeal, Bad, StepsHaveData, GivenWasSealed
<1>3. OneAtATime
  BY DEF OneAtATime, AtWork
<1> QED
  BY <1>1, <1>2, <1>3 DEF StoreInv

\* The steps of a freeze_spec call that write nothing to the disk.
LEMMA LooksKeep ==
    ASSUME StoreInv, NEW f \in Freezes,
           BeginFreeze(f) \/ MayWrite(f) \/ LookAtLock(f) \/ LoadForFreeze(f) \/ Seal(f) \/ FailWriting(f)
    PROVE  StoreInv'
<1> USE SpecAssumption DEF StoreInv, SpecTypeOK, YamlTexts, SealsAreTrue, TrueSeal, StepsHaveData,
         GivenWasSealed, OneAtATime, AtWork, Over, Moves
<1>1. CASE BeginFreeze(f)
  <2>1. /\ call[f].step = "new"
        /\ \E to \in {"failed", "begun"} : call' = [call EXCEPT ![f].step = to] /\ (lock => to = "failed")
        /\ UNCHANGED <<yaml, lock, read, given, sealed>>
    BY <1>1 DEF BeginFreeze
  <2>2. overlap' \in BOOLEAN /\ (~overlap' => ~overlap /\ \A g \in Freezes : ~AtWork(g))
    BY <1>1 DEF BeginFreeze
  <2>3. SpecTypeOK'
    BY <2>1, <2>2
  <2>4. SealsAreTrue' /\ StepsHaveData' /\ GivenWasSealed'
    BY <2>1
  <2>5. OneAtATime'
    BY <2>1, <2>2, <2>3
  <2> QED
    BY <2>3, <2>4, <2>5
<1>2. CASE MayWrite(f)
  BY <1>2 DEF MayWrite
<1>3. CASE LookAtLock(f)
  BY <1>3 DEF LookAtLock
<1>4. CASE LoadForFreeze(f)
  BY <1>4 DEF LoadForFreeze
<1>5. CASE Seal(f)
  BY <1>5, SMTT(30) DEF Seal, Specs
<1>6. CASE FailWriting(f)
  BY <1>6 DEF FailWriting
<1> QED
  BY <1>1, <1>2, <1>3, <1>4, <1>5, <1>6

LEMMA WritesKeep ==
    ASSUME StoreInv, NEW f \in Freezes, SaveSpec(f) \/ SaveSealed(f) \/ WriteLock(f)
    PROVE  StoreInv'
<1> USE SpecAssumption DEF StoreInv, SpecTypeOK, YamlTexts, SealsAreTrue, TrueSeal, StepsHaveData,
         GivenWasSealed, OneAtATime, AtWork, Over, Moves
<1>1. CASE EmptyYaml(f, "saving", "emptied") \/ EmptyYaml(f, "sealing", "reopened")
  <2>1. PICK from \in {"saving", "sealing"}, to \in {"emptied", "reopened"} :
          /\ call[f].step = from /\ call' = [call EXCEPT ![f].step = to]
          /\ (from = "saving") <=> (to = "emptied")
          /\ yaml' = Empty /\ UNCHANGED <<lock, read, given, sealed, overlap>>
    BY <1>1 DEF EmptyYaml
  <2>2. AtWork(f) /\ Empty \notin Specs /\ Empty \in YamlTexts
    BY <2>1 DEF Bad
  <2>3. SpecTypeOK'
    BY <2>1, <2>2
  <2>4. SealsAreTrue' /\ StepsHaveData' /\ GivenWasSealed'
    BY <2>1, <2>2
  <2>5. OneAtATime'
    BY <2>1, <2>2, <2>3
  <2> QED
    BY <2>3, <2>4, <2>5
<1>2. CASE PutYaml(f, "emptied", "saved", Unsealed(f))
  BY <1>2 DEF PutYaml, Unsealed, Specs, Bad
<1>3. CASE PutYaml(f, "reopened", "locking", Sealed(call[f].data.spec))
  BY <1>3, SMTT(30) DEF PutYaml, Sealed, Specs, Bad
<1>4. CASE WriteLock(f)
  BY <1>4 DEF WriteLock, Sealed, VerifyLock, Specs
<1> QED
  BY <1>1, <1>2, <1>3, <1>4 DEF SaveSpec, SaveSealed

LEMMA LoadsKeep ==
    ASSUME StoreInv, NEW r \in Readers, ReadYaml(r) \/ EndLoad(r)
    PROVE  StoreInv'
<1> USE SpecAssumption DEF StoreInv, SpecTypeOK, YamlTexts, SealsAreTrue, TrueSeal, StepsHaveData,
         GivenWasSealed, OneAtATime, AtWork
<1>1. CASE ReadYaml(r)
  BY <1>1 DEF ReadYaml
<1>2. CASE EndLoad(r)
  BY <1>2 DEF EndLoad, Given, VerifyLock, Sealed, Specs
<1> QED
  BY <1>1, <1>2

LEMMA CrashKeeps == ASSUME StoreInv, Crash PROVE StoreInv'
BY SMTT(30) DEF StoreInv, SpecTypeOK, YamlTexts, SealsAreTrue, TrueSeal, StepsHaveData,
       GivenWasSealed, OneAtATime, AtWork, Over, Crash

LEMMA SpecStep == StoreInv /\ [SpecNext]_specVars => StoreInv'
<1> SUFFICES ASSUME StoreInv, [SpecNext]_specVars PROVE StoreInv'
  OBVIOUS
<1>1. CASE SpecNext
  BY <1>1, LooksKeep, WritesKeep, LoadsKeep, CrashKeeps DEF SpecNext, FreezeSpec
<1>2. CASE UNCHANGED specVars
  BY <1>2 DEF specVars, StoreInv, SpecTypeOK, SealsAreTrue, TrueSeal, StepsHaveData,
              GivenWasSealed, OneAtATime, AtWork
<1> QED
  BY <1>1, <1>2

(* Every reachable state is well typed: what a step has loaded is a text   *)
(* of spec.yaml, what a load returned names a spec (store.go:74-91).       *)
THEOREM SpecTypeCorrect == SpecSpec => []SpecTypeOK
<1>1. StoreInv => SpecTypeOK
  BY DEF StoreInv
<1> QED
  BY <1>1, SpecInitially, SpecStep, PTL DEF SpecSpec

(* A load that finds the lock gives a spec that a Freeze sealed; and while *)
(* freeze_spec calls do not overlap, the lock stands beside that spec for  *)
(* good, wherever the daemon crashes (Save, Freeze and Load of store.go).  *)
THEOREM FrozenIsWhatLoads == SpecSpec => []LoadsWhatWasFrozen
<1>1. StoreInv => LoadsWhatWasFrozen
  <2> SUFFICES ASSUME StoreInv PROVE LoadsWhatWasFrozen
    OBVIOUS
  <2>1. ASSUME ~overlap, lock PROVE yaml \in {Sealed(x) : x \in sealed}
    <3>1. yaml \in Specs /\ yaml.sha = yaml.spec
      BY <2>1 DEF StoreInv, OneAtATime, VerifyLock
    <3>2. yaml.spec \in sealed
      BY <3>1, SpecAssumption DEF StoreInv, SealsAreTrue, TrueSeal, Specs
    <3>3. yaml = Sealed(yaml.spec)
      BY <3>1 DEF Specs, Sealed
    <3> QED
      BY <3>2, <3>3
  <2> QED
    BY <2>1 DEF StoreInv, GivenWasSealed, OneAtATime, LoadsWhatWasFrozen
<1> QED
  BY <1>1, SpecInitially, SpecStep, PTL DEF SpecSpec

-----------------------------------------------------------------------------

\* A set of places has a last one (so Status names the step it means).
LEMMA LastPlace ==
    ASSUME NEW n \in Nat, NEW S, S \subseteq 1..n, S # {}
    PROVE  \E i \in S : \A j \in S : j <= i
<1> DEFINE R == {pair \in Nat \X Nat : pair[1] < pair[2]}
           T == {n - i : i \in S}
<1>1. IsWellFoundedOn(R, Nat)
  BY NatLessThanWellFounded DEF OpToRel
<1>2. T \subseteq Nat /\ T # {}
  <2>1. \A i \in S : i \in 1..n /\ n - i \in Nat
    OBVIOUS
  <2> QED
    BY <2>1, Zenon
<1>3. PICK x \in T : \A y \in T : <<y, x>> \notin R
  BY <1>1, <1>2, WFMin, Zenon
<1>4. \A y \in T : ~(y < x)
  BY <1>2, <1>3
<1>5. PICK i \in S : x = n - i
  OBVIOUS
<1>6. ASSUME NEW j \in S PROVE j <= i
  <2>1. n - j \in T
    OBVIOUS
  <2>2. ~(n - j < n - i)
    BY <1>4, <1>5, <2>1
  <2> QED
    BY <2>2
<1> QED
  BY <1>6

Earned(steps) == \A i \in DOMAIN steps : steps[i].status = "verified" => steps[i].key \in earned

\* In memory every verdict is earned unless one went astray; so it is in the
\* rows when they are what the next operation reads; and without a failed
\* call they are the plan.
PlanInv ==
    /\ PlanTypeOK
    /\ ~astray => Earned(items)
    /\ ~astray /\ ~loaded => Earned(rows)
    /\ VerdictsSurvive

LEMMA PlanInitially == PlanInit => PlanInv
<1> SUFFICES ASSUME PlanInit PROVE PlanInv
  OBVIOUS
<1>1. items \in Seq(PlanStep) /\ rows \in Seq(PlanStep) /\ DOMAIN items = {} /\ DOMAIN rows = {}
  BY DEF PlanInit
<1>2. check \in [Verifiers -> [id : 0..MaxSteps, key : Keys \cup {"none"}]]
  BY PlanAssumption DEF PlanInit, Idle
<1>3. plans \in 0..MaxPlans
  BY PlanAssumption DEF PlanInit
<1> QED
  BY <1>1, <1>2, <1>3 DEF PlanInit, PlanInv, PlanTypeOK, Earned, VerdictsSurvive

LEMMA LoadsAreSteps ==
    ASSUME PlanInv, NEW load \in Loads
    PROVE  /\ load.steps \in Seq(PlanStep) /\ load.done \in BOOLEAN
           /\ ~load.done => load.steps = <<>>
           /\ ~astray => Earned(load.steps)
           /\ loaded => load.steps = items /\ load.done
           /\ ~slipped /\ ~Slips(load) => load.done /\ load.steps = rows
<1> USE DEF PlanInv, PlanTypeOK
<1>1. CASE loaded
  <2>1. load = [steps |-> items, done |-> TRUE]
    BY <1>1 DEF Loads
  <2>2. load.steps = items /\ load.done = TRUE
    BY <2>1
  <2> QED
    BY <1>1, <2>2 DEF VerdictsSurvive
<1>2. CASE ~loaded
  <2>1. CASE load = [steps |-> <<>>, done |-> FALSE]
    BY <1>2, <2>1 DEF Slips, Earned
  <2>2. CASE load # [steps |-> <<>>, done |-> FALSE]
    <3>1. PICK n \in 0..Len(rows) : load = [steps |-> SubSeq(rows, 1, n), done |-> TRUE]
      BY <1>2, <2>2 DEF Loads
    <3>2. SubSeq(rows, 1, n) \in Seq(PlanStep) /\ Len(SubSeq(rows, 1, n)) = n
      BY rows \in Seq(PlanStep)
    <3>3. \A i \in 1..n : SubSeq(rows, 1, n)[i] = rows[i]
      BY rows \in Seq(PlanStep)
    <3>4. ~astray => Earned(SubSeq(rows, 1, n))
      BY <1>2, <3>2, <3>3 DEF Earned
    <3> QED
      BY <1>2, <3>1, <3>2, <3>4 DEF Slips
  <2> QED
    BY <2>1, <2>2
<1> QED
  BY <1>1, <1>2

LEMMA RenewedIsEarned ==
    ASSUME NEW steps \in Seq(PlanStep), NEW keys \in KeyLists
    PROVE  /\ Renewed(steps, keys) \in Seq(PlanStep)
           /\ Earned(steps) => Earned(Renewed(steps, keys))
<1> USE PlanAssumption
<1>1. PICK n \in 0..MaxSteps : keys \in [1..n -> Keys]
  BY DEF KeyLists
<1>2. ASSUME NEW key \in Keys
      PROVE  /\ Status(steps, key) \in {"pending", "verified", "failed"}
             /\ Earned(steps) /\ Status(steps, key) = "verified" => key \in earned
  <2> DEFINE same == {i \in DOMAIN steps : steps[i].key = key}
  <2>1. CASE same = {}
    BY <2>1 DEF Status
  <2>2. CASE same # {}
    <3>1. Len(steps) \in Nat /\ same \subseteq 1..Len(steps)
      OBVIOUS
    <3>2. \E i \in same : \A j \in same : j <= i
      BY <2>2, <3>1, LastPlace
    <3> DEFINE last == CHOOSE i \in same : \A j \in same : j <= i
    <3>3. last \in same
      BY <3>2
    <3>4. Status(steps, key) = steps[last].status
      BY <2>2 DEF Status
    <3>5. steps[last] \in PlanStep /\ steps[last].key = key
      BY <3>3
    <3> HIDE DEF last
    <3> QED
      BY <3>3, <3>4, <3>5 DEF PlanStep, Earned
  <2> QED
    BY <2>1, <2>2
<1>3. Renewed(steps, keys) = [i \in 1..n |-> [key |-> keys[i], status |-> Status(steps, keys[i])]]
  BY <1>1 DEF Renewed
<1>4. \A i \in 1..n : keys[i] \in Keys
  BY <1>1
<1>5. \A i \in 1..n : [key |-> keys[i], status |-> Status(steps, keys[i])] \in PlanStep
  BY <1>2, <1>4 DEF PlanStep
<1>6. Renewed(steps, keys) \in Seq(PlanStep)
  BY <1>3, <1>5
<1>7. Earned(steps) => Earned(Renewed(steps, keys))
  BY <1>2, <1>3, <1>4 DEF Earned
<1> QED
  BY <1>6, <1>7

LEMMA AStep == ASSUME NEW steps \in Seq(PlanStep), NEW i \in DOMAIN steps
               PROVE  steps[i] \in PlanStep /\ steps[i].key \in Keys
<1>1. steps[i] \in PlanStep
  OBVIOUS
<1> QED
  BY <1>1 DEF PlanStep

LEMMA MarkIsStep ==
    ASSUME NEW steps \in Seq(PlanStep), NEW id, NEW status \in {"verified", "failed"}
    PROVE  /\ Mark(steps, id, status) \in Seq(PlanStep)
           /\ DOMAIN Mark(steps, id, status) = DOMAIN steps
           /\ \A i \in DOMAIN steps :
                /\ Mark(steps, id, status)[i].key = steps[i].key
                /\ Mark(steps, id, status)[i].status = IF i = id THEN status ELSE steps[i].status
<1>1. CASE id \in DOMAIN steps
  <2> DEFINE marked == [steps[id] EXCEPT !.status = status]
  <2>1. steps[id] \in PlanStep
    BY <1>1, AStep
  <2>2. marked \in PlanStep /\ marked.key = steps[id].key /\ marked.status = status
    BY <2>1 DEF PlanStep
  <2>3. Mark(steps, id, status) = [steps EXCEPT ![id] = marked]
    BY <1>1 DEF Mark
  <2> HIDE DEF marked
  <2>4. \A i \in DOMAIN steps : steps[i] \in PlanStep
    BY AStep
  <2> QED
    BY <1>1, <2>2, <2>3, <2>4
<1>2. CASE id \notin DOMAIN steps
  BY <1>2 DEF Mark
<1> QED
  BY <1>1, <1>2

LEMMA ReplaceKeeps ==
    ASSUME PlanInv, NEW keys \in KeyLists, NEW load \in Loads, NEW saved \in BOOLEAN, Replace(keys, load, saved)
    PROVE  PlanInv'
<1> USE PlanAssumption
<1>1. load.steps \in Seq(PlanStep) /\ (~astray => Earned(load.steps))
  BY LoadsAreSteps
<1>2. items' \in Seq(PlanStep) /\ (~astray => Earned(items'))
  BY <1>1, RenewedIsEarned DEF Replace
<1>3. PlanTypeOK'
  BY <1>2 DEF PlanInv, PlanTypeOK, Replace
<1>4. ~astray' => Earned(items)'
  BY <1>2 DEF Replace, Earned
<1>5. VerdictsSurvive'
  BY DEF Replace, VerdictsSurvive
<1> QED
  BY <1>3, <1>4, <1>5 DEF PlanInv, Replace

LEMMA StartVerifyKeeps ==
    ASSUME PlanInv, NEW v \in Verifiers, NEW id \in 1..MaxSteps, StartVerify(v, id)
    PROVE  PlanInv'
<1> USE PlanAssumption DEF PlanInv, PlanTypeOK
<1>1. \A steps \in Seq(PlanStep) : KeyAt(steps, id) \in Keys \cup {"none"}
  BY AStep DEF KeyAt
<1>2. PlanTypeOK'
  BY <1>1 DEF StartVerify
<1> QED
  BY <1>2 DEF StartVerify, Earned, VerdictsSurvive

LEMMA EndVerifyKeeps ==
    ASSUME PlanInv, NEW v \in Verifiers, NEW passed \in BOOLEAN, NEW saved \in BOOLEAN,
           NEW load \in Loads, EndVerify(v, passed, load, saved)
    PROVE  PlanInv'
<1> USE PlanAssumption
<1> DEFINE id == check[v].id
           status == IF passed THEN "verified" ELSE "failed"
<1>1. /\ items' = Mark(load.steps, id, status) /\ loaded' = load.done
      /\ rows' = IF saved /\ id \in DOMAIN load.steps THEN Mark(rows, id, status) ELSE rows
      /\ check' = [check EXCEPT ![v] = Idle]
      /\ earned' = IF passed THEN earned \cup {check[v].key} ELSE earned
      /\ slipped' = (slipped \/ Slips(load) \/ (~saved /\ id \in DOMAIN load.steps))
      /\ astray' = (astray \/ KeyAt(items', id) \notin {check[v].key, "none"})
      /\ plans' = plans
  BY DEF EndVerify
<1>2. /\ load.steps \in Seq(PlanStep) /\ load.done \in BOOLEAN
      /\ ~load.done => load.steps = <<>>
      /\ ~astray => Earned(load.steps)
      /\ ~slipped /\ ~Slips(load) => load.done /\ load.steps = rows
      /\ loaded => load.done
  BY LoadsAreSteps
<1>3. status \in {"verified", "failed"} /\ (status = "verified" => passed)
  OBVIOUS
<1>4. rows \in Seq(PlanStep) /\ check[v].key \in Keys \cup {"none"} /\ check[v].id \in 0..MaxSteps
  BY DEF PlanInv, PlanTypeOK
<1> HIDE DEF id, status
<1>5. /\ items' \in Seq(PlanStep) /\ DOMAIN items' = DOMAIN load.steps
      /\ \A i \in DOMAIN load.steps :
           /\ items'[i].key = load.steps[i].key
           /\ items'[i].status = IF i = id THEN status ELSE load.steps[i].status
  BY <1>1, <1>2, <1>3, MarkIsStep
<1>6. rows' \in Seq(PlanStep)
  BY <1>1, <1>3, <1>4, MarkIsStep
<1>7. PlanTypeOK'
  <2>1. ~loaded' => items' = <<>>
    BY <1>1, <1>2 DEF Mark
  <2>2. check' \in [Verifiers -> [id : 0..MaxSteps, key : Keys \cup {"none"}]]
    BY <1>1 DEF PlanInv, PlanTypeOK, Idle
  <2>3. slipped' \in BOOLEAN
    BY <1>1, <1>2 DEF PlanInv, PlanTypeOK, Slips
  <2>4. astray' \in BOOLEAN
    BY <1>1 DEF PlanInv, PlanTypeOK
  <2>5. plans' \in 0..MaxPlans /\ earned' \subseteq Keys \cup {"none"}
    BY <1>1, <1>4 DEF PlanInv, PlanTypeOK
  <2> QED
    BY <1>1, <1>2, <1>5, <1>6, <2>1, <2>2, <2>3, <2>4, <2>5 DEF PlanTypeOK
<1>8. ASSUME ~astray' PROVE Earned(items)'
  <2> SUFFICES ASSUME NEW i \in DOMAIN items', items'[i].status = "verified"
               PROVE  items'[i].key \in earned'
    BY DEF Earned
  <2>1. ~astray /\ KeyAt(items', id) \in {check[v].key, "none"}
    BY <1>1, <1>8
  <2>2. CASE i # id
    BY <1>1, <1>2, <1>5, <2>1, <2>2 DEF Earned
  <2>3. CASE i = id
    <3>1. passed /\ KeyAt(items', id) = items'[i].key
      BY <1>3, <1>5, <2>3 DEF KeyAt
    <3>2. items'[i].key \in Keys
      BY <1>5, AStep
    <3> QED
      BY <1>1, <2>1, <3>1, <3>2
  <2> QED
    BY <2>2, <2>3
<1>9. ASSUME ~astray', ~loaded' PROVE Earned(rows)'
  <2>1. ~astray /\ ~loaded /\ load.steps = <<>>
    BY <1>1, <1>2, <1>9 DEF PlanInv, PlanTypeOK
  <2>2. rows' = rows /\ earned \subseteq earned'
    BY <1>1, <2>1
  <2>3. Earned(rows)
    BY <2>1 DEF PlanInv
  <2> QED
    BY <2>2, <2>3 DEF Earned
<1>10. VerdictsSurvive'
  <2> SUFFICES ASSUME ~slipped', loaded' PROVE rows' = items'
    BY DEF VerdictsSurvive
  <2>1. load.steps = rows /\ (saved \/ id \notin DOMAIN load.steps)
    BY <1>1, <1>2 DEF PlanInv, PlanTypeOK
  <2> QED
    BY <1>1, <2>1 DEF Mark
<1> QED
  BY <1>7, <1>8, <1>9, <1>10 DEF PlanInv

LEMMA SnapshotKeeps == ASSUME PlanInv, NEW load \in Loads, Snapshot(load) PROVE PlanInv'
<1>1. /\ load.steps \in Seq(PlanStep) /\ load.done \in BOOLEAN
      /\ ~load.done => load.steps = <<>>
      /\ ~astray => Earned(load.steps)
      /\ ~slipped /\ ~Slips(load) => load.done /\ load.steps = rows
      /\ loaded => load.done
  BY LoadsAreSteps
<1>2. PlanTypeOK'
  <2>1. slipped' \in BOOLEAN
    BY DEF PlanInv, PlanTypeOK, Snapshot, Slips
  <2>2. items' \in Seq(PlanStep) /\ loaded' \in BOOLEAN /\ (~loaded' => items' = <<>>)
    BY <1>1 DEF Snapshot
  <2>3. rows' = rows /\ check' = check /\ plans' = plans /\ earned' = earned /\ astray' = astray
    BY DEF Snapshot
  <2> QED
    BY <2>1, <2>2, <2>3 DEF PlanInv, PlanTypeOK
<1> QED
  BY <1>1, <1>2 DEF PlanInv, PlanTypeOK, Snapshot, Earned, VerdictsSurvive

LEMMA RestartKeeps == ASSUME PlanInv, RestartStore PROVE PlanInv'
<1>1. PlanTypeOK'
  <2>1. check' \in [Verifiers -> [id : 0..MaxSteps, key : Keys \cup {"none"}]]
    BY PlanAssumption DEF RestartStore, Idle
  <2>2. astray' \in BOOLEAN /\ items' = <<>> /\ loaded' = FALSE
    BY DEF PlanInv, PlanTypeOK, RestartStore
  <2>3. items' \in Seq(PlanStep)
    BY <2>2, EmptySeq, Zenon
  <2>4. rows' = rows /\ plans' = plans /\ earned' = earned /\ slipped' = slipped
    BY DEF RestartStore
  <2> QED
    BY <2>1, <2>2, <2>3, <2>4 DEF PlanInv, PlanTypeOK
<1> QED
  BY <1>1 DEF PlanInv, PlanTypeOK, RestartStore, Earned, VerdictsSurvive

LEMMA PlanKeeps == PlanInv /\ [PlanNext]_planVars => PlanInv'
<1> SUFFICES ASSUME PlanInv, [PlanNext]_planVars PROVE PlanInv'
  OBVIOUS
<1>1. CASE PlanNext
  BY <1>1, ReplaceKeeps, StartVerifyKeeps, EndVerifyKeeps, SnapshotKeeps, RestartKeeps DEF PlanNext
<1>2. CASE UNCHANGED planVars
  BY <1>2 DEF planVars, PlanInv, PlanTypeOK, Earned, VerdictsSurvive
<1> QED
  BY <1>1, <1>2

(* Every reachable state is well typed (planStore, lines 44-58): an unread *)
(* plan is empty, and every row is a step with one of the three statuses.  *)
THEOREM PlanTypeCorrect == PlanSpec => []PlanTypeOK
<1>1. PlanInv => PlanTypeOK
  BY DEF PlanInv
<1> QED
  BY <1>1, PlanInitially, PlanKeeps, PTL DEF PlanSpec

(* "The agent cannot self-mark a step verified" (line 24): except through  *)
(* the two ways that StatusIsEarned names, no plan of any length, declared *)
(* however often, holds a verdict that no passing verify was for.          *)
THEOREM VerdictsAreEarned == PlanSpec => []StatusIsEarned
<1>1. PlanInv => StatusIsEarned
  BY DEF PlanInv, PlanTypeOK, VerdictsSurvive, StatusIsEarned, Earned
<1> QED
  BY <1>1, PlanInitially, PlanKeeps, PTL DEF PlanSpec

(* "Every mutation writes through" (line 32): what a restart reads back is *)
(* the plan, with every verdict, unless a database call failed.            *)
THEOREM VerdictsAreKept == PlanSpec => []VerdictsSurvive
<1>1. PlanInv => VerdictsSurvive
  BY DEF PlanInv
<1> QED
  BY <1>1, PlanInitially, PlanKeeps, PTL DEF PlanSpec

-----------------------------------------------------------------------------

\* A content, or none.
Texts == Seq(Lines) \cup {Absent}
HunksGiveText(hunks) == \A lines \in Texts : AfterHunks(lines, hunks) \in Texts
Hunks == INSTANCE Inductions WITH Op <- OneHunk, Claim <- HunksGiveText

AnyOps == PatchOps \cup [kind : {"write", "edit"}, file : Files]
Works == [step : Steps, ops : Seq(AnyOps), at : Nat, glimpse : Texts, out : Seq(Texts)]
Track == [original : Texts, current : Texts, known : BOOLEAN]

\* A result for each operation, and none exactly where a file is removed.
OutFits(w) == DOMAIN w.out = DOMAIN w.ops /\ \A i \in DOMAIN w.ops : w.out[i] = Absent <=> w.ops[i].kind = "delete"

WorkFits(w) ==
    /\ w.step \in {"look", "keep", "plan", "write", "record"} => w.at \in DOMAIN w.ops
    /\ w.step \in {"look", "keep"} => w.out = <<>> \/ OutFits(w)
    /\ w.step \in {"look", "keep", "plan"} /\ w.out = <<>> => w.ops \in Seq(PatchOps)
    /\ w.step = "plan" => w.out = <<>> /\ w.at = 1
    /\ w.step \in {"write", "record"} => OutFits(w)

EditsTypes ==
    /\ disk \in [Files -> Texts] /\ base \in [Files -> Texts]
    /\ tracked \in [Files -> Track] /\ \A f \in Files : tracked[f].known \/ tracked[f] = NotTracked
    /\ polluted \in BOOLEAN /\ shaken \in BOOLEAN /\ failed \subseteq Files /\ calls \in 0..MaxCalls
    /\ work \in [Prompts -> Works] /\ \A p \in Prompts : WorkFits(work[p])

\* The file of operation i belongs to no later one before n.
LastBefore(ops, i, n) == \A j \in DOMAIN ops : i < j /\ j < n => ops[j].file # ops[i].file

\* What show_diff will only say when the call has recorded it.
Unrecorded(w, f) ==
    \/ w.step \in {"look", "keep", "plan", "write"} /\ f \in FilesOf(w.ops)
    \/ w.step = "record" /\ \E i \in DOMAIN w.ops : w.at <= i /\ w.ops[i].file = f

\* In a turn without a command and beside no other: the original is what the
\* turn began with; every file is recorded before it is written; and what
\* the call has written is the result of the last operation on the file.
TurnIsRecorded(w) ==
    /\ w.step # "command"
    /\ \A f \in Files :
         /\ tracked[f].known => tracked[f].original = base[f]
         /\ ~tracked[f].known => disk[f] = base[f] /\ f \notin failed
         /\ tracked[f].known /\ f \notin failed => tracked[f].current = disk[f] \/ Unrecorded(w, f)
    /\ w.step \in {"look", "keep"} => \A i \in DOMAIN w.ops : i < w.at => tracked[w.ops[i].file].known
    /\ w.step = "keep" => w.glimpse = disk[w.ops[w.at].file]
    /\ w.step \in {"plan", "write", "record"} => \A i \in DOMAIN w.ops : tracked[w.ops[i].file].known
    /\ w.step = "write" =>
         \A i \in DOMAIN w.ops : i < w.at /\ LastBefore(w.ops, i, w.at) => disk[w.ops[i].file] = w.out[i]
    /\ w.step = "record" =>
         \A i \in DOMAIN w.ops : LastBefore(w.ops, i, Len(w.ops) + 1) => disk[w.ops[i].file] = w.out[i]

TurnsAreRecorded ==
    ~shaken =>
        /\ \A p, q \in Prompts : Running(p) /\ Running(q) => p = q
        /\ ~polluted => \A p \in Prompts : Running(p) => TurnIsRecorded(work[p])

EditsInv == EditsTypes /\ TurnsAreRecorded

LEMMA ASplice ==
    ASSUME NEW lines \in Seq(Lines), NEW old \in Seq(Lines), NEW new \in Seq(Lines), Unique(lines, old)
    PROVE  OneHunk(lines, [old |-> old, new |-> new]) \in Seq(Lines)
<1> DEFINE at == CHOOSE i \in Matches(lines, old) : TRUE
<1>1. at \in Matches(lines, old)
  BY DEF Unique
<1>2. at \in 1..(Len(lines) - Len(old) + 1)
  BY <1>1 DEF Matches
<1> HIDE DEF at
<1>3. at \in Nat /\ at >= 1 /\ Len(old) \in Nat /\ Len(lines) \in Nat /\ at + Len(old) <= Len(lines) + 1
  BY <1>2
<1>4. SubSeq(lines, 1, at - 1) \in Seq(Lines)
  <2>1. \A i \in 1..at - 1 : lines[i] \in Lines
    BY <1>3
  <2> QED
    BY <1>3, <2>1
<1>5. SubSeq(lines, at + Len(old), Len(lines)) \in Seq(Lines)
  <2>1. \A i \in at + Len(old)..Len(lines) : lines[i] \in Lines
    BY <1>3
  <2> QED
    BY <1>3, <2>1
<1>6. Splice(lines, at, old, new) \in Seq(Lines)
  BY <1>4, <1>5 DEF Splice
<1>7. lines # Absent
  BY EditsAssumption
<1> QED
  BY <1>6, <1>7 DEF OneHunk, at

LEMMA AHunkGivesText == ASSUME NEW lines \in Texts, NEW hunk \in HunkTexts PROVE OneHunk(lines, hunk) \in Texts
<1>1. hunk = [old |-> hunk.old, new |-> hunk.new] /\ hunk.old \in Seq(Lines) /\ hunk.new \in Seq(Lines)
  BY DEF HunkTexts
<1>2. CASE lines # Absent /\ Unique(lines, hunk.old)
  BY <1>1, <1>2, ASplice DEF Texts
<1>3. CASE ~(lines # Absent /\ Unique(lines, hunk.old))
  BY <1>3 DEF OneHunk, Texts
<1> QED
  BY <1>2, <1>3

LEMMA AfterHunksFolds == ASSUME NEW lines, NEW hunks PROVE AfterHunks(lines, hunks) = Hunks!Fold(lines, hunks)
BY DEF AfterHunks, Hunks!Fold, FoldLeft, Hunks!FoldLeft, MapThenFoldSet, Hunks!MapThenFoldSet, Max, Hunks!Max

\* However many hunks an update has, applyHunks gives lines or nothing.
LEMMA HunksGiveTexts == ASSUME NEW hunks \in Seq(HunkTexts), NEW lines \in Texts PROVE AfterHunks(lines, hunks) \in Texts
<1>1. HunksGiveText(<<>>)
  BY AfterHunksFolds, Hunks!FoldOfNothing DEF HunksGiveText
<1>2. ASSUME NEW s \in Seq(HunkTexts), NEW x \in HunkTexts, HunksGiveText(s) PROVE HunksGiveText(Append(s, x))
  <2> SUFFICES ASSUME NEW l \in Texts PROVE AfterHunks(l, Append(s, x)) \in Texts
    BY DEF HunksGiveText
  <2>1. AfterHunks(l, Append(s, x)) = OneHunk(AfterHunks(l, s), x)
    BY AfterHunksFolds, Hunks!FoldOfOneMore
  <2>2. AfterHunks(l, s) \in Texts
    BY <1>2 DEF HunksGiveText
  <2> QED
    BY <2>1, <2>2, AHunkGivesText
<1>3. \A s \in Seq(HunkTexts) : HunksGiveText(s)
  BY <1>1, <1>2, Hunks!SequenceInduction
<1> QED
  BY <1>3 DEF HunksGiveText

LEMMA ResultFits ==
    ASSUME EditsTypes, NEW op \in PatchOps, Fits(op)
    PROVE  Result(op) \in Texts /\ (Result(op) = Absent <=> op.kind = "delete")
<1>1. CASE op.kind = "add"
  BY <1>1, EditsAssumption DEF PatchOps, Result, Texts
<1>2. CASE op.kind = "delete"
  BY <1>2 DEF Result, Texts
<1>3. CASE op.kind = "update"
  <2>1. op.file \in Files /\ op.hunks \in Seq(HunkTexts)
    BY <1>3 DEF PatchOps
  <2>2. AfterHunks(disk[op.file], op.hunks) \in Texts
    BY <2>1, HunksGiveTexts DEF EditsTypes
  <2> QED
    BY <1>3, <2>2 DEF Result, Fits
<1> QED
  BY <1>1, <1>2, <1>3 DEF PatchOps

LEMMA EditsInitially == EditsInit => EditsInv
<1> SUFFICES ASSUME EditsInit PROVE EditsInv
  OBVIOUS
<1> USE EditsAssumption DEF EditsInit
<1>1. disk \in [Files -> Texts] /\ base \in [Files -> Texts]
  BY DEF Texts
<1>2. NotTracked \in Track
  BY DEF NotTracked, Track, Texts
<1>3. AtRest("waiting") \in Works
  BY DEF AtRest, Works, Steps, Texts
<1>4. \A p \in Prompts : work[p].step = "waiting"
  BY DEF AtRest
<1>5. tracked \in [Files -> Track] /\ \A f \in Files : tracked[f] = NotTracked
  BY <1>2
<1>6. work \in [Prompts -> Works]
  BY <1>3
<1>7. \A p \in Prompts : WorkFits(work[p])
  BY <1>4 DEF WorkFits
<1>8. EditsTypes
  <2>1. calls \in 0..MaxCalls
    <3>1. MaxCalls \in Nat
      BY EditsAssumption
    <3> QED
      BY <3>1
  <2>2. failed \subseteq Files /\ polluted \in BOOLEAN /\ shaken \in BOOLEAN
    OBVIOUS
  <2> QED
    BY <1>1, <1>5, <1>6, <1>7, <2>1, <2>2 DEF EditsTypes
<1>9. TurnsAreRecorded
  BY <1>4 DEF TurnsAreRecorded, Running
<1> QED
  BY <1>8, <1>9 DEF EditsInv

LEMMA AWork == ASSUME EditsTypes, NEW p \in Prompts
               PROVE  /\ work[p] \in Works /\ WorkFits(work[p]) /\ work[p].ops \in Seq(AnyOps)
                      /\ work[p].at \in Nat /\ work[p].out \in Seq(Texts)
                      /\ \A i \in DOMAIN work[p].ops : work[p].ops[i].file \in Files /\ work[p].ops[i].kind \in Kinds
<1>1. work[p] \in Works /\ WorkFits(work[p])
  BY DEF EditsTypes
<1>2. work[p].ops \in Seq(AnyOps) /\ work[p].at \in Nat /\ work[p].out \in Seq(Texts)
  BY <1>1 DEF Works
<1>3. \A i \in DOMAIN work[p].ops : work[p].ops[i] \in AnyOps
  BY <1>2
<1>4. \A op \in AnyOps : op.file \in Files /\ op.kind \in Kinds
  BY DEF AnyOps, PatchOps, Kinds
<1> QED
  BY <1>1, <1>2, <1>3, <1>4

\* What a call does to its own record keeps it well typed ...
LEMMA ChangedWork ==
    ASSUME EditsTypes, NEW p \in Prompts, NEW w \in Works, WorkFits(w), work' = [work EXCEPT ![p] = w],
           disk' \in [Files -> Texts], UNCHANGED base, tracked' \in [Files -> Track],
           \A f \in Files : tracked'[f].known \/ tracked'[f] = NotTracked,
           polluted' \in BOOLEAN, UNCHANGED shaken, failed' \subseteq Files, calls' \in 0..MaxCalls
    PROVE  EditsTypes'
<1>1. work' \in [Prompts -> Works]
  BY DEF EditsTypes
<1>2. ASSUME NEW q \in Prompts PROVE WorkFits(work'[q])
  BY <1>2 DEF EditsTypes
<1> QED
  BY <1>1, <1>2 DEF EditsTypes

\* ... and a turn recorded, when its prompt runs alone.
LEMMA ChangedTurn ==
    ASSUME EditsInv, NEW p \in Prompts, NEW w, work' = [work EXCEPT ![p] = w], UNCHANGED shaken,
           Running(p), polluted => polluted',
           ~shaken /\ ~polluted' /\ TurnIsRecorded(work[p]) => TurnIsRecorded(w)'
    PROVE  TurnsAreRecorded'
<1> SUFFICES ASSUME ~shaken PROVE TurnsAreRecorded'
  BY DEF TurnsAreRecorded
<1>1. \A q \in Prompts : Running(q) => q = p
  BY DEF EditsInv, TurnsAreRecorded
<1>2. \A q \in Prompts : q # p => work'[q] = work[q]
  BY DEF EditsInv, EditsTypes
<1>3. \A q \in Prompts : Running(q)' => q = p
  BY <1>1, <1>2 DEF Running
<1>4. work'[p] = w
  BY DEF EditsInv, EditsTypes
<1>5. ASSUME ~polluted' PROVE TurnIsRecorded(w)'
  BY <1>5 DEF EditsInv, TurnsAreRecorded, EditsTypes
<1>6. \A q \in Prompts, r \in Prompts : Running(q)' /\ Running(r)' => q = r
  BY <1>3
<1>7. ASSUME ~polluted', NEW q \in Prompts, Running(q)' PROVE TurnIsRecorded(work[q])'
  <2>1. work'[q] = w
    BY <1>3, <1>4, <1>7
  <2> QED
    BY <1>5, <1>7, <2>1 DEF TurnIsRecorded, Unrecorded
<1> QED
  BY <1>6, <1>7 DEF TurnsAreRecorded

LEMMA StartTurnKeeps == ASSUME EditsInv, NEW p \in Prompts, StartTurn(p) PROVE EditsInv'
<1> USE DEF EditsInv
<1>1. NotTracked \in Track /\ ~NotTracked.known
  BY DEF NotTracked, Track, Texts
<1>2. PICK w : w = [work[p] EXCEPT !.step = "ready"]
  OBVIOUS
<1>3. w \in Works /\ w.step = "ready" /\ work' = [work EXCEPT ![p] = w]
  BY <1>2, AWork DEF Works, Steps, StartTurn
<1>4. tracked' = [f \in Files |-> NotTracked] /\ base' = disk /\ disk' = disk /\ failed' = {}
      /\ polluted' = FALSE /\ calls' = calls /\ shaken' = \E q \in Prompts : Running(q)
  BY DEF StartTurn
<1>5. EditsTypes'
  <2>1. work' \in [Prompts -> Works]
    BY <1>3 DEF EditsTypes
  <2>2. \A q \in Prompts : WorkFits(work'[q])
    BY <1>3 DEF EditsTypes, WorkFits
  <2> QED
    BY <1>1, <1>4, <2>1, <2>2 DEF EditsTypes
<1>6. ASSUME ~shaken' PROVE TurnsAreRecorded'
  <2>1. \A q \in Prompts : q # p => ~Running(q)'
    BY <1>3, <1>4, <1>6 DEF Running, EditsTypes
  <2>2. work'[p] = w
    BY <1>3 DEF EditsTypes
  <2>3. TurnIsRecorded(w)'
    BY <1>1, <1>3, <1>4 DEF TurnIsRecorded
  <2>4. TurnIsRecorded(work[p])'
    BY <2>2, <2>3 DEF TurnIsRecorded, Unrecorded
  <2> QED
    BY <2>1, <2>4 DEF TurnsAreRecorded
<1> QED
  BY <1>5, <1>6 DEF TurnsAreRecorded

LEMMA AtRestFits ==
    ASSUME NEW step \in {"waiting", "over", "ready", "command"}
    PROVE  AtRest(step) \in Works /\ WorkFits(AtRest(step)) /\ AtRest(step).step = step
BY DEF AtRest, Works, Steps, Texts, WorkFits

LEMMA EndTurnKeeps == ASSUME EditsInv, NEW p \in Prompts, EndTurn(p) PROVE EditsInv'
<1> USE DEF EditsInv
<1>1. work' = [work EXCEPT ![p] = AtRest("over")] /\ AtRest("over").step = "over"
      /\ UNCHANGED <<disk, tracked, polluted, calls, base, shaken, failed>>
  BY AtRestFits DEF EndTurn
<1>2. EditsTypes'
  BY <1>1, AtRestFits, ChangedWork DEF EditsTypes
<1>3. \A q \in Prompts : Running(q)' => q # p /\ Running(q) /\ work'[q] = work[q]
  BY <1>1 DEF Running, EditsTypes
<1>4. ASSUME NEW q \in Prompts, Running(q)', TurnIsRecorded(work[q]) PROVE TurnIsRecorded(work[q])'
  BY <1>1, <1>3, <1>4 DEF TurnIsRecorded, Unrecorded
<1>5. TurnsAreRecorded'
  BY <1>1, <1>3, <1>4 DEF TurnsAreRecorded
<1> QED
  BY <1>2, <1>5

\* A call that has changed nothing yet.
LEMMA BeginKeeps ==
    ASSUME EditsInv, NEW p \in Prompts, NEW ops \in Seq(AnyOps) \ {<<>>}, NEW out \in Seq(Texts),
           Begin(p, "look", ops, out),
           \/ out = <<>> /\ ops \in Seq(PatchOps)
           \/ Len(out) = Len(ops) /\ \A i \in 1..Len(ops) : out[i] # Absent /\ ops[i].kind # "delete"
    PROVE  EditsInv'
<1> USE EditsAssumption DEF EditsInv
<1>1. PICK w : w = [AtRest("look") EXCEPT !.ops = ops, !.out = out]
  OBVIOUS
<1>2. w = [step |-> "look", ops |-> ops, at |-> 1, glimpse |-> Absent, out |-> out]
  BY <1>1 DEF AtRest
<1>3. w \in Works /\ 1 \in DOMAIN ops
  BY <1>2 DEF Works, Steps, Texts
<1>4. WorkFits(w)
  <2>1. w.step = "look" /\ w.at = 1 /\ w.ops = ops /\ w.out = out
    BY <1>2
  <2>2. DOMAIN out = 1..Len(out) /\ DOMAIN ops = 1..Len(ops)
    OBVIOUS
  <2>3. CASE out = <<>> /\ ops \in Seq(PatchOps)
    BY <1>3, <2>1, <2>3 DEF WorkFits
  <2>4. CASE Len(out) = Len(ops) /\ \A i \in 1..Len(ops) : out[i] # Absent /\ ops[i].kind # "delete"
    <3>1. OutFits(w) /\ out # <<>>
      BY <2>1, <2>2, <2>4 DEF OutFits
    <3> QED
      BY <1>3, <2>1, <3>1 DEF WorkFits
  <2> QED
    BY <2>3, <2>4
<1>5. work' = [work EXCEPT ![p] = w] /\ work[p].step = "ready" /\ calls' = calls + 1 /\ calls < MaxCalls
      /\ UNCHANGED <<disk, tracked, polluted, base, shaken, failed>>
  BY <1>1 DEF Begin
<1>6. EditsTypes'
  BY <1>3, <1>4, <1>5, ChangedWork DEF EditsTypes
<1>7. TurnIsRecorded(work[p]) => TurnIsRecorded(w)'
  <2>1. \A f \in Files : ~Unrecorded(work[p], f)
    BY <1>5 DEF Unrecorded
  <2>2. w.step = "look" /\ w.at = 1 /\ w.ops = ops
    BY <1>2
  <2>3. \A i \in DOMAIN ops : ~(i < 1)
    OBVIOUS
  <2> QED
    BY <1>5, <2>1, <2>2, <2>3 DEF TurnIsRecorded
<1>8. Running(p)
  BY <1>5 DEF Running
<1> QED
  BY <1>5, <1>6, <1>7, <1>8, ChangedTurn

LEMMA CallsBeginWell ==
    ASSUME EditsInv, NEW p \in Prompts,
           \/ \E f \in Files, body \in Contents : WriteFile(p, f, body)
           \/ \E f \in Files, old \in Snippets, new \in Snippets : EditFile(p, f, old, new)
           \/ \E patch \in Patches : ApplyPatch(p, patch)
    PROVE  EditsInv'
<1> USE EditsAssumption
<1>1. ASSUME NEW f \in Files, NEW kind \in {"write", "edit"}, NEW text \in Seq(Lines),
             Begin(p, "look", <<[kind |-> kind, file |-> f]>>, <<text>>)
      PROVE  EditsInv'
  <2>1. [kind |-> kind, file |-> f] \in AnyOps /\ text \in Texts
    BY DEF AnyOps, Texts
  <2>2. <<[kind |-> kind, file |-> f]>> \in Seq(AnyOps) \ {<<>>} /\ <<text>> \in Seq(Texts)
    BY <2>1
  <2>3. \A i \in 1..1 : <<text>>[i] # Absent /\ <<[kind |-> kind, file |-> f]>>[i].kind # "delete"
    OBVIOUS
  <2> QED
    BY <1>1, <2>2, <2>3, BeginKeeps
<1>2. ASSUME NEW f \in Files, NEW body \in Contents, WriteFile(p, f, body) PROVE EditsInv'
  BY <1>1, <1>2 DEF WriteFile
<1>3. ASSUME NEW f \in Files, NEW old \in Snippets, NEW new \in Snippets, EditFile(p, f, old, new) PROVE EditsInv'
  <2>1. disk[f] \in Seq(Lines) /\ old \in Seq(Lines) /\ new \in Seq(Lines) /\ Unique(disk[f], old)
    BY <1>3 DEF EditFile, EditsInv, EditsTypes, Texts
  <2>2. OneHunk(disk[f], [old |-> old, new |-> new]) \in Seq(Lines)
    BY <2>1, ASplice
  <2> QED
    BY <1>1, <1>3, <2>2 DEF EditFile
<1>4. ASSUME NEW patch \in Patches, ApplyPatch(p, patch) PROVE EditsInv'
  <2>1. patch \in Seq(PatchOps) \ {<<>>} /\ patch \in Seq(AnyOps)
    BY DEF AnyOps
  <2>2. <<>> \in Seq(Texts)
    OBVIOUS
  <2> QED
    BY <1>4, <2>1, <2>2, BeginKeeps DEF ApplyPatch
<1> QED
  BY <1>2, <1>3, <1>4

LEMMA NextFileFits ==
    ASSUME NEW w \in Works, WorkFits(w), w.step \in {"look", "keep"}
    PROVE  /\ NextFile(w) \in Works /\ WorkFits(NextFile(w))
           /\ NextFile(w).ops = w.ops /\ NextFile(w).step \in {"look", "plan", "write"}
           /\ \A i \in DOMAIN w.ops : NextFile(w).step = "look" /\ i < NextFile(w).at => i <= w.at
           /\ NextFile(w).step \in {"plan", "write"} => NextFile(w).at = 1 /\ \A i \in DOMAIN w.ops : i <= w.at
<1>1. w.ops \in Seq(AnyOps) /\ w.at \in Nat /\ w.out \in Seq(Texts) /\ w.glimpse \in Texts /\ w.at \in DOMAIN w.ops
      /\ w = [step |-> w.step, ops |-> w.ops, at |-> w.at, glimpse |-> w.glimpse, out |-> w.out]
  BY DEF Works, WorkFits
<1>2. DOMAIN w.ops = 1..Len(w.ops) /\ Len(w.ops) \in Nat
  BY <1>1
<1>3. CASE w.at < Len(w.ops)
  <2>1. NextFile(w) = [step |-> "look", ops |-> w.ops, at |-> w.at + 1, glimpse |-> w.glimpse, out |-> w.out]
    BY <1>1, <1>3 DEF NextFile
  <2> QED
    BY <1>1, <1>2, <1>3, <2>1 DEF Works, Steps, WorkFits, OutFits
<1>4. CASE ~(w.at < Len(w.ops))
  <2>1. NextFile(w) = [step |-> IF w.out = <<>> THEN "plan" ELSE "write",
                       ops |-> w.ops, at |-> 1, glimpse |-> Absent, out |-> w.out]
    BY <1>1, <1>4 DEF NextFile
  <2>2. NextFile(w) \in Works
    BY <1>1, <2>1 DEF Works, Steps, Texts
  <2>3. 1 \in DOMAIN w.ops
    BY <1>1, <1>2
  <2> QED
    BY <1>1, <1>2, <1>4, <2>1, <2>2, <2>3 DEF WorkFits, OutFits
<1> QED
  BY <1>3, <1>4

LEMMA LookKeeps == ASSUME EditsInv, NEW p \in Prompts, Look(p) PROVE EditsInv'
<1> DEFINE w == work[p]
           f == w.ops[w.at].file
<1>1. w.step = "look" /\ w \in Works /\ WorkFits(w) /\ w.at \in DOMAIN w.ops /\ f \in Files /\ w.at \in Nat
      /\ UNCHANGED <<disk, tracked, polluted, calls, base, shaken, failed>>
      /\ work' = [work EXCEPT ![p] =
             IF tracked[f].known THEN NextFile(w) ELSE [w EXCEPT !.step = "keep", !.glimpse = disk[f]]]
  BY AWork DEF Look, EditsInv, WorkFits
<1>2. PICK v : v = IF tracked[f].known THEN NextFile(w) ELSE [w EXCEPT !.step = "keep", !.glimpse = disk[f]]
  OBVIOUS
<1>3. CASE tracked[f].known
  <2>1. v = NextFile(w)
    BY <1>2, <1>3
  <2>2. v \in Works /\ WorkFits(v)
    BY <1>1, <2>1, NextFileFits
  <2>3. EditsTypes'
    BY <1>1, <1>2, <2>2, ChangedWork DEF EditsInv, EditsTypes
  <2>4. /\ v.ops = w.ops /\ v.step \in {"look", "plan", "write"}
        /\ \A i \in DOMAIN w.ops : v.step = "look" /\ i < v.at => i <= w.at
        /\ v.step \in {"plan", "write"} => v.at = 1 /\ \A i \in DOMAIN w.ops : i <= w.at
    BY <1>1, <2>1, NextFileFits
  <2>5. \A g \in Files : Unrecorded(w, g) => Unrecorded(v, g)
    BY <1>1, <2>4 DEF Unrecorded
  <2>6. w.ops \in Seq(AnyOps)
    BY <1>1 DEF Works
  <2>7. \A i \in DOMAIN w.ops : i \in Nat /\ (i <= w.at => i < w.at \/ i = w.at) /\ ~(i < 1)
    BY <1>1, <2>6
  <2> HIDE DEF w, f
  <2>8. TurnIsRecorded(w) => TurnIsRecorded(v)'
    BY <1>1, <1>3, <2>4, <2>5, <2>7 DEF TurnIsRecorded, Unrecorded, f
  <2>9. work' = [work EXCEPT ![p] = v]
    BY <1>1, <1>2
  <2> QED
    BY <1>1, <2>3, <2>8, <2>9, ChangedTurn DEF Running, w, EditsInv
<1>4. CASE ~tracked[f].known
  <2>1. v = [step |-> "keep", ops |-> w.ops, at |-> w.at, glimpse |-> disk[f], out |-> w.out]
    BY <1>1, <1>2, <1>4 DEF Works
  <2>2. v \in Works
    BY <1>1, <2>1 DEF Works, Steps, EditsInv, EditsTypes
  <2>3. WorkFits(v)
    BY <1>1, <2>1 DEF WorkFits, OutFits
  <2>4. EditsTypes'
    BY <1>1, <1>2, <2>2, <2>3, ChangedWork DEF EditsInv, EditsTypes
  <2>5. TurnIsRecorded(w) => TurnIsRecorded(v)'
    BY <1>1, <2>1 DEF TurnIsRecorded, Unrecorded
  <2>6. work' = [work EXCEPT ![p] = v]
    BY <1>1, <1>2
  <2> QED
    BY <1>1, <2>4, <2>5, <2>6, ChangedTurn DEF Running, EditsInv
<1> QED
  BY <1>3, <1>4

LEMMA KeepKeeps == ASSUME EditsInv, NEW p \in Prompts, Keep(p) PROVE EditsInv'
<1> DEFINE w == work[p]
           f == w.ops[w.at].file
           entry == IF tracked[f].known THEN tracked[f] ELSE [NotTracked EXCEPT !.original = w.glimpse, !.known = TRUE]
<1>1. w.step = "keep" /\ w \in Works /\ WorkFits(w) /\ w.at \in DOMAIN w.ops /\ f \in Files /\ w.at \in Nat
      /\ UNCHANGED <<disk, polluted, calls, base, shaken, failed>>
      /\ work' = [work EXCEPT ![p] = NextFile(w)]
      /\ tracked' = IF tracked[f].known THEN tracked
                    ELSE [tracked EXCEPT ![f] = [NotTracked EXCEPT !.original = w.glimpse, !.known = TRUE]]
  BY AWork DEF Keep, EditsInv, WorkFits
<1>2. entry \in Track /\ entry.known /\ (~tracked[f].known => entry.original = w.glimpse)
      /\ (tracked[f].known => entry = tracked[f])
  BY <1>1 DEF EditsInv, EditsTypes, Track, Works, NotTracked, Texts
<1>3. tracked' = [tracked EXCEPT ![f] = entry]
  BY <1>1 DEF EditsInv, EditsTypes
<1>4. PICK v : v = NextFile(w)
  OBVIOUS
<1>5. v \in Works /\ WorkFits(v)
  BY <1>1, <1>4, NextFileFits
<1>6. work' = [work EXCEPT ![p] = v]
  BY <1>1, <1>4
<1> HIDE DEF entry
<1>7. tracked' \in [Files -> Track] /\ tracked'[f] = entry /\ \A g \in Files \ {f} : tracked'[g] = tracked[g]
  BY <1>1, <1>2, <1>3 DEF EditsInv, EditsTypes
<1>8. EditsTypes'
  <2>1. \A g \in Files : tracked'[g].known \/ tracked'[g] = NotTracked
    BY <1>2, <1>7 DEF EditsInv, EditsTypes
  <2> QED
    BY <1>1, <1>5, <1>6, <1>7, <2>1, ChangedWork DEF EditsInv, EditsTypes
<1>9. /\ v.ops = w.ops /\ v.step \in {"look", "plan", "write"}
      /\ \A i \in DOMAIN w.ops : v.step = "look" /\ i < v.at => i <= w.at
      /\ v.step \in {"plan", "write"} => v.at = 1 /\ \A i \in DOMAIN w.ops : i <= w.at
  BY <1>1, <1>4, NextFileFits
<1>10. w.ops \in Seq(AnyOps) /\ f \in FilesOf(w.ops)
  BY <1>1 DEF Works, FilesOf
<1>11. \A i \in DOMAIN w.ops : i \in Nat /\ (i <= w.at => i < w.at \/ i = w.at) /\ ~(i < 1)
  BY <1>1, <1>10
<1>12. \A i \in DOMAIN w.ops : w.ops[i].file \in Files
  BY AWork DEF EditsInv
<1>13. ASSUME TurnIsRecorded(w) PROVE TurnIsRecorded(v)'
  <2>1. \A g \in Files : Unrecorded(w, g) => Unrecorded(v, g)
    BY <1>1, <1>9 DEF Unrecorded
  <2>2. Unrecorded(v, f)
    BY <1>9, <1>10 DEF Unrecorded
  <2>3. ASSUME NEW i \in DOMAIN w.ops, i < w.at PROVE tracked'[w.ops[i].file].known
    BY <1>1, <1>2, <1>7, <1>12, <1>13, <2>3 DEF TurnIsRecorded
  <2>4. tracked'[w.ops[w.at].file].known
    BY <1>2, <1>7
  <2>5. \A i \in DOMAIN w.ops : i <= w.at => tracked'[w.ops[i].file].known
    BY <1>11, <2>3, <2>4
  <2>6. ASSUME NEW g \in Files
        PROVE  /\ tracked'[g].known => tracked'[g].original = base[g]
               /\ ~tracked'[g].known => disk[g] = base[g] /\ g \notin failed
               /\ tracked'[g].known /\ g \notin failed => tracked'[g].current = disk[g] \/ Unrecorded(v, g)
    <3>1. CASE g = f
      BY <1>1, <1>2, <1>7, <1>13, <2>2, <3>1 DEF TurnIsRecorded
    <3>2. CASE g # f
      BY <1>7, <1>13, <2>1, <3>2 DEF TurnIsRecorded
    <3> QED
      BY <3>1, <3>2
  <2> HIDE DEF w, f
  <2> QED
    BY <1>1, <1>9, <1>11, <2>5, <2>6 DEF TurnIsRecorded, Unrecorded
<1> QED
  BY <1>1, <1>6, <1>8, <1>13, ChangedTurn DEF Running, EditsInv

\* A plan that fits has a result for each operation.
LEMMA PlanPatchKeeps == ASSUME EditsInv, NEW p \in Prompts, PlanPatch(p) PROVE EditsInv'
<1> DEFINE w == work[p]
<1>1. w.step = "plan" /\ w \in Works /\ WorkFits(w) /\ w.at \in DOMAIN w.ops /\ w.ops \in Seq(PatchOps)
      /\ UNCHANGED <<disk, tracked, polluted, calls, base, shaken, failed>>
      /\ work' = [work EXCEPT ![p] = [w EXCEPT !.step = "write", !.out = [i \in DOMAIN w.ops |-> Result(w.ops[i])]]]
      /\ \A i \in DOMAIN w.ops : Fits(w.ops[i])
  BY AWork DEF PlanPatch, EditsInv, WorkFits
<1>2. PICK v : v = [w EXCEPT !.step = "write", !.out = [i \in DOMAIN w.ops |-> Result(w.ops[i])]]
  OBVIOUS
<1>3. v.step = "write" /\ v.ops = w.ops /\ v.at = w.at /\ v.glimpse = w.glimpse
      /\ v.out = [i \in DOMAIN w.ops |-> Result(w.ops[i])]
      /\ v = [step |-> v.step, ops |-> v.ops, at |-> v.at, glimpse |-> v.glimpse, out |-> v.out]
  BY <1>1, <1>2 DEF Works
<1>4. \A i \in DOMAIN w.ops : Result(w.ops[i]) \in Texts /\ (Result(w.ops[i]) = Absent <=> w.ops[i].kind = "delete")
  <2>1. w.ops \in Seq(PatchOps) => \A i \in DOMAIN w.ops : w.ops[i] \in PatchOps
    OBVIOUS
  <2> QED
    BY <1>1, <2>1, ResultFits DEF EditsInv
<1>5. v.out \in Seq(Texts) /\ OutFits(v)
  <2>1. DOMAIN w.ops = 1..Len(w.ops) /\ Len(w.ops) \in Nat
    <3>1. w.ops \in Seq(PatchOps)
      BY <1>1
    <3> HIDE DEF w
    <3> QED
      BY <3>1
  <2>2. v.out \in [1..Len(w.ops) -> Texts]
    BY <1>3, <1>4, <2>1
  <2> QED
    BY <1>3, <1>4, <2>1, <2>2 DEF OutFits
<1>6. v \in Works /\ WorkFits(v)
  BY <1>1, <1>3, <1>5 DEF Works, Steps, WorkFits
<1>7. work' = [work EXCEPT ![p] = v]
  BY <1>1, <1>2
<1>8. EditsTypes'
  BY <1>1, <1>6, <1>7, ChangedWork DEF EditsInv, EditsTypes
<1>9. ASSUME TurnIsRecorded(w) PROVE TurnIsRecorded(v)'
  <2>1. w.at = 1 /\ w.ops \in Seq(PatchOps)
    BY <1>1 DEF WorkFits
  <2>2. \A i \in DOMAIN w.ops : ~(i < 1)
    <3> HIDE DEF w
    <3> QED
      BY <2>1
  <2> HIDE DEF w
  <2> QED
    BY <1>1, <1>3, <1>9, <2>1, <2>2 DEF TurnIsRecorded, Unrecorded
<1> QED
  BY <1>1, <1>7, <1>8, <1>9, ChangedTurn DEF Running, EditsInv

LEMMA FailsKeeps == ASSUME EditsInv, NEW p \in Prompts, Fails(p) PROVE EditsInv'
<1> DEFINE w == work[p]
<1>1. w.step \in {"plan", "write"} /\ UNCHANGED <<disk, tracked, polluted, calls, base, shaken>>
      /\ failed' = failed \cup FilesOf(w.ops) /\ work' = [work EXCEPT ![p] = AtRest("ready")]
  BY DEF Fails
<1>2. \A i \in DOMAIN w.ops : w.ops[i].file \in Files
  BY AWork DEF EditsInv
<1>3. EditsTypes'
  BY <1>1, <1>2, AtRestFits, ChangedWork DEF EditsInv, EditsTypes, FilesOf
<1>4. ASSUME TurnIsRecorded(w) PROVE TurnIsRecorded(AtRest("ready"))'
  <2>1. \A f \in FilesOf(w.ops) : tracked[f].known
    BY <1>1, <1>4 DEF TurnIsRecorded, FilesOf
  <2>2. \A f \in Files \ FilesOf(w.ops) : ~Unrecorded(w, f)
    BY <1>1 DEF Unrecorded
  <2> HIDE DEF w
  <2>3. AtRest("ready").step = "ready"
    BY AtRestFits
  <2> QED
    BY <1>1, <1>4, <2>1, <2>2, <2>3 DEF TurnIsRecorded
<1> QED
  BY <1>1, <1>3, <1>4, AtRestFits, ChangedTurn DEF Running, EditsInv

LEMMA RunCommandKeeps == ASSUME EditsInv, NEW p \in Prompts, RunCommand(p) PROVE EditsInv'
<1> USE EditsAssumption
<1>1. UNCHANGED <<disk, tracked, base, shaken, failed>> /\ calls < MaxCalls /\ calls' = calls + 1 /\ polluted' = TRUE
      /\ work' = [work EXCEPT ![p] = AtRest("command")] /\ work[p].step = "ready"
  BY DEF RunCommand
<1>2. EditsTypes'
  BY <1>1, AtRestFits, ChangedWork DEF EditsInv, EditsTypes
<1> QED
  BY <1>1, <1>2, ChangedTurn DEF Running, EditsInv

LEMMA CommandEndsKeeps == ASSUME EditsInv, NEW p \in Prompts, CommandEnds(p) PROVE EditsInv'
<1>1. UNCHANGED <<disk, tracked, polluted, calls, base, shaken, failed>>
      /\ work' = [work EXCEPT ![p] = AtRest("ready")] /\ work[p].step = "command"
  BY DEF CommandEnds
<1>2. EditsTypes'
  BY <1>1, AtRestFits, ChangedWork DEF EditsInv, EditsTypes
<1>3. ~TurnIsRecorded(work[p])
  BY <1>1 DEF TurnIsRecorded
<1> QED
  BY <1>1, <1>2, <1>3, ChangedTurn DEF Running, EditsInv

\* A command runs only in a turn that says so, or beside another.
LEMMA CommandWritesKeeps ==
    ASSUME EditsInv, NEW p \in Prompts, NEW f \in Files, NEW body \in Contents \cup {Absent}, CommandWrites(p, f, body)
    PROVE  EditsInv'
<1> USE EditsAssumption
<1>1. UNCHANGED <<tracked, polluted, work, calls, base, shaken, failed>> /\ disk' = [disk EXCEPT ![f] = body]
      /\ work[p].step = "command"
  BY DEF CommandWrites
<1>2. EditsTypes'
  <2>1. disk' \in [Files -> Texts]
    BY <1>1 DEF EditsInv, EditsTypes, Texts
  <2>2. \A q \in Prompts : WorkFits(work'[q])
    BY <1>1 DEF EditsInv, EditsTypes
  <2> QED
    BY <1>1, <2>1, <2>2 DEF EditsInv, EditsTypes
<1>3. Running(p) /\ ~TurnIsRecorded(work[p])
  BY <1>1 DEF Running, TurnIsRecorded
<1>4. TurnsAreRecorded'
  BY <1>1, <1>3 DEF EditsInv, EditsTypes, TurnsAreRecorded, Running
<1> QED
  BY <1>2, <1>4 DEF EditsInv

\* What the last operation so far on a file has made of it is what is there.
LEMMA WriteOneKeeps == ASSUME EditsInv, NEW p \in Prompts, WriteOne(p) PROVE EditsInv'
<1> PICK w : w = work[p]
  OBVIOUS
<1> DEFINE f == w.ops[w.at].file
<1>1. w.step = "write" /\ w \in Works /\ WorkFits(w) /\ w.at \in DOMAIN w.ops /\ f \in Files /\ w.at \in Nat
      /\ UNCHANGED <<tracked, polluted, calls, base, shaken, failed>>
      /\ disk' = [disk EXCEPT ![f] = w.out[w.at]]
      /\ work' = [work EXCEPT ![p] = IF w.at < Len(w.ops) THEN [w EXCEPT !.at = @ + 1]
                                     ELSE [w EXCEPT !.step = "record", !.at = 1]]
  <2>1. w \in Works /\ WorkFits(w) /\ w.at \in Nat /\ \A i \in DOMAIN w.ops : w.ops[i].file \in Files
    BY AWork DEF EditsInv
  <2> QED
    BY <2>1 DEF WriteOne, WorkFits
<1>2. PICK v : v = IF w.at < Len(w.ops) THEN [w EXCEPT !.at = @ + 1] ELSE [w EXCEPT !.step = "record", !.at = 1]
  OBVIOUS
<1>3. work' = [work EXCEPT ![p] = v]
  BY <1>1, <1>2
<1>4. OutFits(w) /\ w.ops \in Seq(AnyOps) /\ w.out \in Seq(Texts) /\ w.glimpse \in Texts
      /\ w = [step |-> "write", ops |-> w.ops, at |-> w.at, glimpse |-> w.glimpse, out |-> w.out]
  BY <1>1 DEF Works, WorkFits
<1>5. v.ops = w.ops /\ v.out = w.out /\ v.glimpse = w.glimpse /\ v.at \in Nat
      /\ v = [step |-> v.step, ops |-> w.ops, at |-> v.at, glimpse |-> w.glimpse, out |-> w.out]
      /\ \/ v.step = "write" /\ v.at = w.at + 1 /\ w.at < Len(w.ops)
         \/ v.step = "record" /\ v.at = 1 /\ ~(w.at < Len(w.ops))
  <2>1. CASE w.at < Len(w.ops)
    <3>1. v = [step |-> "write", ops |-> w.ops, at |-> w.at + 1, glimpse |-> w.glimpse, out |-> w.out]
      BY <1>2, <1>4, <2>1
    <3> QED
      BY <1>1, <2>1, <3>1
  <2>2. CASE ~(w.at < Len(w.ops))
    <3>1. v = [step |-> "record", ops |-> w.ops, at |-> 1, glimpse |-> w.glimpse, out |-> w.out]
      BY <1>2, <1>4, <2>2
    <3> QED
      BY <2>2, <3>1
  <2> QED
    BY <2>1, <2>2
<1>6. \A i \in DOMAIN w.ops : i \in 1..Len(w.ops)
  BY <1>4
<1>7. v.at \in DOMAIN v.ops /\ Len(w.ops) \in Nat /\ 1 \in DOMAIN w.ops /\ (w.at < Len(w.ops) => w.at + 1 \in DOMAIN w.ops)
  BY <1>1, <1>4, <1>5
<1>8. v \in Works /\ WorkFits(v)
  BY <1>4, <1>5, <1>7 DEF Works, Steps, WorkFits, OutFits
<1>9. w.out[w.at] \in Texts
  BY <1>1, <1>4 DEF OutFits
<1>10. disk' \in [Files -> Texts] /\ disk'[f] = w.out[w.at] /\ \A g \in Files \ {f} : disk'[g] = disk[g]
  BY <1>1, <1>9 DEF EditsInv, EditsTypes
<1>11. EditsTypes'
  BY <1>1, <1>3, <1>8, <1>10, ChangedWork DEF EditsInv, EditsTypes
<1>12. \A i \in DOMAIN w.ops : w.ops[i].file \in Files
  BY AWork DEF EditsInv
<1>13. ASSUME TurnIsRecorded(w) PROVE TurnIsRecorded(v)'
  <2>1. tracked[f].known /\ f \in FilesOf(w.ops)
    BY <1>1, <1>13 DEF TurnIsRecorded, FilesOf
  <2>2. \A g \in Files : Unrecorded(w, g) => Unrecorded(v, g)
    BY <1>1, <1>5, <1>6 DEF Unrecorded, FilesOf
  <2>3. Unrecorded(v, f)
    BY <1>1, <1>5, <1>6, <2>1 DEF Unrecorded
  <2>4. ASSUME NEW g \in Files
        PROVE  /\ tracked[g].known => tracked[g].original = base[g]
               /\ ~tracked[g].known => disk'[g] = base[g] /\ g \notin failed
               /\ tracked[g].known /\ g \notin failed => tracked[g].current = disk'[g] \/ Unrecorded(v, g)
    <3>1. CASE g = f
      BY <1>13, <2>1, <2>3, <3>1 DEF TurnIsRecorded
    <3>2. CASE g # f
      BY <1>10, <1>13, <2>2, <3>2 DEF TurnIsRecorded
    <3> QED
      BY <3>1, <3>2
  <2>5. ASSUME NEW i \in DOMAIN w.ops, i <= w.at, LastBefore(w.ops, i, w.at + 1)
        PROVE  disk'[w.ops[i].file] = w.out[i]
    <3>1. CASE i = w.at
      BY <1>10, <3>1
    <3>2. CASE i < w.at
      <4>1. w.ops[i].file # f
        BY <1>1, <2>5, <3>2 DEF LastBefore
      <4>2. LastBefore(w.ops, i, w.at)
        BY <1>1, <1>6, <2>5 DEF LastBefore
      <4> QED
        BY <1>1, <1>10, <1>12, <1>13, <3>2, <4>1, <4>2 DEF TurnIsRecorded
    <3> QED
      BY <1>1, <1>6, <2>5, <3>1, <3>2
  <2>6. v.step = "write" => \A i \in DOMAIN w.ops : i < v.at /\ LastBefore(w.ops, i, v.at) => disk'[w.ops[i].file] = w.out[i]
    BY <1>1, <1>5, <1>6, <2>5
  <2>7. v.step = "record" => \A i \in DOMAIN w.ops : LastBefore(w.ops, i, Len(w.ops) + 1) => disk'[w.ops[i].file] = w.out[i]
    <3>1. v.step = "record" => w.at = Len(w.ops)
      BY <1>1, <1>5, <1>6, <1>7
    <3> QED
      BY <1>6, <2>5, <3>1
  <2>8. \A i \in DOMAIN w.ops : tracked[w.ops[i].file].known
    BY <1>1, <1>13 DEF TurnIsRecorded
  <2>9. v.step \notin {"command", "look", "keep"}
    BY <1>5
  <2>10. \A g \in Files : Unrecorded(v, g)' <=> Unrecorded(v, g)
    BY DEF Unrecorded
  <2>11. UNCHANGED <<tracked, base, failed>> /\ v.ops = w.ops /\ v.out = w.out
    BY <1>1, <1>5
  <2> QED
    BY <2>4, <2>6, <2>7, <2>8, <2>9, <2>10, <2>11 DEF TurnIsRecorded
<1> QED
  BY <1>1, <1>3, <1>11, <1>13, ChangedTurn DEF Running, EditsInv

\* What the call has recorded for good is what is there: a file that is gone
\* when its operation is recorded belongs to a later one too.
LEMMA RecordOneKeeps == ASSUME EditsInv, NEW p \in Prompts, RecordOne(p) PROVE EditsInv'
<1>1. PICK w : w = work[p]
  OBVIOUS
<1>2. PICK f, kind : f = w.ops[w.at].file /\ kind = w.ops[w.at].kind
  OBVIOUS
<1>3. PICK now : now = CASE kind \in {"write", "edit"} -> w.out[w.at]
                         [] kind = "delete" -> Absent
                         [] OTHER -> disk[f]
  OBVIOUS
<1>4. PICK skipped \in BOOLEAN : skipped <=> kind \in {"add", "update"} /\ disk[f] = Absent
  OBVIOUS
<1>5. w.step = "record" /\ w \in Works /\ WorkFits(w) /\ w.at \in DOMAIN w.ops /\ f \in Files /\ w.at \in Nat
      /\ kind \in Kinds /\ \A i \in DOMAIN w.ops : w.ops[i].file \in Files
  <2>1. w \in Works /\ WorkFits(w) /\ w.at \in Nat
        /\ \A i \in DOMAIN w.ops : w.ops[i].file \in Files /\ w.ops[i].kind \in Kinds
    BY <1>1, AWork DEF EditsInv
  <2>2. w.step = "record"
    BY <1>1 DEF RecordOne
  <2> QED
    BY <1>2, <2>1, <2>2 DEF WorkFits
<1>6. UNCHANGED <<disk, polluted, calls, base, shaken>>
      /\ work' = [work EXCEPT ![p] = IF w.at < Len(w.ops) THEN [w EXCEPT !.at = @ + 1] ELSE AtRest("ready")]
  BY <1>1 DEF RecordOne
<1>7. tracked' = IF skipped THEN tracked ELSE [tracked EXCEPT ![f].current = now, ![f].known = TRUE]
  BY <1>1, <1>2, <1>3, <1>4 DEF RecordOne
<1>8. failed' = IF skipped THEN failed ELSE failed \ {f}
  BY <1>1, <1>2, <1>4 DEF RecordOne
<1>9. PICK v : v = IF w.at < Len(w.ops) THEN [w EXCEPT !.at = @ + 1] ELSE AtRest("ready")
  OBVIOUS
<1>10. work' = [work EXCEPT ![p] = v]
  BY <1>6, <1>9
<1>11. OutFits(w) /\ w.ops \in Seq(AnyOps) /\ w.out \in Seq(Texts) /\ w.glimpse \in Texts
       /\ w = [step |-> "record", ops |-> w.ops, at |-> w.at, glimpse |-> w.glimpse, out |-> w.out]
  BY <1>5 DEF Works, WorkFits
<1>12. \/ w.at < Len(w.ops) /\ v = [step |-> "record", ops |-> w.ops, at |-> w.at + 1, glimpse |-> w.glimpse, out |-> w.out]
       \/ ~(w.at < Len(w.ops)) /\ v = AtRest("ready")
  <2>1. CASE w.at < Len(w.ops)
    BY <1>9, <1>11, <2>1
  <2>2. CASE ~(w.at < Len(w.ops))
    BY <1>9, <2>2
  <2> QED
    BY <2>1, <2>2
<1>13. (\A i \in DOMAIN w.ops : i \in 1..Len(w.ops)) /\ Len(w.ops) \in Nat /\ (w.at < Len(w.ops) => w.at + 1 \in DOMAIN w.ops)
  BY <1>5, <1>11
<1>14. v \in Works /\ WorkFits(v) /\ v.step \in {"record", "ready"}
  <2>1. CASE w.at < Len(w.ops)
    BY <1>5, <1>11, <1>12, <1>13, <2>1 DEF Works, Steps, WorkFits, OutFits
  <2>2. CASE ~(w.at < Len(w.ops))
    BY <1>12, <2>2, AtRestFits
  <2> QED
    BY <2>1, <2>2
<1>15. w.out[w.at] \in Texts /\ (w.out[w.at] = Absent <=> kind = "delete")
  <2>1. w.at \in DOMAIN w.out
    BY <1>5, <1>11 DEF OutFits
  <2> QED
    BY <1>2, <1>5, <1>11, <2>1 DEF OutFits
<1>16. now \in Texts
  <2>1. now \in {w.out[w.at], Absent, disk[f]}
    BY <1>3
  <2>2. disk[f] \in Texts /\ Absent \in Texts
    BY <1>5 DEF EditsInv, EditsTypes, Texts
  <2> QED
    BY <1>15, <2>1, <2>2
<1>17. tracked \in [Files -> Track] /\ failed \subseteq Files /\ \A g \in Files : tracked[g].known \/ tracked[g] = NotTracked
  BY DEF EditsInv, EditsTypes
<1>18. PICK entry : entry = IF skipped THEN tracked[f] ELSE [tracked[f] EXCEPT !.current = now, !.known = TRUE]
  OBVIOUS
<1>19. entry \in Track /\ (skipped => entry = tracked[f])
       /\ (~skipped => entry.known /\ entry.current = now /\ entry.original = tracked[f].original)
  BY <1>5, <1>16, <1>17, <1>18 DEF Track
<1>20. tracked' = [tracked EXCEPT ![f] = entry]
  BY <1>5, <1>7, <1>17, <1>18
<1>21. tracked' \in [Files -> Track] /\ tracked'[f] = entry /\ \A g \in Files \ {f} : tracked'[g] = tracked[g]
  BY <1>5, <1>17, <1>19, <1>20
<1>22. EditsTypes'
  <2>1. \A g \in Files : tracked'[g].known \/ tracked'[g] = NotTracked
    BY <1>17, <1>19, <1>21
  <2>2. failed' \subseteq Files
    BY <1>8, <1>17
  <2> QED
    BY <1>6, <1>10, <1>14, <1>21, <2>1, <2>2, ChangedWork DEF EditsInv, EditsTypes
<1>23. ASSUME TurnIsRecorded(w) PROVE TurnIsRecorded(v)'
  <2>1. tracked[f].known /\ tracked[f].original = base[f] /\ \A i \in DOMAIN w.ops : tracked[w.ops[i].file].known
    BY <1>2, <1>5, <1>23 DEF TurnIsRecorded
  <2>2. entry.known /\ entry.original = base[f]
    BY <1>19, <2>1
  <2>3. ASSUME NEW g \in Files, NEW j \in DOMAIN w.ops, w.at < j, w.ops[j].file = g PROVE Unrecorded(v, g)
    <3>1. j \in 1..Len(w.ops)
      BY <1>13
    <3>2. v.step = "record" /\ v.ops = w.ops /\ v.at = w.at + 1
      BY <1>5, <1>12, <1>13, <2>3, <3>1
    <3> QED
      BY <1>5, <2>3, <3>1, <3>2 DEF Unrecorded
  <2>4. Unrecorded(v, f) \/ LastBefore(w.ops, w.at, Len(w.ops) + 1)
    BY <1>2, <1>5, <2>3 DEF LastBefore
  <2>5. Unrecorded(v, f) \/ disk[f] = w.out[w.at]
    BY <1>2, <1>5, <1>23, <2>4 DEF TurnIsRecorded
  <2>6. Unrecorded(v, f) \/ entry.current = disk[f]
    <3>1. CASE skipped
      BY <1>4, <1>15, <2>5, <3>1
    <3>2. CASE ~skipped
      <4>1. now \in {w.out[w.at], disk[f]}
        BY <1>3, <1>15
      <4> QED
        BY <1>19, <2>5, <3>2, <4>1
    <3> QED
      BY <3>1, <3>2
  <2>7. \A g \in Files \ {f} : Unrecorded(w, g) => Unrecorded(v, g)
    <3> SUFFICES ASSUME NEW g \in Files \ {f}, Unrecorded(w, g) PROVE Unrecorded(v, g)
      OBVIOUS
    <3>1. PICK j \in DOMAIN w.ops : w.at <= j /\ w.ops[j].file = g
      BY <1>5 DEF Unrecorded
    <3>2. j \in 1..Len(w.ops) /\ j # w.at
      BY <1>2, <1>13, <3>1
    <3>3. w.at < j
      BY <1>5, <3>1, <3>2
    <3> QED
      BY <2>3, <3>1, <3>3
  <2>8. ASSUME NEW g \in Files
        PROVE  /\ tracked'[g].known => tracked'[g].original = base[g]
               /\ ~tracked'[g].known => disk[g] = base[g] /\ g \notin failed'
               /\ tracked'[g].known /\ g \notin failed' => tracked'[g].current = disk[g] \/ Unrecorded(v, g)
    <3>1. CASE g = f
      BY <1>21, <2>2, <2>6, <3>1
    <3>2. CASE g # f
      <4>1. tracked'[g] = tracked[g] /\ (g \in failed' <=> g \in failed)
        BY <1>8, <1>21, <3>2
      <4> QED
        BY <1>23, <2>7, <3>2, <4>1 DEF TurnIsRecorded
    <3> QED
      BY <3>1, <3>2
  <2>9. \A i \in DOMAIN w.ops : tracked'[w.ops[i].file].known
    BY <1>5, <1>21, <2>1, <2>2
  <2>10. v.step = "record" => v.ops = w.ops /\ v.out = w.out
    BY <1>12, AtRestFits
  <2>11. \A i \in DOMAIN w.ops : LastBefore(w.ops, i, Len(w.ops) + 1) => disk[w.ops[i].file] = w.out[i]
    BY <1>5, <1>23 DEF TurnIsRecorded
  <2> QED
    BY <1>6, <1>14, <2>8, <2>9, <2>10, <2>11 DEF TurnIsRecorded, Unrecorded
<1> QED
  BY <1>1, <1>5, <1>6, <1>10, <1>22, <1>23, ChangedTurn DEF Running, EditsInv

LEMMA EditsKeep == EditsInv /\ [EditsNext]_editVars => EditsInv'
<1> SUFFICES ASSUME EditsInv, [EditsNext]_editVars PROVE EditsInv'
  OBVIOUS
<1>1. CASE EditsNext
  BY <1>1, StartTurnKeeps, EndTurnKeeps, CallsBeginWell, LookKeeps, KeepKeeps, PlanPatchKeeps, WriteOneKeeps,
     FailsKeeps, RecordOneKeeps, RunCommandKeeps, CommandEndsKeeps, CommandWritesKeeps DEF EditsNext
<1>2. CASE UNCHANGED editVars
  <2> USE <1>2 DEF editVars
  <2>1. EditsTypes'
    BY DEF EditsInv, EditsTypes
  <2>2. TurnsAreRecorded'
    BY DEF EditsInv, TurnsAreRecorded, TurnIsRecorded, Running, Unrecorded
  <2> QED
    BY <2>1, <2>2 DEF EditsInv
<1> QED
  BY <1>1, <1>2

(* Every reachable state is well typed, whatever files, patches and        *)
(* snippets a turn is given: the tracker holds an entry only for a file it *)
(* has read, and a call is at one of its operations (apply_patch.go).      *)
THEOREM EditsTypeCorrect == EditsSpec => []EditsTypeOK
<1>1. EditsInv => EditsTypeOK
  <2> SUFFICES ASSUME EditsInv PROVE EditsTypeOK
    OBVIOUS
  <2>1. ASSUME NEW f \in Files
        PROVE  /\ disk[f] = Absent \/ disk[f] \in Content
               /\ base[f] = Absent \/ base[f] \in Content
               /\ tracked[f].known \/ tracked[f] = NotTracked
    BY DEF EditsInv, EditsTypes, Texts, Content
  <2>2. polluted \in BOOLEAN /\ shaken \in BOOLEAN /\ failed \subseteq Files /\ calls \in 0..MaxCalls
    BY DEF EditsInv, EditsTypes
  <2>3. ASSUME NEW p \in Prompts
        PROVE  /\ work[p].step \in Steps /\ \A i \in DOMAIN work[p].ops : work[p].ops[i].kind \in Kinds
               /\ work[p].step \in {"look", "keep", "plan", "write", "record"} => work[p].at \in DOMAIN work[p].ops
               /\ work[p].step \in {"write", "record"} => DOMAIN work[p].out = DOMAIN work[p].ops
    BY AWork DEF EditsInv, Works, WorkFits, OutFits
  <2> QED
    BY <2>1, <2>2, <2>3 DEF EditsTypeOK
<1> QED
  BY <1>1, EditsInitially, EditsKeep, PTL DEF EditsSpec

(* What show_diff and apply_diff say between two calls of a turn is so     *)
(* (turn_diff_tracker.go), for patches of any length that name a file any  *)
(* number of times: but for a command, a call that failed half way, and a  *)
(* second prompt, each tracked file was as the diff says when the turn     *)
(* began and is as it says now, and every other file is as it was.         *)
THEOREM DiffIsTrue == EditsSpec => []DiffTellsTruth
<1>1. EditsInv => DiffTellsTruth
  <2> SUFFICES ASSUME EditsInv, NEW p \in Prompts, work[p].step = "ready", ~polluted, ~shaken, NEW f \in Files \ failed
               PROVE  IF tracked[f].known
                      THEN tracked[f].original = base[f] /\ tracked[f].current = disk[f]
                      ELSE disk[f] = base[f]
    BY DEF DiffTellsTruth
  <2>1. TurnIsRecorded(work[p]) /\ ~Unrecorded(work[p], f)
    BY DEF EditsInv, TurnsAreRecorded, Running, Unrecorded
  <2> QED
    BY <2>1 DEF TurnIsRecorded
<1> QED
  BY <1>1, EditsInitially, EditsKeep, PTL DEF EditsSpec

-----------------------------------------------------------------------------

Commits == [tree : Snapshots, parent : Nat]
Loops(n) == {LoopOff, LoopTop} \cup [at : {"staged"}, seen : Snapshots] \cup [at : {"rolling"}, to : 1..n]
GitCalls(n) ==
    {NotViewing, [at |-> "asked"]}
    \cup [at : {"picked"}, to : 1..n, meant : Snapshots]
    \cup [at : {"listed", "marked"}, to : 1..n]

\* Every commit comes after its parent, and a call names one that was made.
CheckpointsTypes ==
    /\ bench \in Snapshots /\ staged \in [Docs -> Drafts \cup {NoDoc, ToAdd}]
    /\ commits \in Seq(Commits) /\ Len(commits) <= MaxCommits
    /\ \A c \in 1..Len(commits) : commits[c].parent < c
    /\ head \in 0..Len(commits)
    /\ kept \in Seq(Snapshots) /\ raced \in BOOLEAN
    /\ looping \in Loops(Len(commits)) /\ viewing \in [Viewers -> GitCalls(Len(commits))]
    /\ looping.at = "staged" => Len(commits) < MaxCommits

\* Until a call gets in between the loop's own commands: the log is what the
\* loop kept, place by place; what it commits next is what it saw; what it
\* rolls back to is the parent of the newest; and what a Restore has picked
\* is what its step means.
LogIsKept ==
    /\ Len(ListCommits) = Len(kept)
    /\ \A i \in 1..Len(kept) : commits[ListCommits[i]].tree = kept[i]

WorksAreMeant ==
    ~raced =>
        /\ LogIsKept
        /\ looping.at = "staged" => TreeOf(staged) = looping.seen
        /\ looping.at = "rolling" => head # 0 /\ looping.to = commits[head].parent
        /\ \A v \in Viewers : viewing[v].at = "picked" => commits[viewing[v].to].tree = viewing[v].meant

CheckpointsInv == CheckpointsTypes /\ WorksAreMeant

\* Commits that each come after their parent, and the function LogTo reads.
Chained(cs) == cs \in Seq(Commits) /\ Len(cs) <= MaxCommits /\ \A c \in 1..Len(cs) : cs[c].parent < c
LogAt(cs, g, c) == IF c = 0 \/ c > Len(cs) THEN <<>> ELSE Append(g[cs[c].parent], c)
Log(cs) == CHOOSE g : g = [c \in 0..MaxCommits |-> LogAt(cs, g, c)]

LEMMA LogIsTheLog == LogTo = Log(commits)
BY DEF LogTo, Log, LogAt

LEMMA ALogAt ==
    ASSUME NEW cs, Chained(cs), NEW c \in Nat, NEW g, NEW h, \A d \in 0..c - 1 : g[d] = h[d]
    PROVE  LogAt(cs, g, c) = LogAt(cs, h, c)
<1>1. CASE c = 0 \/ c > Len(cs)
  BY <1>1 DEF LogAt
<1>2. CASE ~(c = 0 \/ c > Len(cs))
  <2>1. Len(cs) \in Nat /\ cs \in Seq(Commits)
    BY DEF Chained
  <2>2. c \in 1..Len(cs) /\ cs[c] \in Commits
    BY <1>2, <2>1
  <2>3. cs[c].parent \in 0..c - 1
    BY <2>2 DEF Chained, Commits
  <2> QED
    BY <1>2, <2>3 DEF LogAt
<1> QED
  BY <1>1, <1>2

LEMMA LogUnfolds ==
    ASSUME NEW cs, Chained(cs), NEW c \in 0..MaxCommits
    PROVE  Log(cs)[c] = LogAt(cs, Log(cs), c)
<1> USE CheckpointsAssumption
<1> DEFINE S == {n \in Nat : \E g : \A d \in 0..n : g[d] = LogAt(cs, g, d)}
<1>1. 0 \in S
  <2> DEFINE g == [d \in {0} |-> <<>>]
  <2>1. \A d \in 0..0 : g[d] = LogAt(cs, g, d)
    BY DEF LogAt
  <2> QED
    BY <2>1
<1>2. ASSUME NEW n \in Nat, n \in S PROVE n + 1 \in S
  <2>1. PICK g : \A d \in 0..n : g[d] = LogAt(cs, g, d)
    BY <1>2
  <2> DEFINE h == [d \in 0..n + 1 |-> IF d = n + 1 THEN LogAt(cs, g, n + 1) ELSE g[d]]
  <2>2. \A d \in 0..n : h[d] = g[d]
    OBVIOUS
  <2>3. h[n + 1] = LogAt(cs, g, n + 1)
    OBVIOUS
  <2> HIDE DEF h
  <2>4. ASSUME NEW d \in 0..n + 1 PROVE LogAt(cs, g, d) = LogAt(cs, h, d)
    <3>1. d \in Nat /\ \A e \in 0..d - 1 : g[e] = h[e]
      BY <2>2
    <3> QED
      BY <3>1, ALogAt
  <2>5. \A d \in 0..n + 1 : h[d] = LogAt(cs, h, d)
    BY <2>1, <2>2, <2>3, <2>4
  <2> QED
    BY <2>5
<1>3. MaxCommits \in S
  BY <1>1, <1>2, Hunks!Steps
<1>4. PICK g : \A d \in 0..MaxCommits : g[d] = LogAt(cs, g, d)
  BY <1>3
<1> DEFINE h == [d \in 0..MaxCommits |-> g[d]]
<1>5. \A d \in 0..MaxCommits : LogAt(cs, h, d) = LogAt(cs, g, d)
  <2> SUFFICES ASSUME NEW d \in 0..MaxCommits PROVE LogAt(cs, h, d) = LogAt(cs, g, d)
    OBVIOUS
  <2>1. d \in Nat /\ \A e \in 0..d - 1 : h[e] = g[e]
    OBVIOUS
  <2> HIDE DEF h
  <2> QED
    BY <2>1, ALogAt
<1>6. h = [d \in 0..MaxCommits |-> LogAt(cs, h, d)]
  BY <1>4, <1>5
<1> HIDE DEF h
<1>7. Log(cs) = [d \in 0..MaxCommits |-> LogAt(cs, Log(cs), d)]
  BY <1>6 DEF Log
<1> QED
  BY <1>7

\* A log depends on no later commit ...
LEMMA LogsAgree ==
    ASSUME NEW cs, Chained(cs), NEW ds, Chained(ds), NEW n \in Nat, n <= Len(cs), n <= Len(ds),
           \A c \in 1..n : cs[c] = ds[c]
    PROVE  \A c \in 0..n : Log(cs)[c] = Log(ds)[c]
<1> USE CheckpointsAssumption
<1>1. n <= MaxCommits /\ Len(cs) \in Nat /\ Len(ds) \in Nat
  BY DEF Chained
<1> DEFINE S == {k \in Nat : \A c \in 0..k : c <= n => Log(cs)[c] = Log(ds)[c]}
<1>2. 0 \in S
  <2>1. Log(cs)[0] = Log(ds)[0]
    BY <1>1, LogUnfolds DEF LogAt
  <2> QED
    BY <2>1
<1>3. ASSUME NEW k \in Nat, k \in S PROVE k + 1 \in S
  <2>1. ASSUME k + 1 <= n PROVE Log(cs)[k + 1] = Log(ds)[k + 1]
    <3>1. k + 1 \in 0..MaxCommits /\ k + 1 \in 1..n /\ \A d \in 0..(k + 1) - 1 : Log(cs)[d] = Log(ds)[d]
      BY <1>1, <1>3, <2>1
    <3>2. LogAt(cs, Log(cs), k + 1) = LogAt(cs, Log(ds), k + 1)
      BY <3>1, ALogAt
    <3>3. LogAt(cs, Log(ds), k + 1) = LogAt(ds, Log(ds), k + 1)
      BY <1>1, <3>1 DEF LogAt
    <3> QED
      BY <3>1, <3>2, <3>3, LogUnfolds
  <2> QED
    BY <1>3, <2>1
<1>4. n \in S
  BY <1>2, <1>3, Hunks!Steps
<1> QED
  BY <1>4

\* ... names commits that were made ...
LEMMA LogNames ==
    ASSUME NEW cs, Chained(cs)
    PROVE  \A c \in 0..Len(cs) : Log(cs)[c] \in Seq(1..Len(cs))
<1> USE CheckpointsAssumption
<1>1. Len(cs) \in 0..MaxCommits
  BY DEF Chained
<1>2. \A d \in 1..Len(cs) : cs[d].parent \in 0..d - 1
  <2> SUFFICES ASSUME NEW d \in 1..Len(cs) PROVE cs[d].parent \in 0..d - 1
    OBVIOUS
  <2>1. cs[d] \in Commits
    BY DEF Chained
  <2> QED
    BY <2>1 DEF Chained, Commits
<1>3. ASSUME NEW d \in 1..Len(cs) PROVE Log(cs)[d] = Append(Log(cs)[cs[d].parent], d)
  <2>1. d \in 0..MaxCommits /\ ~(d = 0 \/ d > Len(cs))
    BY <1>1
  <2>2. Log(cs)[d] = LogAt(cs, Log(cs), d)
    BY <2>1, LogUnfolds
  <2> QED
    BY <2>1, <2>2 DEF LogAt
<1> DEFINE T == 1..Len(cs)
           S == {k \in Nat : \A d \in 0..k : d <= Len(cs) => Log(cs)[d] \in Seq(T)}
<1>4. 0 \in S
  <2>1. Log(cs)[0] = <<>> /\ <<>> \in Seq(T)
    <3>1. Log(cs)[0] = LogAt(cs, Log(cs), 0)
      BY <1>1, LogUnfolds
    <3> QED
      BY <3>1 DEF LogAt
  <2>2. \A d \in 0..0 : d = 0
    OBVIOUS
  <2> HIDE DEF T
  <2> QED
    BY <2>1, <2>2
<1>5. ASSUME NEW k \in Nat, k \in S PROVE k + 1 \in S
  <2>1. ASSUME k + 1 <= Len(cs) PROVE Log(cs)[k + 1] \in Seq(T)
    <3>1. k + 1 \in T
      BY <1>1, <2>1
    <3>2. cs[k + 1].parent \in 0..k
      BY <1>2, <3>1
    <3>3. PICK log, d : d = cs[k + 1].parent /\ log = Log(cs)[d]
      OBVIOUS
    <3>4. log \in Seq(T)
      <4>1. d \in 0..k /\ d <= Len(cs)
        BY <1>1, <2>1, <3>2, <3>3
      <4> HIDE DEF T
      <4> QED
        BY <1>5, <3>3, <4>1
    <3>5. Log(cs)[k + 1] = Append(log, k + 1)
      BY <1>3, <3>1, <3>3
    <3> HIDE DEF T
    <3> QED
      BY <3>1, <3>4, <3>5
  <2> HIDE DEF T
  <2>2. \A d \in 0..k + 1 : d \in 0..k \/ d = k + 1
    OBVIOUS
  <2> QED
    BY <1>5, <2>1, <2>2
<1>6. Nat \subseteq S
  <2> HIDE DEF S
  <2> QED
    BY <1>4, <1>5, Hunks!Steps
<1>7. \A d \in 0..Len(cs) : Log(cs)[d] \in Seq(T)
  <2> HIDE DEF T
  <2>1. Len(cs) \in S
    BY <1>1, <1>6
  <2> QED
    BY <1>1, <2>1
<1> QED
  BY <1>7

\* ... and ends with the commit it leads to.
LEMMA LogEnds ==
    ASSUME NEW cs, Chained(cs), NEW c \in 1..Len(cs)
    PROVE  /\ cs[c].parent \in 0..c - 1 /\ Log(cs)[cs[c].parent] \in Seq(1..Len(cs))
           /\ Log(cs)[c] = Append(Log(cs)[cs[c].parent], c)
<1> USE CheckpointsAssumption
<1>1. Len(cs) \in 0..MaxCommits /\ cs[c] \in Commits
  BY DEF Chained
<1>2. cs[c].parent \in 0..c - 1
  BY <1>1 DEF Chained, Commits
<1>3. c \in 0..MaxCommits /\ ~(c = 0 \/ c > Len(cs))
  BY <1>1
<1>4. Log(cs)[c] = LogAt(cs, Log(cs), c)
  BY <1>3, LogUnfolds
<1>5. cs[c].parent \in 0..Len(cs)
  BY <1>1, <1>2
<1> QED
  BY <1>2, <1>3, <1>4, <1>5, LogNames DEF LogAt

LEMMA CommitsAreChained == ASSUME CheckpointsTypes PROVE Chained(commits)
BY DEF CheckpointsTypes, Chained

LEMMA CheckpointsInitially == CheckpointsInit => CheckpointsInv
<1> SUFFICES ASSUME CheckpointsInit PROVE CheckpointsInv
  OBVIOUS
<1> USE CheckpointsAssumption DEF CheckpointsInit
<1>1. staged \in [Docs -> Drafts \cup {NoDoc, ToAdd}]
  BY DEF NoTree
<1>2. commits \in Seq(Commits) /\ Len(commits) = 0 /\ kept \in Seq(Snapshots) /\ Len(kept) = 0
  OBVIOUS
<1>3. looping \in Loops(0) /\ viewing \in [Viewers -> GitCalls(0)]
  BY DEF Loops, GitCalls
<1>4. CheckpointsTypes
  <2>1. looping \in Loops(Len(commits)) /\ viewing \in [Viewers -> GitCalls(Len(commits))]
    BY <1>2, <1>3, Zenon
  <2>2. Len(commits) <= MaxCommits /\ head \in 0..Len(commits) /\ \A c \in 1..Len(commits) : commits[c].parent < c
    BY <1>2
  <2>3. bench \in Snapshots /\ raced \in BOOLEAN /\ looping.at = "off"
    BY DEF LoopOff
  <2> HIDE DEF CheckpointsInit
  <2> QED
    BY <1>1, <1>2, <2>1, <2>2, <2>3 DEF CheckpointsTypes
<1>5. ListCommits = <<>>
  <2>1. Chained(commits)
    BY <1>4, CommitsAreChained
  <2>2. Log(commits)[0] = LogAt(commits, Log(commits), 0)
    BY <2>1, LogUnfolds
  <2> QED
    BY <2>2, LogIsTheLog DEF ListCommits, LogAt
<1>6. LogIsKept
  BY <1>2, <1>5 DEF LogIsKept
<1>7. looping.at = "off" /\ \A v \in Viewers : viewing[v].at = "idle"
  BY DEF LoopOff, NotViewing
<1> QED
  BY <1>4, <1>6, <1>7 DEF CheckpointsInv, WorksAreMeant

LEMMA LogStays ==
    ASSUME UNCHANGED <<commits, head, kept>>
    PROVE  LogIsKept' <=> LogIsKept
<1>1. LogTo' = Log(commits')
  BY DEF LogTo, Log, LogAt
<1>2. ListCommits' = ListCommits
  BY <1>1, LogIsTheLog DEF ListCommits
<1> QED
  BY <1>2 DEF LogIsKept

\* What a client's call may do beside the loop.
LEMMA CallKeeps ==
    ASSUME CheckpointsInv, NEW v \in Viewers, NEW gitCall \in GitCalls(Len(commits)), GoesOn(v, gitCall),
           UNCHANGED <<commits, looping, kept>>, bench' \in Snapshots,
           staged' \in [Docs -> Drafts \cup {NoDoc, ToAdd}], head' \in 0..Len(commits),
           raced' \in BOOLEAN, raced => raced',
           ~raced' /\ gitCall.at = "picked" => commits[gitCall.to].tree = gitCall.meant,
           ~raced' => head' = head /\ (looping.at = "staged" => TreeOf(staged') = TreeOf(staged))
    PROVE  CheckpointsInv'
<1>1. viewing' = [viewing EXCEPT ![v] = gitCall] /\ viewing \in [Viewers -> GitCalls(Len(commits))]
  BY DEF GoesOn, CheckpointsInv, CheckpointsTypes
<1>2. CheckpointsTypes'
  BY <1>1 DEF CheckpointsInv, CheckpointsTypes
<1>3. ASSUME ~raced' PROVE /\ LogIsKept'
                           /\ looping.at = "staged" => TreeOf(staged') = looping.seen
                           /\ looping.at = "rolling" => head' # 0 /\ looping.to = commits[head'].parent
                           /\ \A u \in Viewers : viewing'[u].at = "picked" => commits[viewing'[u].to].tree = viewing'[u].meant
  <2>1. ~raced /\ head' = head
    BY <1>3 DEF CheckpointsInv, CheckpointsTypes
  <2>2. LogIsKept'
    BY <2>1, LogStays DEF CheckpointsInv, WorksAreMeant
  <2>3. \A u \in Viewers : viewing'[u] = IF u = v THEN gitCall ELSE viewing[u]
    BY <1>1
  <2> QED
    BY <1>3, <2>1, <2>2, <2>3 DEF CheckpointsInv, WorksAreMeant
<1> QED
  BY <1>2, <1>3 DEF CheckpointsInv, WorksAreMeant, TreeOf

\* What the loop, the user and the tools may do between two commits.
LEMMA LoopKeeps ==
    ASSUME CheckpointsInv, UNCHANGED <<commits, head, viewing, kept, raced>>, bench' \in Snapshots,
           staged' \in [Docs -> Drafts \cup {NoDoc, ToAdd}], looping' \in Loops(Len(commits)),
           looping'.at = "staged" => Len(commits) < MaxCommits,
           ~raced /\ looping'.at = "staged" => TreeOf(staged') = looping'.seen,
           ~raced /\ looping'.at = "rolling" => head # 0 /\ looping'.to = commits[head].parent
    PROVE  CheckpointsInv'
<1>1. CheckpointsTypes'
  BY DEF CheckpointsInv, CheckpointsTypes
<1>2. ~raced => LogIsKept'
  BY LogStays DEF CheckpointsInv, WorksAreMeant
<1> QED
  BY <1>1, <1>2 DEF CheckpointsInv, WorksAreMeant, TreeOf

LEMMA CommitStagedKeeps == ASSUME CheckpointsInv, CommitStaged PROVE CheckpointsInv'
<1>1. PICK n, new : n = Len(commits) /\ new = [tree |-> TreeOf(staged), parent |-> head]
  OBVIOUS
<1>2. commits' = Append(commits, new) /\ head' = n + 1 /\ kept' = Append(kept, looping.seen) /\ looping' = LoopTop
      /\ UNCHANGED <<bench, staged, viewing, raced>> /\ looping.at = "staged"
  <2>1. commits' = Append(commits, new) /\ head' = Len(commits')
    BY <1>1 DEF CommitStaged
  <2>2. Len(Append(commits, new)) = n + 1
    BY <1>1 DEF CheckpointsInv, CheckpointsTypes
  <2> QED
    BY <2>1, <2>2 DEF CommitStaged
<1>3. n \in Nat /\ n < MaxCommits /\ commits \in Seq(Commits) /\ head \in 0..n /\ looping \in Loops(n) /\ kept \in Seq(Snapshots)
      /\ (\A c \in 1..n : commits[c].parent < c) /\ viewing \in [Viewers -> GitCalls(n)]
  BY <1>1, <1>2 DEF CheckpointsInv, CheckpointsTypes
<1>4. looping.seen \in Snapshots
  BY <1>2, <1>3 DEF Loops, LoopOff, LoopTop
<1>5. new \in Commits /\ new.parent = head /\ new.tree = TreeOf(staged)
  <2>1. TreeOf(staged) \in Snapshots
    BY DEF TreeOf, Snapshots, CheckpointsInv, CheckpointsTypes
  <2> QED
    BY <1>1, <1>3, <2>1 DEF Commits
<1>6. commits' \in Seq(Commits) /\ Len(commits') = n + 1 /\ commits'[n + 1] = new /\ \A c \in 1..n : commits'[c] = commits[c]
  BY <1>1, <1>2, <1>3, <1>5
<1>7. \A c \in 1..n + 1 : commits'[c].parent < c
  <2>1. \A c \in 1..n + 1 : c \in 1..n \/ c = n + 1
    BY <1>3
  <2> QED
    BY <1>3, <1>5, <1>6, <2>1
<1>8. looping' \in Loops(n + 1) /\ viewing' \in [Viewers -> GitCalls(n + 1)] /\ looping'.at = "top"
  <2>1. GitCalls(n) \subseteq GitCalls(n + 1)
    <3>1. 1..n \subseteq 1..n + 1
      BY <1>3
    <3> QED
      BY <3>1 DEF GitCalls
  <2> QED
    BY <1>2, <1>3, <2>1 DEF Loops, LoopTop
<1>9. kept' \in Seq(Snapshots) /\ Len(kept') = Len(kept) + 1 /\ kept'[Len(kept) + 1] = looping.seen
      /\ \A i \in 1..Len(kept) : kept'[i] = kept[i]
  BY <1>2, <1>3, <1>4
<1>10. CheckpointsTypes'
  <2>1. head' \in 0..Len(commits') /\ Len(commits') <= MaxCommits
    BY <1>2, <1>3, <1>6, CheckpointsAssumption
  <2>2. bench' \in Snapshots /\ staged' \in [Docs -> Drafts \cup {NoDoc, ToAdd}] /\ raced' \in BOOLEAN
    BY <1>2 DEF CheckpointsInv, CheckpointsTypes
  <2> QED
    BY <1>6, <1>7, <1>8, <1>9, <2>1, <2>2 DEF CheckpointsTypes
<1>11. Chained(commits) /\ Chained(commits')
  <2>1. Chained(commits')
    BY <1>10 DEF CheckpointsTypes, Chained
  <2> QED
    BY <2>1, CommitsAreChained DEF CheckpointsInv
<1>12. ListCommits' = Append(ListCommits, n + 1) /\ ListCommits \in Seq(1..n)
  <2>1. LogTo' = Log(commits')
    BY DEF LogTo, Log, LogAt
  <2>2. ListCommits = Log(commits)[head] /\ ListCommits' = Log(commits')[n + 1]
    BY <1>2, <2>1, LogIsTheLog DEF ListCommits
  <2>3. n + 1 \in 1..Len(commits')
    BY <1>3, <1>6
  <2>4. Log(commits')[n + 1] = Append(Log(commits')[head], n + 1)
    BY <1>5, <1>6, <1>11, <2>3, LogEnds
  <2>5. \A c \in 0..n : Log(commits)[c] = Log(commits')[c]
    <3>1. n <= Len(commits) /\ n <= Len(commits') /\ \A c \in 1..n : commits[c] = commits'[c]
      BY <1>1, <1>3, <1>6
    <3> HIDE <1>2, <1>6
    <3> QED
      BY <1>3, <1>11, <3>1, LogsAgree
  <2> QED
    BY <1>1, <1>3, <1>11, <2>2, <2>4, <2>5, LogNames
<1>13. ASSUME ~raced PROVE LogIsKept'
  <2>1. LogIsKept /\ TreeOf(staged) = looping.seen
    BY <1>2, <1>13 DEF CheckpointsInv, WorksAreMeant
  <2>2. PICK log : log = ListCommits
    OBVIOUS
  <2>3. log \in Seq(1..n) /\ Len(log) = Len(kept) /\ \A i \in 1..Len(kept) : commits[log[i]].tree = kept[i]
    BY <1>12, <2>1, <2>2 DEF LogIsKept
  <2>4. Len(Append(log, n + 1)) = Len(kept')
    BY <1>9, <2>3
  <2>5. ASSUME NEW i \in 1..Len(kept') PROVE commits'[Append(log, n + 1)[i]].tree = kept'[i]
    <3>1. CASE i = Len(kept) + 1
      <4>1. Append(log, n + 1)[i] = n + 1
        BY <2>3, <3>1
      <4> QED
        BY <1>5, <1>6, <1>9, <2>1, <3>1, <4>1
    <3>2. CASE i \in 1..Len(kept)
      <4>1. Append(log, n + 1)[i] = log[i] /\ log[i] \in 1..n
        <5>1. Len(log) \in Nat /\ i \in 1..Len(log)
          BY <2>3, <3>2
        <5> QED
          BY <1>3, <2>3, <5>1
      <4> QED
        BY <1>6, <1>9, <2>3, <3>2, <4>1
    <3>3. Len(kept) \in Nat /\ i \in 1..Len(kept) + 1
      BY <1>3, <1>9
    <3>4. i = Len(kept) + 1 \/ i \in 1..Len(kept)
      BY <3>3
    <3> QED
      BY <3>1, <3>2, <3>4
  <2> QED
    BY <1>12, <2>2, <2>4, <2>5 DEF LogIsKept
<1>14. \A v \in Viewers : viewing[v].at = "picked" => viewing[v].to \in 1..n
  BY <1>3 DEF GitCalls, NotViewing
<1>15. WorksAreMeant'
  BY <1>2, <1>6, <1>8, <1>13, <1>14 DEF CheckpointsInv, WorksAreMeant
<1> QED
  BY <1>10, <1>15 DEF CheckpointsInv

\* The newest commit and the one it was made after are the last two kept.
LEMMA LastTwo ==
    ASSUME CheckpointsTypes, LogIsKept, head # 0, NEW to, to = commits[head].parent
    PROVE  /\ to \in 0..Len(commits) /\ Log(commits)[to] \in Seq(1..Len(commits))
           /\ Log(commits)[head] = Append(Log(commits)[to], head) /\ Len(kept) = Len(Log(commits)[to]) + 1
           /\ to # 0 => Len(kept) >= 2 /\ ListCommits[Len(kept) - 1] = to /\ commits[to].tree = kept[Len(kept) - 1]
<1>1. Chained(commits) /\ Len(commits) \in Nat /\ head \in 1..Len(commits)
  BY CommitsAreChained DEF CheckpointsTypes
<1>2. to \in 0..head - 1 /\ Log(commits)[to] \in Seq(1..Len(commits)) /\ Log(commits)[head] = Append(Log(commits)[to], head)
  BY <1>1, LogEnds
<1>3. ListCommits = Append(Log(commits)[to], head) /\ to \in 0..Len(commits)
  BY <1>1, <1>2, LogIsTheLog DEF ListCommits
<1>4. PICK log : log = Log(commits)[to]
  OBVIOUS
<1>5. log \in Seq(1..Len(commits)) /\ ListCommits = Append(log, head)
  BY <1>2, <1>3, <1>4
<1>6. Len(kept) = Len(log) + 1
  BY <1>1, <1>5 DEF LogIsKept
<1>7. ASSUME to # 0
      PROVE  Len(kept) >= 2 /\ ListCommits[Len(kept) - 1] = to /\ commits[to].tree = kept[Len(kept) - 1]
  <2>1. to \in 1..Len(commits)
    BY <1>3, <1>7
  <2>2. PICK early : early = Log(commits)[commits[to].parent]
    OBVIOUS
  <2>3. early \in Seq(1..Len(commits)) /\ log = Append(early, to)
    BY <1>1, <1>4, <2>1, <2>2, LogEnds
  <2>4. Len(log) = Len(early) + 1 /\ log[Len(log)] = to /\ Len(log) \in Nat /\ Len(log) >= 1
    BY <2>1, <2>3
  <2>5. Len(kept) - 1 = Len(log) /\ Len(kept) >= 2 /\ Len(log) \in 1..Len(log)
    BY <1>6, <2>4
  <2>6. ListCommits[Len(log)] = log[Len(log)]
    BY <1>1, <1>5, <2>5
  <2>7. Len(kept) - 1 \in 1..Len(kept)
    BY <2>4, <2>5
  <2> QED
    BY <2>4, <2>5, <2>6, <2>7 DEF LogIsKept
<1> QED
  BY <1>2, <1>3, <1>4, <1>6, <1>7

LEMMA ResetSectionKeeps == ASSUME CheckpointsInv, ResetSection PROVE CheckpointsInv'
<1>1. looping.at = "rolling" /\ head' = looping.to /\ kept' = SubSeq(kept, 1, Len(kept) - 1) /\ looping' = LoopTop
      /\ UNCHANGED <<commits, viewing, raced>> /\ staged' = commits[looping.to].tree
      /\ bench' = Hard(bench, staged, commits[looping.to].tree)
  BY DEF ResetSection
<1>2. PICK n, to : n = Len(commits) /\ to = looping.to
  OBVIOUS
<1>3. n \in Nat /\ commits \in Seq(Commits) /\ looping \in Loops(n) /\ kept \in Seq(Snapshots)
  BY <1>2 DEF CheckpointsInv, CheckpointsTypes
<1>4. to \in 1..n /\ commits[to] \in Commits
  <2>1. to \in 1..n
    BY <1>1, <1>2, <1>3 DEF Loops, LoopOff, LoopTop
  <2> QED
    BY <1>2, <1>3, <2>1
<1>5. commits[to].tree \in Snapshots
  BY <1>4 DEF Commits
<1>6. bench' \in Snapshots /\ staged' \in [Docs -> Drafts \cup {NoDoc, ToAdd}]
  BY <1>1, <1>2, <1>5 DEF Hard, Snapshots, CheckpointsInv, CheckpointsTypes
<1>7. kept' \in Seq(Snapshots) /\ (Len(kept) > 0 => Len(kept') = Len(kept) - 1 /\ \A i \in 1..Len(kept) - 1 : kept'[i] = kept[i])
  <2>1. CASE Len(kept) > 0
    <3>1. \A i \in 1..Len(kept) - 1 : kept[i] \in Snapshots
      BY <1>3
    <3>2. PICK m : m = Len(kept) - 1
      OBVIOUS
    <3>3. m \in Nat /\ m <= Len(kept) /\ \A i \in 1..m : kept[i] \in Snapshots
      BY <1>3, <2>1, <3>1, <3>2
    <3>4. SubSeq(kept, 1, m) \in Seq(Snapshots) /\ Len(SubSeq(kept, 1, m)) = m
          /\ \A i \in 1..m : SubSeq(kept, 1, m)[i] = kept[i]
      BY <1>3, <3>3
    <3> QED
      BY <1>1, <3>2, <3>4
  <2>2. CASE ~(Len(kept) > 0)
    <3>1. \A i \in 1..Len(kept) - 1 : kept[i] \in Snapshots
      BY <1>3, <2>2
    <3> QED
      BY <1>1, <1>3, <2>2, <3>1
  <2> QED
    BY <2>1, <2>2
<1>8. CheckpointsTypes'
  <2>1. looping' \in Loops(n) /\ looping'.at = "top"
    BY <1>1 DEF Loops, LoopTop
  <2> QED
    BY <1>1, <1>2, <1>4, <1>6, <1>7, <2>1 DEF CheckpointsInv, CheckpointsTypes
<1>9. ASSUME ~raced PROVE LogIsKept'
  <2>1. LogIsKept /\ head # 0 /\ to = commits[head].parent /\ to # 0
    BY <1>1, <1>2, <1>4, <1>9 DEF CheckpointsInv, WorksAreMeant
  <2>2. PICK log : log = Log(commits)[to]
    OBVIOUS
  <2>3. /\ log \in Seq(1..n) /\ Log(commits)[head] = Append(log, head) /\ Len(kept) = Len(log) + 1 /\ Len(kept) >= 2
    BY <1>2, <2>1, <2>2, LastTwo DEF CheckpointsInv
  <2>4. LogTo' = Log(commits')
    BY DEF LogTo, Log, LogAt
  <2>5. ListCommits' = log /\ ListCommits = Append(log, head)
    BY <1>1, <1>2, <2>2, <2>3, <2>4, LogIsTheLog DEF ListCommits
  <2>6. head \in 1..n
    BY <1>2, <2>1 DEF CheckpointsInv, CheckpointsTypes
  <2>7. Len(log) \in Nat /\ Len(kept') = Len(log)
    BY <1>7, <2>3
  <2>8. ASSUME NEW i \in 1..Len(log) PROVE commits[log[i]].tree = kept'[i]
    <3>1. Append(log, head)[i] = log[i]
      BY <2>3, <2>6
    <3>2. i \in 1..Len(kept) /\ i \in 1..Len(kept) - 1
      BY <2>3, <2>7
    <3> QED
      BY <1>7, <2>1, <2>3, <2>5, <3>1, <3>2 DEF LogIsKept
  <2> QED
    BY <1>1, <2>5, <2>7, <2>8 DEF LogIsKept
<1>10. WorksAreMeant'
  BY <1>1, <1>9 DEF CheckpointsInv, WorksAreMeant, LoopTop
<1> QED
  BY <1>8, <1>10 DEF CheckpointsInv

LEMMA LoopDoes ==
    ASSUME CheckpointsInv,
           \/ EnterLoop \/ LeaveLoop \/ StageAll \/ LoopGitFails \/ PickSection
           \/ \E d \in Docs, content \in Drafts \cup {NoDoc} : WriteDoc(d, content)
    PROVE  CheckpointsInv'
<1> USE DEF CheckpointsInv
<1>1. bench \in Snapshots /\ staged \in [Docs -> Drafts \cup {NoDoc, ToAdd}] /\ Len(commits) \in Nat
  BY DEF CheckpointsTypes
<1>2. ASSUME EnterLoop \/ LeaveLoop \/ LoopGitFails PROVE CheckpointsInv'
  <2>1. looping' \in Loops(Len(commits)) /\ looping'.at \notin {"staged", "rolling"}
        /\ UNCHANGED <<bench, staged, commits, head, viewing, kept, raced>>
    BY <1>2 DEF EnterLoop, LeaveLoop, LoopGitFails, Loops, LoopOff, LoopTop
  <2> QED
    BY <1>1, <2>1, LoopKeeps
<1>3. ASSUME StageAll PROVE CheckpointsInv'
  <2>1. looping' = [at |-> "staged", seen |-> bench] /\ staged' = bench /\ Len(commits) < MaxCommits
        /\ UNCHANGED <<bench, commits, head, viewing, kept, raced>>
    BY <1>3 DEF StageAll
  <2>2. looping' \in Loops(Len(commits)) /\ looping'.at = "staged" /\ looping'.seen = bench
    BY <1>1, <2>1 DEF Loops
  <2>3. staged' \in [Docs -> Drafts \cup {NoDoc, ToAdd}] /\ TreeOf(staged') = bench
    BY <1>1, <2>1, CheckpointsAssumption DEF Snapshots, TreeOf
  <2> QED
    BY <1>1, <2>1, <2>2, <2>3, LoopKeeps
<1>4. ASSUME PickSection PROVE CheckpointsInv'
  <2>1. Len(ListCommits) >= 2 /\ looping' = [at |-> "rolling", to |-> ListCommits[Len(ListCommits) - 1]]
        /\ UNCHANGED <<bench, staged, commits, head, viewing, kept, raced>>
    BY <1>4 DEF PickSection
  <2>2. Chained(commits) /\ head \in 0..Len(commits)
    BY CommitsAreChained DEF CheckpointsTypes
  <2>3. PICK log : log = ListCommits
    OBVIOUS
  <2>4. log = Log(commits)[head] /\ log \in Seq(1..Len(commits))
    BY <2>2, <2>3, LogIsTheLog, LogNames DEF ListCommits
  <2>5. log[Len(log) - 1] \in 1..Len(commits)
    BY <2>1, <2>3, <2>4
  <2>6. looping' \in Loops(Len(commits)) /\ looping'.at = "rolling" /\ looping'.to = log[Len(log) - 1]
    BY <2>1, <2>3, <2>5 DEF Loops
  <2>7. head # 0
    <3>1. Log(commits)[0] = LogAt(commits, Log(commits), 0)
      BY <2>2, LogUnfolds, CheckpointsAssumption
    <3>2. Log(commits)[0] = <<>>
      BY <3>1 DEF LogAt
    <3> QED
      BY <2>1, <2>3, <2>4, <3>2
  <2>8. ASSUME ~raced PROVE log[Len(log) - 1] = commits[head].parent
    <3>1. PICK to : to = commits[head].parent
      OBVIOUS
    <3>2. LogIsKept
      BY <2>8 DEF WorksAreMeant
    <3>3. to \in 0..Len(commits) /\ log = Append(Log(commits)[to], head) /\ Len(log) = Len(kept)
          /\ Len(kept) = Len(Log(commits)[to]) + 1
          /\ (to # 0 => log[Len(kept) - 1] = to)
      BY <2>3, <2>4, <2>7, <3>1, <3>2, LastTwo DEF LogIsKept
    <3>4. to # 0
      <4>1. Log(commits)[0] = LogAt(commits, Log(commits), 0)
        BY <2>2, LogUnfolds, CheckpointsAssumption
      <4>2. Log(commits)[0] = <<>> /\ Len(<<>>) = 0
        BY <4>1 DEF LogAt
      <4> QED
        BY <2>1, <2>3, <3>3, <4>2
    <3> QED
      BY <3>1, <3>3, <3>4
  <2> QED
    BY <1>1, <2>1, <2>6, <2>7, <2>8, LoopKeeps
<1>5. ASSUME NEW d \in Docs, NEW content \in Drafts \cup {NoDoc}, WriteDoc(d, content) PROVE CheckpointsInv'
  <2>1. bench' = [bench EXCEPT ![d] = content] /\ UNCHANGED <<staged, commits, head, looping, viewing, kept, raced>>
    BY <1>5 DEF WriteDoc
  <2>2. bench' \in Snapshots
    BY <1>1, <2>1 DEF Snapshots
  <2> QED
    BY <1>1, <2>1, <2>2, LoopKeeps DEF CheckpointsTypes, WorksAreMeant
<1> QED
  BY <1>2, <1>3, <1>4, <1>5

LEMMA AViewing ==
    ASSUME CheckpointsTypes, NEW v \in Viewers
    PROVE  /\ viewing[v] \in GitCalls(Len(commits)) /\ NotViewing \in GitCalls(Len(commits))
           /\ [at |-> "asked"] \in GitCalls(Len(commits))
           /\ viewing[v].at \in {"picked", "listed", "marked"} =>
                 viewing[v].to \in 1..Len(commits) /\ commits[viewing[v].to] \in Commits
           /\ viewing[v].at \in {"listed", "marked"} => viewing[v] = [at |-> viewing[v].at, to |-> viewing[v].to]
<1>1. viewing[v] \in GitCalls(Len(commits))
  BY DEF CheckpointsTypes
<1>2. viewing[v].at \in {"picked", "listed", "marked"} => viewing[v].to \in 1..Len(commits)
  BY <1>1 DEF GitCalls, NotViewing
<1>3. viewing[v].at \in {"picked", "listed", "marked"} => commits[viewing[v].to] \in Commits
  BY <1>2 DEF CheckpointsTypes
<1> QED
  BY <1>1, <1>2, <1>3 DEF GitCalls, NotViewing

\* Steps count from the oldest or from the newest, and mean the same commit.
LEMMA ResolveStepKeeps ==
    ASSUME CheckpointsInv, NEW v \in Viewers, NEW k \in RestoreSteps, ResolveStep(v, k) PROVE CheckpointsInv'
<1> USE CheckpointsAssumption DEF CheckpointsInv
<1>1. PICK log, n, idx : log = ListCommits /\ n = Len(commits) /\ idx = Target(log, k)
  OBVIOUS
<1>2. PICK gitCall : gitCall = [at |-> "picked", to |-> log[Len(log) - idx], meant |-> Promised(k)]
  OBVIOUS
<1>3. idx \in 0..(Len(log) - 1) /\ GoesOn(v, gitCall) /\ UNCHANGED <<bench, staged, commits, head, looping, kept, raced>>
  BY <1>1, <1>2 DEF ResolveStep
<1>4. log \in Seq(1..n)
  BY <1>1, CommitsAreChained, LogIsTheLog, LogNames DEF ListCommits, CheckpointsTypes
<1>5. log[Len(log) - idx] \in 1..n /\ Len(log) - idx \in 1..Len(log) /\ k \in Int /\ k # 0 /\ Len(log) \in Nat
  <2>1. k \in Int /\ k # 0
    BY DEF RestoreSteps
  <2>2. Len(log) \in Nat
    BY <1>4
  <2>3. Len(log) - idx \in 1..Len(log)
    BY <1>3, <2>2
  <2>4. \A i \in 1..Len(log) : log[i] \in 1..n
    <3> DEFINE T == 1..n
    <3>1. log \in Seq(T)
      BY <1>4
    <3> HIDE DEF T
    <3>2. \A i \in 1..Len(log) : log[i] \in T
      BY <3>1
    <3> QED
      BY <3>2 DEF T
  <2> QED
    BY <2>1, <2>2, <2>3, <2>4
<1>6. Promised(k) \in Snapshots
  BY DEF Promised, Snapshots, NoTree, CheckpointsTypes
<1>7. gitCall \in GitCalls(n) /\ gitCall.at = "picked" /\ gitCall.to = log[Len(log) - idx] /\ gitCall.meant = Promised(k)
  BY <1>2, <1>5, <1>6 DEF GitCalls
<1>8. ASSUME ~raced PROVE commits[gitCall.to].tree = gitCall.meant
  <2>1. Len(log) = Len(kept) /\ \A i \in 1..Len(kept) : commits[log[i]].tree = kept[i]
    BY <1>1, <1>8 DEF WorksAreMeant, LogIsKept
  <2>2. PICK i : i = IF k > 0 THEN k ELSE Len(kept) + 1 + k
    OBVIOUS
  <2>3. i = Len(log) - idx
    BY <1>1, <1>5, <2>1, <2>2 DEF Target
  <2>4. i \in 1..Len(kept) /\ DOMAIN kept = 1..Len(kept)
    BY <1>5, <2>1, <2>3 DEF CheckpointsTypes
  <2>5. Promised(k) = kept[i]
    BY <2>2, <2>4 DEF Promised
  <2> QED
    BY <1>7, <2>1, <2>3, <2>4, <2>5
<1> QED
  BY <1>1, <1>3, <1>7, <1>8, CallKeeps DEF CheckpointsTypes

LEMMA RestoreKeeps ==
    ASSUME CheckpointsInv, NEW v \in Viewers, AskRestore(v) \/ CheckOut(v) \/ CallFails(v) \/ MarkFails(v)
    PROVE  CheckpointsInv'
<1> USE DEF CheckpointsInv
<1>1. bench \in Snapshots /\ staged \in [Docs -> Drafts \cup {NoDoc, ToAdd}] /\ head \in 0..Len(commits) /\ raced \in BOOLEAN
  BY DEF CheckpointsTypes
<1>2. ASSUME AskRestore(v) PROVE CheckpointsInv'
  <2>1. GoesOn(v, [at |-> "asked"]) /\ UNCHANGED <<bench, staged, commits, head, looping, kept, raced>>
    BY <1>2 DEF AskRestore
  <2> QED
    BY <1>1, <2>1, AViewing, CallKeeps
<1>3. ASSUME CallFails(v) PROVE CheckpointsInv'
  <2>1. GoesOn(v, NotViewing) /\ UNCHANGED <<bench, staged, commits, head, looping, kept, raced>>
    BY <1>3 DEF CallFails
  <2> QED
    BY <1>1, <2>1, AViewing, CallKeeps DEF NotViewing
<1>4. ASSUME MarkFails(v) PROVE CheckpointsInv'
  <2>1. PICK gitCall : gitCall = [viewing[v] EXCEPT !.at = "marked"]
    OBVIOUS
  <2>2. GoesOn(v, gitCall) /\ viewing[v].at = "listed" /\ UNCHANGED <<bench, staged, commits, head, looping, kept, raced>>
    BY <1>4, <2>1 DEF MarkFails, Viewing
  <2>3. PICK u : u = viewing[v]
    OBVIOUS
  <2>4. u = [at |-> "listed", to |-> u.to] /\ u.to \in 1..Len(commits)
    BY <2>2, <2>3, AViewing
  <2>5. gitCall = [at |-> "marked", to |-> u.to]
    BY <2>1, <2>3, <2>4
  <2>6. gitCall \in GitCalls(Len(commits)) /\ gitCall.at = "marked"
    BY <2>4, <2>5 DEF GitCalls
  <2> QED
    BY <1>1, <2>2, <2>6, CallKeeps
<1>5. ASSUME CheckOut(v) PROVE CheckpointsInv'
  <2>1. PICK target : target = commits[viewing[v].to].tree
    OBVIOUS
  <2>2. GoesOn(v, NotViewing) /\ UNCHANGED <<commits, head, looping, kept>> /\ viewing[v].at = "picked"
        /\ bench' = Overlaid(bench, target) /\ staged' = Overlaid(staged, target)
        /\ raced' = (raced \/ looping.at = "staged")
    BY <1>5, <2>1 DEF CheckOut, Viewing
  <2>3. target \in Snapshots
    BY <2>1, <2>2, AViewing DEF Commits
  <2>4. bench' \in Snapshots /\ staged' \in [Docs -> Drafts \cup {NoDoc, ToAdd}]
    BY <1>1, <2>2, <2>3 DEF Overlaid, Snapshots
  <2>5. NotViewing \in GitCalls(Len(commits)) /\ NotViewing.at = "idle"
    BY AViewing DEF NotViewing
  <2>6. raced' \in BOOLEAN /\ (raced => raced') /\ (~raced' => looping.at # "staged")
    BY <2>2
  <2> HIDE <1>5
  <2> QED
    BY <1>1, <2>2, <2>4, <2>5, <2>6, CallKeeps
<1> QED
  BY <1>2, <1>3, <1>4, <1>5

LEMMA DiffKeeps ==
    ASSUME CheckpointsInv, NEW v \in Viewers, ListForDiff(v) \/ MarkNew(v) \/ ResetAfterDiff(v)
    PROVE  CheckpointsInv'
<1> USE DEF CheckpointsInv
<1>1. bench \in Snapshots /\ staged \in [Docs -> Drafts \cup {NoDoc, ToAdd}] /\ head \in 0..Len(commits) /\ raced \in BOOLEAN
  BY DEF CheckpointsTypes
<1>2. ASSUME ListForDiff(v) PROVE CheckpointsInv'
  <2>1. PICK gitCall : gitCall = [at |-> "listed", to |-> head]
    OBVIOUS
  <2>2. GoesOn(v, gitCall) /\ ListCommits # <<>> /\ UNCHANGED <<bench, staged, commits, head, looping, kept, raced>>
    BY <1>2, <2>1 DEF ListForDiff
  <2>3. head # 0
    <3>1. Log(commits)[0] = LogAt(commits, Log(commits), 0)
      BY CommitsAreChained, LogUnfolds, CheckpointsAssumption
    <3> QED
      BY <2>2, <3>1, LogIsTheLog DEF ListCommits, LogAt
  <2>4. head \in 1..Len(commits)
    BY <1>1, <2>3 DEF CheckpointsTypes
  <2>5. gitCall \in GitCalls(Len(commits)) /\ gitCall.at = "listed"
    BY <2>1, <2>4 DEF GitCalls
  <2> QED
    BY <1>1, <2>2, <2>5, CallKeeps
<1>3. ASSUME MarkNew(v) PROVE CheckpointsInv'
  <2>1. PICK gitCall : gitCall = [viewing[v] EXCEPT !.at = "marked"]
    OBVIOUS
  <2>2. GoesOn(v, gitCall) /\ viewing[v].at = "listed" /\ staged' = Marked(bench, staged)
        /\ UNCHANGED <<bench, commits, head, looping, kept, raced>>
    BY <1>3, <2>1 DEF MarkNew, Viewing
  <2>3. PICK u : u = viewing[v]
    OBVIOUS
  <2>4. u = [at |-> "listed", to |-> u.to] /\ u.to \in 1..Len(commits)
    BY <2>2, <2>3, AViewing
  <2>5. gitCall = [at |-> "marked", to |-> u.to]
    BY <2>1, <2>3, <2>4
  <2>6. gitCall \in GitCalls(Len(commits)) /\ gitCall.at = "marked"
    BY <2>4, <2>5 DEF GitCalls
  <2>7. staged' \in [Docs -> Drafts \cup {NoDoc, ToAdd}]
    BY <1>1, <2>2 DEF Marked
  <2>8. TreeOf(staged') = TreeOf(staged)
    <3>1. \A d \in Docs : staged'[d] = staged[d] \/ (staged'[d] = ToAdd /\ staged[d] = NoDoc)
      BY <1>1, <2>2 DEF Marked
    <3> QED
      BY <1>1, <2>7, <3>1, CheckpointsAssumption DEF TreeOf
  <2> QED
    BY <1>1, <2>2, <2>6, <2>7, <2>8, CallKeeps
<1>4. ASSUME ResetAfterDiff(v) PROVE CheckpointsInv'
  <2>1. PICK to : to = viewing[v].to
    OBVIOUS
  <2>2. GoesOn(v, NotViewing) /\ UNCHANGED <<bench, commits, looping, kept>> /\ viewing[v].at = "marked"
        /\ staged' = commits[to].tree /\ head' = to /\ raced' = (raced \/ looping.at = "staged" \/ head # to)
    BY <1>4, <2>1 DEF ResetAfterDiff, Viewing
  <2>3. to \in 1..Len(commits) /\ commits[to] \in Commits
    BY <2>1, <2>2, AViewing
  <2>4. staged' \in [Docs -> Drafts \cup {NoDoc, ToAdd}]
    BY <2>2, <2>3 DEF Commits, Snapshots
  <2>5. NotViewing \in GitCalls(Len(commits)) /\ NotViewing.at = "idle"
    BY AViewing DEF NotViewing
  <2>6. raced' \in BOOLEAN /\ (raced => raced') /\ (~raced' => looping.at # "staged" /\ head' = head)
    BY <2>2
  <2>7. head' \in 0..Len(commits)
    BY <2>2, <2>3
  <2> HIDE <1>4
  <2> QED
    BY <1>1, <2>2, <2>4, <2>5, <2>6, <2>7, CallKeeps
<1> QED
  BY <1>2, <1>3, <1>4

LEMMA CheckpointsKeep == CheckpointsInv /\ [CheckpointsNext]_checkpointVars => CheckpointsInv'
<1> SUFFICES ASSUME CheckpointsInv, [CheckpointsNext]_checkpointVars PROVE CheckpointsInv'
  OBVIOUS
<1>1. CASE CheckpointsNext
  BY <1>1, LoopDoes, CommitStagedKeeps, ResetSectionKeeps, RestoreKeeps, DiffKeeps, ResolveStepKeeps DEF CheckpointsNext
<1>2. CASE UNCHANGED checkpointVars
  <2>1. UNCHANGED <<commits, head, viewing, kept, raced, bench, staged, looping>>
    BY <1>2 DEF checkpointVars
  <2> QED
    BY <2>1, LoopKeeps DEF CheckpointsInv, CheckpointsTypes, WorksAreMeant
<1> QED
  BY <1>1, <1>2

(* Every reachable state is well typed: however many commits, rollbacks    *)
(* and calls come, a commit's parent is older than it, HEAD is a commit    *)
(* that was made, and what is kept are workspaces (core/checkpoint).       *)
THEOREM CheckpointsTypeCorrect == CheckpointsSpec => []CheckpointsTypeOK
<1>1. CheckpointsInv => CheckpointsTypeOK
  <2> SUFFICES ASSUME CheckpointsInv PROVE CheckpointsTypeOK
    OBVIOUS
  <2>1. \A c \in DOMAIN commits : commits[c].tree \in Snapshots /\ commits[c].parent \in 0..(c - 1)
    <3> SUFFICES ASSUME NEW c \in 1..Len(commits)
                 PROVE  commits[c].tree \in Snapshots /\ commits[c].parent \in 0..(c - 1)
      BY DEF CheckpointsInv, CheckpointsTypes
    <3>1. commits[c] \in Commits /\ commits[c].parent < c
      BY DEF CheckpointsInv, CheckpointsTypes
    <3>2. commits[c].tree \in Snapshots /\ commits[c].parent \in Nat
      BY <3>1 DEF Commits
    <3> QED
      BY <3>1, <3>2
  <2>2. \A i \in DOMAIN kept : kept[i] \in Snapshots
    BY DEF CheckpointsInv, CheckpointsTypes
  <2>3. looping.at \in {"off", "top", "staged", "rolling"}
    BY DEF CheckpointsInv, CheckpointsTypes, Loops, LoopOff, LoopTop
  <2>4. \A v \in Viewers : viewing[v].at \in {"idle", "asked", "picked", "listed", "marked"}
    BY DEF CheckpointsInv, CheckpointsTypes, GitCalls, NotViewing
  <2> QED
    BY <2>1, <2>2, <2>3, <2>4 DEF CheckpointsInv, CheckpointsTypes, CheckpointsTypeOK
<1> QED
  BY <1>1, CheckpointsInitially, CheckpointsKeep, PTL DEF CheckpointsSpec

(* A Restore gives back the checkpoint its step names and reset_section    *)
(* the one before the last (run.go:1579-1581, recovery.go:234-236), for    *)
(* any number of commits, files, clients and calls in between, unless one  *)
(* wrote the index or HEAD in the middle of the loop's own commands.       *)
THEOREM RestoresGoBack == CheckpointsSpec => RestoreGoesBack
<1>1. CheckpointsInv /\ [CheckpointsNext]_checkpointVars =>
        [~raced =>
          /\ \A v \in Viewers : CheckOut(v) => Holds(bench', viewing[v].meant)
          /\ ResetSection => Holds(bench', kept[Len(kept) - 1])]_checkpointVars
  <2> SUFFICES ASSUME CheckpointsInv, ~raced
               PROVE  /\ \A v \in Viewers : CheckOut(v) => Holds(bench', viewing[v].meant)
                      /\ ResetSection => Holds(bench', kept[Len(kept) - 1])
    OBVIOUS
  <2>1. ASSUME NEW v \in Viewers, CheckOut(v) PROVE Holds(bench', viewing[v].meant)
    <3>1. PICK target : target = commits[viewing[v].to].tree
      OBVIOUS
    <3>2. bench' = Overlaid(bench, target) /\ viewing[v].at = "picked"
      BY <2>1, <3>1 DEF CheckOut, Viewing
    <3>3. target = viewing[v].meant
      BY <3>1, <3>2 DEF CheckpointsInv, WorksAreMeant
    <3> QED
      BY <3>2, <3>3 DEF Overlaid, Holds
  <2>2. ASSUME ResetSection PROVE Holds(bench', kept[Len(kept) - 1])
    <3>1. PICK to, target : to = looping.to /\ target = commits[to].tree
      OBVIOUS
    <3>2. bench' = Hard(bench, staged, target) /\ looping.at = "rolling"
      BY <2>2, <3>1 DEF ResetSection
    <3>3. LogIsKept /\ head # 0 /\ to = commits[head].parent
      BY <3>1, <3>2 DEF CheckpointsInv, WorksAreMeant
    <3>4. to # 0
      BY <3>1, <3>2 DEF CheckpointsInv, CheckpointsTypes, Loops, LoopOff, LoopTop
    <3>5. target = kept[Len(kept) - 1]
      BY <3>1, <3>3, <3>4, LastTwo DEF CheckpointsInv
    <3> QED
      BY <3>2, <3>5 DEF Hard, Holds
  <2> QED
    BY <2>1, <2>2
<1> QED
  BY <1>1, CheckpointsInitially, CheckpointsKeep, PTL DEF CheckpointsSpec, RestoreGoesBack

-----------------------------------------------------------------------------
(***************************************************************************)
(* The agent's plan: its places.                                           *)
(***************************************************************************)
Owners == Seq(Nat) \cup {NewItem}
Statuses == STRING \cup {"", "pending", "in_progress", "completed", "finished"}
PlanParts == [id : Ids, was : Owners, state : Statuses, deep : BOOLEAN]
PlanItems == [id : Ids, was : Owners, state : Statuses, sub : Seq(PlanParts)]

LEMMA PlacesAre ==
    ASSUME NEW list \in Seq(PlanItems)
    PROVE  /\ \A p \in Places(list) :
                \E i \in 1..Len(list) : \E j \in 0..Len(list[i].sub) : p = <<i, j>>
           /\ \A i \in 1..Len(list) : \A j \in 0..Len(list[i].sub) : <<i, j>> \in Places(list)
<1>1. DOMAIN list = 1..Len(list) /\ \A i \in 1..Len(list) : list[i] \in PlanItems
  OBVIOUS
<1>2. \A i \in 1..Len(list) : list[i].sub \in Seq(PlanParts) /\ DOMAIN list[i].sub = 1..Len(list[i].sub) /\ Len(list[i].sub) \in Nat
  BY <1>1 DEF PlanItems
<1>3. ASSUME NEW p \in Places(list)
      PROVE  \E i \in 1..Len(list) : \E j \in 0..Len(list[i].sub) : p = <<i, j>>
  <2>1. CASE \E i \in DOMAIN list : p = <<i, 0>>
    <3>1. PICK i \in 1..Len(list) : p = <<i, 0>>
      BY <1>1, <2>1
    <3>2. 0 \in 0..Len(list[i].sub)
      BY <1>2
    <3> QED
      BY <3>1, <3>2
  <2>2. CASE \E i \in DOMAIN list : \E j \in DOMAIN list[i].sub : p = <<i, j>>
    <3>1. PICK i \in 1..Len(list) : \E j \in 1..Len(list[i].sub) : p = <<i, j>>
      BY <1>1, <1>2, <2>2
    <3>2. 1..Len(list[i].sub) \subseteq 0..Len(list[i].sub)
      BY <1>2
    <3> QED
      BY <3>1, <3>2
  <2> QED
    BY <1>3, <2>1, <2>2 DEF Places
<1>4. ASSUME NEW i \in 1..Len(list), NEW j \in 0..Len(list[i].sub) PROVE <<i, j>> \in Places(list)
  <2>1. CASE j = 0
    BY <1>1, <2>1 DEF Places
  <2>2. CASE j # 0
    <3>1. j \in DOMAIN list[i].sub
      BY <1>2, <2>2
    <3> QED
      BY <1>1, <3>1 DEF Places
  <2> QED
    BY <2>1, <2>2
<1> QED
  BY <1>3, <1>4

LEMMA AnItemIs ==
    ASSUME NEW list \in Seq(PlanItems), NEW i \in 1..Len(list)
    PROVE  /\ list[i] \in PlanItems /\ list[i].id \in Ids /\ list[i].was \in Owners /\ list[i].state \in Statuses
           /\ list[i].sub \in Seq(PlanParts) /\ Len(list[i].sub) \in Nat /\ DOMAIN list[i].sub = 1..Len(list[i].sub)
           /\ \A j \in 1..Len(list[i].sub) :
                /\ list[i].sub[j] \in PlanParts /\ list[i].sub[j].id \in Ids /\ list[i].sub[j].was \in Owners
                /\ list[i].sub[j].state \in Statuses /\ list[i].sub[j].deep \in BOOLEAN
<1>1. list[i] \in PlanItems
  OBVIOUS
<1>2. list[i].sub \in Seq(PlanParts)
  BY <1>1 DEF PlanItems
<1>3. \A j \in 1..Len(list[i].sub) : list[i].sub[j] \in PlanParts
  BY <1>2
<1> QED
  BY <1>1, <1>2, <1>3 DEF PlanItems, PlanParts

LEMMA ItemsAre ==
    ASSUME NEW list \in Seq(PlanItems), NEW p \in Places(list)
    PROVE  /\ ItemAt(list, p).id \in Ids /\ ItemAt(list, p).was \in Owners /\ ItemAt(list, p).state \in Statuses
           /\ p[2] # 0 => ItemAt(list, p).deep \in BOOLEAN
           /\ p[1] \in 1..Len(list) /\ p[2] \in 0..Len(list[p[1]].sub) /\ p = <<p[1], p[2]>>
<1>0. PICK i \in 1..Len(list) : \E j \in 0..Len(list[i].sub) : p = <<i, j>>
  BY PlacesAre
<1>1. PICK j \in 0..Len(list[i].sub) : p = <<i, j>>
  BY <1>0
<1>2. CASE j = 0
  BY <1>1, <1>2, AnItemIs DEF ItemAt
<1>3. CASE j # 0
  <2>1. j \in 1..Len(list[i].sub)
    BY <1>3, AnItemIs
  <2> QED
    BY <1>1, <1>3, <2>1, AnItemIs DEF ItemAt
<1> QED
  BY <1>2, <1>3

-----------------------------------------------------------------------------
(***************************************************************************)
(* Numbering: what the counter of ids has seen, by induction over a list.  *)
(***************************************************************************)
CounterLeads(s) ==
    LET n == FoldLeft(Counted, 0, s)
    IN  n \in Nat /\ \A k \in 1..Len(s) : ParseTopID(s[k].id) <= n

Counts == INSTANCE Inductions WITH Op <- Counted, Claim <- CounterLeads

LEMMA CounterFolds == ASSUME NEW s PROVE FoldLeft(Counted, 0, s) = Counts!Fold(0, s)
BY DEF Counts!Fold, FoldLeft, Counts!FoldLeft, MapThenFoldSet, Counts!MapThenFoldSet, Max, Counts!Max

LEMMA NumberInAnId == ASSUME NEW id \in Ids PROVE ParseTopID(id) \in Nat
BY DEF Ids, ParseTopID

LEMMA OneMoreIsCounted ==
    ASSUME NEW s \in Seq(PlanItems), NEW x \in PlanItems
    PROVE  FoldLeft(Counted, 0, Append(s, x)) = Counted(FoldLeft(Counted, 0, s), x)
<1>1. Counts!Fold(0, Append(s, x)) = Counted(Counts!Fold(0, s), x)
  BY Counts!FoldOfOneMore
<1> QED
  BY <1>1, CounterFolds

LEMMA CounterIsAhead == ASSUME NEW s \in Seq(PlanItems) PROVE CounterLeads(s)
<1>1. CounterLeads(<<>>)
  <2>1. FoldLeft(Counted, 0, <<>>) = 0
    BY CounterFolds, Counts!FoldOfNothing
  <2> QED
    BY <2>1 DEF CounterLeads
<1>2. ASSUME NEW t \in Seq(PlanItems), NEW x \in PlanItems, CounterLeads(t) PROVE CounterLeads(Append(t, x))
  <2>1. PICK n \in Nat : n = FoldLeft(Counted, 0, t)
    BY <1>2 DEF CounterLeads
  <2>2. x.id \in Ids /\ ParseTopID(x.id) \in Nat
    BY NumberInAnId DEF PlanItems
  <2>3. Counted(n, x) \in Nat /\ n <= Counted(n, x) /\ ParseTopID(x.id) <= Counted(n, x)
    BY <2>2 DEF Counted, ParseTopID
  <2>4. FoldLeft(Counted, 0, Append(t, x)) = Counted(n, x)
    BY <2>1, OneMoreIsCounted
  <2>5. ASSUME NEW k \in 1..Len(Append(t, x)) PROVE ParseTopID(Append(t, x)[k].id) <= Counted(n, x)
    <3>1. CASE k = Len(t) + 1
      <4>1. Append(t, x)[k] = x
        BY <3>1
      <4> QED
        BY <2>3, <4>1
    <3>2. CASE k # Len(t) + 1
      <4>1. k \in 1..Len(t) /\ Append(t, x)[k] = t[k]
        BY <3>2
      <4>2. t[k].id \in Ids
        BY <4>1, AnItemIs
      <4>4. ParseTopID(t[k].id) \in Nat
        BY <4>2, NumberInAnId
      <4>3. ParseTopID(t[k].id) <= n
        BY <1>2, <2>1, <4>1 DEF CounterLeads
      <4> QED
        BY <2>3, <4>1, <4>3, <4>4
    <3> QED
      BY <3>1, <3>2
  <2> QED
    BY <2>3, <2>4, <2>5 DEF CounterLeads
<1>3. \A t \in Seq(PlanItems), x \in PlanItems : CounterLeads(t) => CounterLeads(Append(t, x))
  BY <1>2
<1>4. \A t \in Seq(PlanItems) : CounterLeads(t)
  BY <1>1, <1>3, Counts!SequenceInduction
<1> QED
  BY <1>4

LEMMA CountersAreNumbers ==
    ASSUME NEW list \in Seq(PlanItems), NEW i \in 1..Len(list)
    PROVE  /\ TopCounter(list, i) \in Nat
           /\ \A j \in 1..Len(list[i].sub) : SubCounter(list[i].sub, j) \in Nat
<1>1. SubSeq(list, 1, i) \in Seq(PlanItems)
  OBVIOUS
<1>2. TopCounter(list, i) \in Nat
  BY <1>1, CounterIsAhead DEF CounterLeads, TopCounter
<1>3. ASSUME NEW j \in 1..Len(list[i].sub) PROVE SubCounter(list[i].sub, j) \in Nat
  <2>1. IsFiniteSet(1..j)
    BY FS_Interval, AnItemIs
  <2>2. IsFiniteSet({k \in 1..j : list[i].sub[k].id = <<>>})
    BY <2>1, FS_Subset
  <2> QED
    BY <2>2, FS_CardinalityType DEF SubCounter
<1> QED
  BY <1>2, <1>3

TopId(list, i) == IF list[i].id = <<>> THEN <<TopCounter(list, i)>> ELSE list[i].id
PartId(list, i, j) ==
    IF list[i].sub[j].id = <<>> THEN Append(TopId(list, i), SubCounter(list[i].sub, j)) ELSE list[i].sub[j].id
NumberedPart(list, i, j) ==
    [id |-> PartId(list, i, j), was |-> list[i].sub[j].was,
     state |-> Pending(list[i].sub[j].state), deep |-> list[i].sub[j].deep]
NumberedItem(list, i) ==
    [id |-> TopId(list, i), was |-> list[i].was, state |-> Pending(list[i].state),
     sub |-> [j \in DOMAIN list[i].sub |-> NumberedPart(list, i, j)]]

LEMMA NumbersAre == ASSUME NEW list PROVE AssignIDs(list) = [i \in DOMAIN list |-> NumberedItem(list, i)]
BY DEF AssignIDs, NumberedItem, NumberedPart, TopId, PartId

LEMMA ASequenceIs ==
    ASSUME NEW T, NEW n \in Nat, NEW s, DOMAIN s = 1..n, s = [i \in 1..n |-> s[i]], \A i \in 1..n : s[i] \in T
    PROVE  s \in Seq(T) /\ Len(s) = n
<1>1. s \in [1..n -> T]
  OBVIOUS
<1> QED
  BY <1>1

LEMMA IdsAreGiven ==
    ASSUME NEW list \in Seq(PlanItems), NEW i \in 1..Len(list)
    PROVE  /\ TopId(list, i) \in Ids /\ TopId(list, i) # <<>>
           /\ \A j \in 1..Len(list[i].sub) :
                /\ PartId(list, i, j) \in Ids /\ PartId(list, i, j) # <<>>
                /\ list[i].sub[j].id = <<>> => ParseTopID(PartId(list, i, j)) = 0
<1>1. list[i].id \in Ids /\ TopCounter(list, i) \in Nat
  BY AnItemIs, CountersAreNumbers
<1>2. <<TopCounter(list, i)>> \in Seq(Nat) /\ <<TopCounter(list, i)>> # <<>>
  BY <1>1
<1>3. TopId(list, i) \in Seq(Nat) /\ TopId(list, i) # <<>>
  BY <1>1, <1>2 DEF TopId, Ids
<1>4. ASSUME NEW j \in 1..Len(list[i].sub)
      PROVE  /\ PartId(list, i, j) \in Ids /\ PartId(list, i, j) # <<>>
             /\ list[i].sub[j].id = <<>> => ParseTopID(PartId(list, i, j)) = 0
  <2>1. PICK n \in Nat : n = SubCounter(list[i].sub, j)
    BY CountersAreNumbers
  <2>2. PICK t \in Seq(Nat) : t = TopId(list, i) /\ t # <<>>
    BY <1>3
  <2>3. Append(t, n) \in Seq(Nat) /\ Append(t, n) # <<>> /\ Len(Append(t, n)) # 1
    <3>1. Len(t) \in Nat /\ Len(t) # 0
      BY <2>2, EmptySeq
    <3>2. Append(t, n) \in Seq(Nat) /\ Len(Append(t, n)) = Len(t) + 1
      OBVIOUS
    <3>3. Len(<<>>) = 0
      OBVIOUS
    <3> QED
      BY <3>1, <3>2, <3>3, SMTT(30)
  <2>4. list[i].sub[j].id \in Seq(Nat)
    BY AnItemIs DEF Ids
  <2> QED
    BY <2>1, <2>2, <2>3, <2>4 DEF PartId, ParseTopID, Ids
<1> QED
  BY <1>3, <1>4 DEF Ids

LEMMA NumbersFit ==
    ASSUME NEW list \in Seq(PlanItems)
    PROVE  /\ AssignIDs(list) \in Seq(PlanItems) /\ Len(AssignIDs(list)) = Len(list)
           /\ \A i \in 1..Len(list) :
                /\ AssignIDs(list)[i] = NumberedItem(list, i)
                /\ Len(AssignIDs(list)[i].sub) = Len(list[i].sub)
                /\ \A j \in 1..Len(list[i].sub) : AssignIDs(list)[i].sub[j] = NumberedPart(list, i, j)
<1>0. AssignIDs(list) = [i \in 1..Len(list) |-> NumberedItem(list, i)] /\ Len(list) \in Nat
  <2>1. DOMAIN list = 1..Len(list) /\ Len(list) \in Nat
    OBVIOUS
  <2> QED
    BY <2>1, NumbersAre
<1>1. ASSUME NEW i \in 1..Len(list)
      PROVE  /\ NumberedItem(list, i) \in PlanItems
             /\ Len(NumberedItem(list, i).sub) = Len(list[i].sub)
             /\ \A j \in 1..Len(list[i].sub) : NumberedItem(list, i).sub[j] = NumberedPart(list, i, j)
  <2>1. \A state \in Statuses : Pending(state) \in Statuses
    BY DEF Statuses, Pending
  <2>2. ASSUME NEW j \in 1..Len(list[i].sub) PROVE NumberedPart(list, i, j) \in PlanParts
    <3>1. PartId(list, i, j) \in Ids
      BY IdsAreGiven
    <3>2. list[i].sub[j].was \in Owners /\ list[i].sub[j].deep \in BOOLEAN
      BY AnItemIs
    <3>3. Pending(list[i].sub[j].state) \in Statuses
      BY <2>1, AnItemIs
    <3> QED
      BY <3>1, <3>2, <3>3 DEF NumberedPart, PlanParts
  <2> DEFINE s == [j \in DOMAIN list[i].sub |-> NumberedPart(list, i, j)]
             n == Len(list[i].sub)
  <2>3. n \in Nat /\ DOMAIN list[i].sub = 1..n
    BY AnItemIs
  <2>4. s \in Seq(PlanParts) /\ Len(s) = n /\ \A j \in 1..n : s[j] = NumberedPart(list, i, j)
    <3>1. DOMAIN s = 1..n /\ s = [j \in 1..n |-> s[j]] /\ \A j \in 1..n : s[j] = NumberedPart(list, i, j)
      BY <2>3
    <3>2. \A j \in 1..n : s[j] \in PlanParts
      BY <2>2, <3>1
    <3> HIDE DEF s, n
    <3> QED
      BY <2>3, <3>1, <3>2, ASequenceIs
  <2>5. TopId(list, i) \in Ids
    BY IdsAreGiven
  <2>6. list[i].was \in Owners /\ Pending(list[i].state) \in Statuses
    BY <2>1, AnItemIs
  <2>7. NumberedItem(list, i) = [id |-> TopId(list, i), was |-> list[i].was, state |-> Pending(list[i].state), sub |-> s]
    BY DEF NumberedItem
  <2> HIDE DEF s
  <2> QED
    BY <2>4, <2>5, <2>6, <2>7 DEF PlanItems
<1> DEFINE new == AssignIDs(list)
           m == Len(list)
<1>2. DOMAIN new = 1..m /\ new = [i \in 1..m |-> new[i]] /\ m \in Nat /\ \A i \in 1..m : new[i] = NumberedItem(list, i)
  BY <1>0
<1>3. \A i \in 1..m : new[i] \in PlanItems
  BY <1>1, <1>2
<1>4. new \in Seq(PlanItems) /\ Len(new) = m
  <2> HIDE DEF new, m
  <2> QED
    BY <1>2, <1>3, ASequenceIs
<1> QED
  BY <1>1, <1>2, <1>4

\* What a new item gets for an identity, and others keep.
OwnOf(was, v, i, j) == IF was = NewItem THEN <<v, i, j>> ELSE was
OwnedItem(list, v, i) ==
    [id |-> list[i].id, was |-> OwnOf(list[i].was, v, i, 0), state |-> list[i].state,
     sub |-> [j \in DOMAIN list[i].sub |-> [list[i].sub[j] EXCEPT !.was = OwnOf(list[i].sub[j].was, v, i, j)]]]

LEMMA IdentitiesAre ==
    ASSUME NEW list, NEW v
    PROVE  Identified(list, v) = [i \in DOMAIN list |-> OwnedItem(list, v, i)]
BY DEF Identified, OwnedItem, OwnOf

LEMMA OwnersAre ==
    ASSUME NEW was \in Owners, NEW v \in Nat, NEW i \in Nat, NEW j \in Nat
    PROVE  OwnOf(was, v, i, j) \in Owners
BY DEF OwnOf, Owners

LEMMA IdentitiesFit ==
    ASSUME NEW list \in Seq(PlanItems), NEW v \in Nat
    PROVE  /\ Identified(list, v) \in Seq(PlanItems) /\ Len(Identified(list, v)) = Len(list)
           /\ \A i \in 1..Len(list) :
                LET new == Identified(list, v)[i]
                IN  /\ new.id = list[i].id /\ new.was = OwnOf(list[i].was, v, i, 0) /\ new.state = list[i].state
                    /\ Len(new.sub) = Len(list[i].sub)
                    /\ \A j \in 1..Len(list[i].sub) :
                         /\ new.sub[j].id = list[i].sub[j].id
                         /\ new.sub[j].was = OwnOf(list[i].sub[j].was, v, i, j)
                         /\ new.sub[j].state = list[i].sub[j].state /\ new.sub[j].deep = list[i].sub[j].deep
<1>0. Identified(list, v) = [i \in 1..Len(list) |-> OwnedItem(list, v, i)] /\ Len(list) \in Nat
  <2>1. DOMAIN list = 1..Len(list) /\ Len(list) \in Nat
    OBVIOUS
  <2> QED
    BY <2>1, IdentitiesAre
<1>1. ASSUME NEW i \in 1..Len(list)
      PROVE  LET new == OwnedItem(list, v, i)
             IN  /\ new \in PlanItems
                 /\ new.id = list[i].id /\ new.was = OwnOf(list[i].was, v, i, 0) /\ new.state = list[i].state
                 /\ Len(new.sub) = Len(list[i].sub)
                 /\ \A j \in 1..Len(list[i].sub) :
                      /\ new.sub[j].id = list[i].sub[j].id
                      /\ new.sub[j].was = OwnOf(list[i].sub[j].was, v, i, j)
                      /\ new.sub[j].state = list[i].sub[j].state /\ new.sub[j].deep = list[i].sub[j].deep
  <2> DEFINE part(j) == [list[i].sub[j] EXCEPT !.was = OwnOf(list[i].sub[j].was, v, i, j)]
             s == [j \in DOMAIN list[i].sub |-> part(j)]
             n == Len(list[i].sub)
  <2>1. ASSUME NEW j \in 1..n
        PROVE  /\ part(j) \in PlanParts
               /\ part(j).id = list[i].sub[j].id /\ part(j).was = OwnOf(list[i].sub[j].was, v, i, j)
               /\ part(j).state = list[i].sub[j].state /\ part(j).deep = list[i].sub[j].deep
    <3>1. list[i].sub[j] \in PlanParts
      BY AnItemIs
    <3>2. OwnOf(list[i].sub[j].was, v, i, j) \in Owners
      <4>1. list[i].sub[j].was \in Owners /\ i \in Nat /\ j \in Nat
        BY AnItemIs
      <4> QED
        BY <4>1, OwnersAre
    <3> QED
      BY <3>1, <3>2 DEF PlanParts
  <2>2. n \in Nat /\ DOMAIN list[i].sub = 1..n
    BY AnItemIs
  <2>3. DOMAIN s = 1..n /\ s = [j \in 1..n |-> s[j]] /\ \A j \in 1..n : s[j] = part(j)
    BY <2>2
  <2>4. s \in Seq(PlanParts) /\ Len(s) = n
    <3>1. \A j \in 1..n : s[j] \in PlanParts
      BY <2>1, <2>3
    <3> HIDE DEF s, n
    <3> QED
      BY <2>2, <2>3, <3>1, ASequenceIs
  <2>5. OwnOf(list[i].was, v, i, 0) \in Owners
    <3>1. list[i].was \in Owners /\ i \in Nat /\ 0 \in Nat
      BY AnItemIs
    <3> QED
      BY <3>1, OwnersAre
  <2>6. list[i].id \in Ids /\ list[i].state \in Statuses
    BY AnItemIs
  <2>7. OwnedItem(list, v, i) = [id |-> list[i].id, was |-> OwnOf(list[i].was, v, i, 0), state |-> list[i].state, sub |-> s]
    BY DEF OwnedItem
  <2> HIDE DEF s, part
  <2>8. OwnedItem(list, v, i) \in PlanItems
    BY <2>4, <2>5, <2>6, <2>7 DEF PlanItems
  <2>9. OwnedItem(list, v, i).sub = s /\ OwnedItem(list, v, i).id = list[i].id
        /\ OwnedItem(list, v, i).was = OwnOf(list[i].was, v, i, 0) /\ OwnedItem(list, v, i).state = list[i].state
    BY <2>7
  <2> QED
    BY <2>1, <2>3, <2>4, <2>8, <2>9
<1> DEFINE new == Identified(list, v)
           m == Len(list)
<1>2. DOMAIN new = 1..m /\ new = [i \in 1..m |-> new[i]] /\ m \in Nat /\ \A i \in 1..m : new[i] = OwnedItem(list, v, i)
  BY <1>0
<1>3. \A i \in 1..m : new[i] \in PlanItems
  BY <1>1, <1>2
<1>4. new \in Seq(PlanItems) /\ Len(new) = m
  <2> HIDE DEF new, m
  <2> QED
    BY <1>2, <1>3, ASequenceIs
<1> QED
  BY <1>1, <1>2, <1>4

LEMMA PartsStay ==
    ASSUME NEW list \in Seq(PlanItems), NEW v \in Nat, NEW i \in 1..Len(list)
    PROVE  Len(Identified(list, v)[i].sub) = Len(list[i].sub)
  BY IdentitiesFit

\* A list that is numbered and saved, place by place.
SavedList(list, v) == Identified(AssignIDs(list), v)

SavedAt(list, v, p) ==
    LET old == ItemAt(list, p)
        new == ItemAt(SavedList(list, v), p)
    IN  /\ new.id # <<>> /\ (old.id # <<>> => new.id = old.id)
        /\ new.id = ItemAt(AssignIDs(list), p).id
        /\ p[2] # 0 /\ old.id = <<>> => ParseTopID(new.id) = 0
        /\ new.was = OwnOf(old.was, v, p[1], p[2])
        /\ new.state = Pending(old.state)
        /\ p[2] # 0 => new.deep = old.deep

LEMMA SavedIs ==
    ASSUME NEW list \in Seq(PlanItems), NEW v \in Nat
    PROVE  /\ SavedList(list, v) \in Seq(PlanItems) /\ Len(SavedList(list, v)) = Len(list)
           /\ Places(SavedList(list, v)) = Places(list) /\ Places(AssignIDs(list)) = Places(list)
           /\ \A p \in Places(list) : SavedAt(list, v, p)
<1> DEFINE mid == AssignIDs(list)
           new == SavedList(list, v)
<1>1. mid \in Seq(PlanItems) /\ Len(mid) = Len(list)
  BY NumbersFit
<1>2. new = Identified(mid, v)
  BY DEF SavedList
<1>3. new \in Seq(PlanItems) /\ Len(new) = Len(list)
  BY <1>1, <1>2, IdentitiesFit
<1>4. ASSUME NEW i \in 1..Len(list)
      PROVE  /\ mid[i].id = TopId(list, i) /\ new[i].id = TopId(list, i)
             /\ new[i].was = OwnOf(list[i].was, v, i, 0) /\ new[i].state = Pending(list[i].state)
             /\ Len(mid[i].sub) = Len(list[i].sub) /\ Len(new[i].sub) = Len(list[i].sub)
             /\ \A j \in 1..Len(list[i].sub) :
                  /\ mid[i].sub[j].id = PartId(list, i, j) /\ new[i].sub[j].id = PartId(list, i, j)
                  /\ new[i].sub[j].was = OwnOf(list[i].sub[j].was, v, i, j)
                  /\ new[i].sub[j].state = Pending(list[i].sub[j].state)
                  /\ new[i].sub[j].deep = list[i].sub[j].deep
  <2>1. mid[i] = NumberedItem(list, i) /\ Len(mid[i].sub) = Len(list[i].sub)
        /\ \A j \in 1..Len(list[i].sub) : mid[i].sub[j] = NumberedPart(list, i, j)
    BY NumbersFit
  <2>2. mid[i].id = TopId(list, i) /\ mid[i].was = list[i].was /\ mid[i].state = Pending(list[i].state)
    BY <2>1 DEF NumberedItem
  <2>3. \A j \in 1..Len(list[i].sub) :
          /\ mid[i].sub[j].id = PartId(list, i, j) /\ mid[i].sub[j].was = list[i].sub[j].was
          /\ mid[i].sub[j].state = Pending(list[i].sub[j].state) /\ mid[i].sub[j].deep = list[i].sub[j].deep
    <3> SUFFICES ASSUME NEW j \in 1..Len(list[i].sub)
                 PROVE  /\ mid[i].sub[j].id = PartId(list, i, j) /\ mid[i].sub[j].was = list[i].sub[j].was
                        /\ mid[i].sub[j].state = Pending(list[i].sub[j].state)
                        /\ mid[i].sub[j].deep = list[i].sub[j].deep
      OBVIOUS
    <3>1. mid[i].sub[j] = NumberedPart(list, i, j)
      BY <2>1
    <3> HIDE DEF mid
    <3> QED
      BY <3>1 DEF NumberedPart
  <2>4. i \in 1..Len(mid)
    BY <1>1
  <2>5. LET it == Identified(mid, v)[i]
        IN  /\ it.id = mid[i].id /\ it.was = OwnOf(mid[i].was, v, i, 0) /\ it.state = mid[i].state
            /\ Len(it.sub) = Len(mid[i].sub)
            /\ \A j \in 1..Len(mid[i].sub) :
                 /\ it.sub[j].id = mid[i].sub[j].id
                 /\ it.sub[j].was = OwnOf(mid[i].sub[j].was, v, i, j)
                 /\ it.sub[j].state = mid[i].sub[j].state /\ it.sub[j].deep = mid[i].sub[j].deep
    <3> HIDE DEF mid
    <3> QED
      BY <1>1, <2>4, IdentitiesFit
  <2> HIDE DEF mid, new
  <2> QED
    BY <1>2, <2>1, <2>2, <2>3, <2>5
<1> HIDE DEF mid, new
<1>5. Places(new) = Places(list) /\ Places(mid) = Places(list)
  <2>1. ASSUME NEW other \in Seq(PlanItems), Len(other) = Len(list),
               \A i \in 1..Len(list) : Len(other[i].sub) = Len(list[i].sub)
        PROVE  Places(other) = Places(list)
    <3>1. \A p \in Places(other) : p \in Places(list)
      BY <2>1, PlacesAre, SMTT(30)
    <3>2. \A p \in Places(list) : p \in Places(other)
      BY <2>1, PlacesAre
    <3> QED
      BY <3>1, <3>2
  <2> QED
    BY <1>1, <1>3, <1>4, <2>1
<1>6. ASSUME NEW p \in Places(list) PROVE SavedAt(list, v, p)
  <2>1. PICK i, j : i \in 1..Len(list) /\ j \in 0..Len(list[i].sub) /\ p = <<i, j>>
    BY PlacesAre
  <2>2. CASE j = 0
    <3>1. ItemAt(list, p) = list[i] /\ ItemAt(new, p) = new[i] /\ ItemAt(mid, p) = mid[i] /\ p[1] = i /\ p[2] = 0
      BY <2>1, <2>2 DEF ItemAt
    <3>2. TopId(list, i) # <<>> /\ (list[i].id # <<>> => TopId(list, i) = list[i].id)
      BY <2>1, IdsAreGiven DEF TopId
    <3> QED
      BY <1>4, <2>1, <3>1, <3>2 DEF SavedAt, mid, new
  <2>3. CASE j # 0
    <3>0. j \in 1..Len(list[i].sub)
      BY <2>1, <2>3, AnItemIs
    <3>1. ItemAt(list, p) = list[i].sub[j] /\ ItemAt(new, p) = new[i].sub[j] /\ ItemAt(mid, p) = mid[i].sub[j]
          /\ p[1] = i /\ p[2] = j
      BY <2>1, <2>3 DEF ItemAt
    <3>2. PartId(list, i, j) # <<>> /\ (list[i].sub[j].id # <<>> => PartId(list, i, j) = list[i].sub[j].id)
          /\ (list[i].sub[j].id = <<>> => ParseTopID(PartId(list, i, j)) = 0)
      BY <2>1, <3>0, IdsAreGiven DEF PartId
    <3>3. /\ mid[i].sub[j].id = PartId(list, i, j) /\ new[i].sub[j].id = PartId(list, i, j)
          /\ new[i].sub[j].was = OwnOf(list[i].sub[j].was, v, i, j)
          /\ new[i].sub[j].state = Pending(list[i].sub[j].state)
          /\ new[i].sub[j].deep = list[i].sub[j].deep
      BY <1>4, <2>1, <3>0
    <3> QED
      BY <3>1, <3>2, <3>3 DEF SavedAt, mid, new
  <2> QED
    BY <2>2, <2>3
<1> QED
  BY <1>3, <1>5, <1>6 DEF mid, new

-----------------------------------------------------------------------------
(***************************************************************************)
(* A plan that is well kept: ids and identities tell its places apart, no  *)
(* part has the id of an item, no identity is of a later version.          *)
(***************************************************************************)
Proper == {"pending", "in_progress", "completed"}

KeptItem(list, p, v) ==
    LET it == ItemAt(list, p)
    IN  /\ it.id # <<>> /\ it.state \in Proper
        /\ \E n \in 0..v : \E i, j \in Nat : it.was = <<n, i, j>>
        /\ p[2] # 0 => ParseTopID(it.id) = 0 /\ ~it.deep

Apart(list) ==
    \A p, q \in Places(list) :
        ItemAt(list, p).id = ItemAt(list, q).id \/ ItemAt(list, p).was = ItemAt(list, q).was => p = q

WellKept(list, v) == Apart(list) /\ \A p \in Places(list) : KeptItem(list, p, v)

LEMMA KeptOwners ==
    ASSUME NEW list, NEW p, NEW v \in Nat, KeptItem(list, p, v)
    PROVE  ItemAt(list, p).was \in Seq(Nat) /\ ItemAt(list, p).was # NewItem
<1>1. PICK n \in 0..v : \E i, j \in Nat : ItemAt(list, p).was = <<n, i, j>>
  BY DEF KeptItem
<1>2. PICK i, j \in Nat : ItemAt(list, p).was = <<n, i, j>>
  BY <1>1
<1>3. n \in Nat
  OBVIOUS
<1>4. <<n, i, j>> \in Seq(Nat)
  BY <1>3
<1> QED
  BY <1>2, <1>4, AgentPlanAssumption

LEMMA StateIs ==
    ASSUME NEW list, Apart(list), NEW p \in Places(list)
    PROVE  StateOf(list, ItemAt(list, p).was) = ItemAt(list, p).state
<1>1. PICK q \in Places(list) :
        q = (CHOOSE place \in Places(list) : ItemAt(list, place).was = ItemAt(list, p).was)
        /\ ItemAt(list, q).was = ItemAt(list, p).was
  OBVIOUS
<1>2. q = p
  BY <1>1 DEF Apart
<1> QED
  BY <1>1, <1>2 DEF StateOf

\* e takes each place of a list to the place of an older one whose item it has.
Carried(e, new, old) ==
    /\ \A p \in Places(new) :
         /\ e[p] \in Places(old)
         /\ ItemAt(new, p).id = ItemAt(old, e[p]).id /\ ItemAt(new, p).was = ItemAt(old, e[p]).was
         /\ p[2] = 0 <=> e[p][2] = 0
         /\ p[2] # 0 => ItemAt(new, p).deep = ItemAt(old, e[p]).deep
    /\ \A p, q \in Places(new) : e[p] = e[q] => p = q

LEMMA CarriedKeeps ==
    ASSUME NEW old, NEW new, NEW e, Carried(e, new, old), NEW v \in Nat, NEW w \in Nat, v <= w, WellKept(old, v),
           \A p \in Places(new) : ItemAt(new, p).state \in Proper
    PROVE  WellKept(new, w)
<1>1. Apart(new)
  <2> SUFFICES ASSUME NEW p \in Places(new), NEW q \in Places(new),
                      ItemAt(new, p).id = ItemAt(new, q).id \/ ItemAt(new, p).was = ItemAt(new, q).was
               PROVE  p = q
    BY DEF Apart
  <2>1. e[p] \in Places(old) /\ e[q] \in Places(old)
        /\ (ItemAt(old, e[p]).id = ItemAt(old, e[q]).id \/ ItemAt(old, e[p]).was = ItemAt(old, e[q]).was)
    BY DEF Carried
  <2>2. e[p] = e[q]
    BY <2>1 DEF WellKept, Apart
  <2> QED
    BY <2>2 DEF Carried
<1>2. ASSUME NEW p \in Places(new) PROVE KeptItem(new, p, w)
  <2>1. e[p] \in Places(old) /\ KeptItem(old, e[p], v)
    BY DEF Carried, WellKept
  <2>2. PICK n \in 0..v : \E i, j \in Nat : ItemAt(old, e[p]).was = <<n, i, j>>
    BY <2>1 DEF KeptItem
  <2>3. n \in 0..w
    OBVIOUS
  <2>4. /\ ItemAt(new, p).id = ItemAt(old, e[p]).id /\ ItemAt(new, p).was = ItemAt(old, e[p]).was
        /\ p[2] = 0 <=> e[p][2] = 0
        /\ p[2] # 0 => ItemAt(new, p).deep = ItemAt(old, e[p]).deep
    BY DEF Carried
  <2> QED
    BY <2>1, <2>2, <2>3, <2>4 DEF KeptItem
<1> QED
  BY <1>1, <1>2 DEF WellKept

\* What an accepted list saves of an item that is kept.
LEMMA SavedAlready ==
    ASSUME NEW list \in Seq(PlanItems), NEW v \in Nat, NEW p \in Places(list), Accepted(list),
           ItemAt(list, p).id # <<>>, ItemAt(list, p).was # NewItem
    PROVE  LET new == ItemAt(SavedList(list, v), p)
           IN  /\ new.id = ItemAt(list, p).id /\ new.was = ItemAt(list, p).was
               /\ new.state = Pending(ItemAt(list, p).state)
               /\ p[2] # 0 => new.deep = ItemAt(list, p).deep
<1>1. SavedAt(list, v, p)
  BY SavedIs
<1> QED
  BY <1>1 DEF SavedAt, OwnOf

LEMMA AcceptedStates ==
    ASSUME NEW list \in Seq(PlanItems), Accepted(list), NEW p \in Places(list)
    PROVE  /\ IsValid(ItemAt(list, p).state) /\ Pending(ItemAt(list, p).state) \in Proper
           /\ p[2] # 0 => ~ItemAt(list, p).deep
<1>1. PICK i, j : i \in 1..Len(list) /\ j \in 0..Len(list[i].sub) /\ p = <<i, j>>
  BY PlacesAre
<1>2. i \in DOMAIN list
  BY <1>1
<1>3. IsValid(ItemAt(list, p).state) /\ (p[2] # 0 => ~ItemAt(list, p).deep)
  <2>1. CASE j = 0
    BY <1>1, <1>2, <2>1 DEF ItemAt, Accepted
  <2>2. CASE j # 0
    <3>1. j \in DOMAIN list[i].sub
      BY <1>1, <2>2, AnItemIs
    <3> QED
      BY <1>1, <1>2, <2>2, <3>1 DEF ItemAt, Accepted
  <2> QED
    BY <2>1, <2>2
<1> QED
  BY <1>3 DEF IsValid, Pending, Proper

-----------------------------------------------------------------------------
(***************************************************************************)
(* What an operation makes of a plan: update_item.                         *)
(***************************************************************************)
LEMMA AcceptState == ASSUME NEW state \in {"completed", "finished"} PROVE state \in Statuses
BY DEF Statuses

LEMMA PartsPut ==
    ASSUME NEW it \in PlanItems, NEW subs \in Seq(PlanParts)
    PROVE  LET new == [it EXCEPT !.sub = subs]
           IN  new \in PlanItems /\ new.id = it.id /\ new.was = it.was /\ new.state = it.state /\ new.sub = subs
BY DEF PlanItems

\* The places stay, and what is at them but for one state.
LEMMA MutateIs ==
    ASSUME NEW list \in Seq(PlanItems), NEW place \in Places(list), NEW state \in Statuses
    PROVE  LET new == MutateItem(list, place, state)
           IN  /\ new \in Seq(PlanItems) /\ Len(new) = Len(list) /\ Places(new) = Places(list)
               /\ \A p \in Places(list) :
                    /\ ItemAt(new, p).id = ItemAt(list, p).id /\ ItemAt(new, p).was = ItemAt(list, p).was
                    /\ ItemAt(new, p).state = IF p = place THEN state ELSE ItemAt(list, p).state
                    /\ p[2] # 0 => ItemAt(new, p).deep = ItemAt(list, p).deep
<1> DEFINE new == MutateItem(list, place, state)
<1>1. PICK top, under : top \in 1..Len(list) /\ under \in 0..Len(list[top].sub) /\ place = <<top, under>>
  BY PlacesAre
<1>2. list[top] \in PlanItems /\ top \in DOMAIN list
  BY <1>1
<1>3. PICK it : /\ new = [list EXCEPT ![top] = it] /\ it \in PlanItems
                /\ it.id = list[top].id /\ it.was = list[top].was /\ Len(it.sub) = Len(list[top].sub)
                /\ it.state = IF under = 0 THEN state ELSE list[top].state
                /\ \A j \in 1..Len(list[top].sub) :
                     /\ it.sub[j].id = list[top].sub[j].id /\ it.sub[j].was = list[top].sub[j].was
                     /\ it.sub[j].deep = list[top].sub[j].deep
                     /\ it.sub[j].state = IF j = under THEN state ELSE list[top].sub[j].state
  <2>1. CASE under = 0
    <3> DEFINE it == [list[top] EXCEPT !.state = state]
    <3>1. new = [list EXCEPT ![top] = it]
      BY <1>1, <2>1 DEF MutateItem
    <3>2. it \in PlanItems /\ it.id = list[top].id /\ it.was = list[top].was /\ it.sub = list[top].sub /\ it.state = state
      BY <1>2 DEF PlanItems
    <3>3. \A j \in 1..Len(list[top].sub) : j # under
      BY <2>1
    <3> HIDE DEF it, new
    <3> QED
      BY <2>1, <3>1, <3>2, <3>3
  <2>2. CASE under # 0
    <3> DEFINE subs == list[top].sub
               part == [subs[under] EXCEPT !.state = state]
               more == [subs EXCEPT ![under] = part]
               it == [list[top] EXCEPT !.sub = more]
    <3>1. new = [list EXCEPT ![top] = it]
      BY <1>1, <2>2 DEF MutateItem
    <3>2. subs \in Seq(PlanParts) /\ under \in 1..Len(subs) /\ subs[under] \in PlanParts
      BY <1>1, <2>2, AnItemIs
    <3>3. /\ part \in PlanParts /\ part.id = subs[under].id /\ part.was = subs[under].was
          /\ part.deep = subs[under].deep /\ part.state = state
      BY <3>2 DEF PlanParts
    <3> HIDE DEF part
    <3>4. more \in Seq(PlanParts) /\ Len(more) = Len(subs)
          /\ \A j \in 1..Len(subs) : more[j] = IF j = under THEN part ELSE subs[j]
      BY <3>2, <3>3
    <3> HIDE DEF more
    <3>7. it \in PlanItems /\ it.id = list[top].id /\ it.was = list[top].was /\ it.sub = more /\ it.state = list[top].state
      BY <1>2, <3>4, PartsPut
    <3> HIDE DEF it, new
    <3>8. \A j \in 1..Len(list[top].sub) :
            /\ it.sub[j].id = list[top].sub[j].id /\ it.sub[j].was = list[top].sub[j].was
            /\ it.sub[j].deep = list[top].sub[j].deep
            /\ it.sub[j].state = IF j = under THEN state ELSE list[top].sub[j].state
      BY <3>3, <3>4, <3>7
    <3>9. Len(it.sub) = Len(list[top].sub)
      BY <3>4, <3>7
    <3> QED
      BY <2>2, <3>1, <3>7, <3>8, <3>9, ZenonT(30)
  <2> QED
    BY <2>1, <2>2
<1> HIDE DEF new
<1>4. new \in Seq(PlanItems) /\ Len(new) = Len(list) /\ \A i \in 1..Len(list) : new[i] = IF i = top THEN it ELSE list[i]
  BY <1>1, <1>3
<1>5. \A i \in 1..Len(list) : Len(new[i].sub) = Len(list[i].sub)
  BY <1>3, <1>4
<1>6. Places(new) = Places(list)
  <2>1. \A p \in Places(new) : p \in Places(list)
    BY <1>4, <1>5, PlacesAre, SMTT(30)
  <2>2. \A p \in Places(list) : p \in Places(new)
    BY <1>4, <1>5, PlacesAre
  <2> QED
    BY <2>1, <2>2
<1>7. ASSUME NEW p \in Places(list)
      PROVE  /\ ItemAt(new, p).id = ItemAt(list, p).id /\ ItemAt(new, p).was = ItemAt(list, p).was
             /\ ItemAt(new, p).state = IF p = place THEN state ELSE ItemAt(list, p).state
             /\ p[2] # 0 => ItemAt(new, p).deep = ItemAt(list, p).deep
  <2>1. PICK i, j : i \in 1..Len(list) /\ j \in 0..Len(list[i].sub) /\ p = <<i, j>>
    BY PlacesAre
  <2>2. p = place <=> i = top /\ j = under
    BY <1>1, <2>1
  <2>3. CASE j = 0
    BY <1>3, <1>4, <2>1, <2>2, <2>3 DEF ItemAt
  <2>4. CASE j # 0
    <3>1. j \in 1..Len(list[i].sub)
      BY <2>1, <2>4, AnItemIs
    <3> QED
      BY <1>3, <1>4, <2>1, <2>2, <2>4, <3>1 DEF ItemAt
  <2> QED
    BY <2>3, <2>4
<1> QED
  BY <1>4, <1>6, <1>7 DEF new

\* What update_item is to do (TheItemItSaw).
UpdateMeans(meant, old, new) ==
    /\ Tops(new) = Tops(old) /\ Identities(new) = Identities(old)
    /\ IdsOf(new) = IdsOf(old)
    /\ \A x \in Identities(old) \ {meant} : StateOf(new, x) = StateOf(old, x)
    /\ StateOf(new, meant) = "completed"

LEMMA UpdateDoes ==
    ASSUME NEW old \in Seq(PlanItems), NEW v \in Nat, WellKept(old, v),
           NEW place \in Places(old), NEW state \in {"completed", "finished"},
           NEW mid, mid = MutateItem(old, place, state), Accepted(mid), NEW new, new = SavedList(mid, v + 1)
    PROVE  new \in Seq(PlanItems) /\ WellKept(new, v + 1) /\ UpdateMeans(ItemAt(old, place).was, old, new)
<1>1. mid \in Seq(PlanItems) /\ Len(mid) = Len(old) /\ Places(mid) = Places(old)
  BY AcceptState, MutateIs
<1>2. ASSUME NEW p \in Places(old)
      PROVE  /\ ItemAt(mid, p).id = ItemAt(old, p).id /\ ItemAt(mid, p).was = ItemAt(old, p).was
             /\ ItemAt(mid, p).state = IF p = place THEN state ELSE ItemAt(old, p).state
             /\ p[2] # 0 => ItemAt(mid, p).deep = ItemAt(old, p).deep
  BY AcceptState, MutateIs
<1>3. v + 1 \in Nat /\ new \in Seq(PlanItems) /\ Len(new) = Len(old) /\ Places(new) = Places(old)
  BY <1>1, SavedIs
<1>4. state = "completed"
  <2>1. IsValid(ItemAt(mid, place).state)
    BY <1>1, AcceptedStates
  <2> QED
    BY <1>2, <2>1 DEF IsValid
<1>5. ASSUME NEW p \in Places(old)
      PROVE  /\ ItemAt(new, p).id = ItemAt(old, p).id /\ ItemAt(new, p).was = ItemAt(old, p).was
             /\ ItemAt(new, p).state = IF p = place THEN "completed" ELSE ItemAt(old, p).state
             /\ p[2] # 0 => ItemAt(new, p).deep = ItemAt(old, p).deep
             /\ ItemAt(new, p).state \in Proper
  <2>1. KeptItem(old, p, v)
    BY DEF WellKept
  <2>2. ItemAt(old, p).id # <<>> /\ ItemAt(old, p).was # NewItem /\ ItemAt(old, p).state \in Proper
    BY <2>1, KeptOwners DEF KeptItem
  <2>3. p \in Places(mid) /\ ItemAt(mid, p).id # <<>> /\ ItemAt(mid, p).was # NewItem
    BY <1>1, <1>2, <2>2
  <2>4. LET it == ItemAt(SavedList(mid, v + 1), p)
        IN  /\ it.id = ItemAt(mid, p).id /\ it.was = ItemAt(mid, p).was
            /\ it.state = Pending(ItemAt(mid, p).state)
            /\ p[2] # 0 => it.deep = ItemAt(mid, p).deep
    BY <1>1, <1>3, <2>3, SavedAlready
  <2>5. ItemAt(mid, p).state # "" /\ ItemAt(mid, p).state \in Proper
    BY <1>2, <1>4, <2>2 DEF Proper
  <2> QED
    BY <1>2, <1>4, <2>4, <2>5 DEF Pending
<1>6. WellKept(new, v + 1)
  <2> DEFINE e == [p \in Places(old) |-> p]
  <2>1. Carried(e, new, old)
    BY <1>3, <1>5 DEF Carried
  <2>2. v <= v + 1 /\ \A p \in Places(new) : ItemAt(new, p).state \in Proper
    BY <1>3, <1>5
  <2> HIDE DEF e
  <2> QED
    BY <1>3, <2>1, <2>2, CarriedKeeps
<1>7. Tops(new) = Tops(old)
  <2>1. \A i \in 1..Len(old) : <<i, 0>> \in Places(old)
    BY PlacesAre, AnItemIs
  <2>2. \A i \in 1..Len(old) : new[i].was = old[i].was
    BY <1>5, <2>1 DEF ItemAt
  <2>3. DOMAIN new = 1..Len(old) /\ DOMAIN old = 1..Len(old)
    BY <1>3
  <2> QED
    BY <2>2, <2>3 DEF Tops
<1>8. Identities(new) = Identities(old) /\ IdsOf(new) = IdsOf(old)
  BY <1>3, <1>5 DEF Identities, IdsOf
<1>9. \A p \in Places(old) : StateOf(new, ItemAt(old, p).was) = ItemAt(new, p).state
                             /\ StateOf(old, ItemAt(old, p).was) = ItemAt(old, p).state
  BY <1>3, <1>5, <1>6, StateIs DEF WellKept
<1>10. \A x \in Identities(old) \ {ItemAt(old, place).was} : StateOf(new, x) = StateOf(old, x)
  <2> SUFFICES ASSUME NEW p \in Places(old), ItemAt(old, p).was # ItemAt(old, place).was
               PROVE  StateOf(new, ItemAt(old, p).was) = StateOf(old, ItemAt(old, p).was)
    BY DEF Identities
  <2> QED
    BY <1>5, <1>9
<1> QED
  BY <1>3, <1>5, <1>6, <1>7, <1>8, <1>9, <1>10 DEF UpdateMeans

-----------------------------------------------------------------------------
(***************************************************************************)
(* add_item.                                                               *)
(***************************************************************************)
IsLatest(item) == item.id = <<>> /\ item.was = NewItem /\ Len(item.sub) = 0

LEMMA LatestIs ==
    ASSUME NEW state \in Statuses
    PROVE  LET item == [id |-> <<>>, was |-> NewItem, state |-> state, sub |-> <<>>]
           IN  item \in PlanItems /\ IsLatest(item)
<1>1. <<>> \in Ids /\ <<>> \in Seq(PlanParts)
  BY DEF Ids
<1>2. NewItem \in Owners
  BY DEF Owners
<1> QED
  BY <1>1, <1>2 DEF IsLatest, PlanItems

LEMMA SameItem ==
    ASSUME NEW one \in PlanItems, NEW two \in PlanItems, one.id = two.id, one.was = two.was, one.state = two.state,
           Len(one.sub) = Len(two.sub),
           \A j \in 1..Len(two.sub) : /\ one.sub[j].id = two.sub[j].id /\ one.sub[j].was = two.sub[j].was
                                      /\ one.sub[j].state = two.sub[j].state /\ one.sub[j].deep = two.sub[j].deep
    PROVE  one = two
<1>1. one.sub \in Seq(PlanParts) /\ two.sub \in Seq(PlanParts)
  BY DEF PlanItems
<1>2. ASSUME NEW j \in 1..Len(two.sub) PROVE one.sub[j] = two.sub[j]
  <2>1. one.sub[j] \in PlanParts /\ two.sub[j] \in PlanParts
    BY <1>1
  <2> QED
    BY <2>1 DEF PlanParts
<1>3. one.sub = two.sub
  BY <1>1, <1>2, SeqEqual
<1> QED
  BY <1>3 DEF PlanItems

LEMMA PlacesOfMore ==
    ASSUME NEW old \in Seq(PlanItems), NEW item \in PlanItems, IsLatest(item), NEW mid, mid = Append(old, item)
    PROVE  /\ mid \in Seq(PlanItems) /\ Len(mid) = Len(old) + 1 /\ Len(old) \in Nat
           /\ mid[Len(old) + 1] = item /\ \A i \in 1..Len(old) : mid[i] = old[i]
           /\ Places(mid) = Places(old) \cup {<<Len(old) + 1, 0>>}
           /\ \A p \in Places(old) : p[1] # Len(old) + 1 /\ ItemAt(mid, p) = ItemAt(old, p)
<1>1. /\ mid \in Seq(PlanItems) /\ Len(mid) = Len(old) + 1 /\ Len(old) \in Nat
      /\ mid[Len(old) + 1] = item /\ \A i \in 1..Len(old) : mid[i] = old[i]
  OBVIOUS
<1>2. Len(item.sub) = 0
  BY DEF IsLatest
<1>3. \A p \in Places(mid) : p \in Places(old) \cup {<<Len(old) + 1, 0>>}
  <2> SUFFICES ASSUME NEW p \in Places(mid) PROVE p \in Places(old) \/ p = <<Len(old) + 1, 0>>
    OBVIOUS
  <2>0. mid \in Seq(PlanItems)
    BY <1>1
  <2>1. PICK i, j : i \in 1..Len(mid) /\ j \in 0..Len(mid[i].sub) /\ p = <<i, j>>
    <3>1. p[1] \in 1..Len(mid) /\ p[2] \in 0..Len(mid[p[1]].sub) /\ p = <<p[1], p[2]>>
      BY <2>0, ItemsAre
    <3> QED
      BY <3>1
  <2>2. CASE i = Len(old) + 1
    BY <1>1, <1>2, <2>1, <2>2
  <2>3. CASE i # Len(old) + 1
    <3>1. i \in 1..Len(old)
      BY <1>1, <2>1, <2>3
    <3> QED
      BY <1>1, <2>1, <3>1, PlacesAre
  <2> QED
    BY <2>2, <2>3
<1>4. \A p \in Places(old) : p \in Places(mid) /\ p[1] # Len(old) + 1 /\ ItemAt(mid, p) = ItemAt(old, p)
  <2> SUFFICES ASSUME NEW p \in Places(old)
               PROVE  p \in Places(mid) /\ p[1] # Len(old) + 1 /\ ItemAt(mid, p) = ItemAt(old, p)
    OBVIOUS
  <2>1. PICK i, j : i \in 1..Len(old) /\ j \in 0..Len(old[i].sub) /\ p = <<i, j>>
    BY PlacesAre
  <2>2. i \in 1..Len(mid) /\ j \in 0..Len(mid[i].sub) /\ i # Len(old) + 1
    BY <1>1, <2>1
  <2>3. p \in Places(mid)
    BY <1>1, <2>1, <2>2, PlacesAre
  <2> QED
    BY <1>1, <2>1, <2>2, <2>3 DEF ItemAt
<1>5. <<Len(old) + 1, 0>> \in Places(mid)
  <2>1. Len(old) + 1 \in 1..Len(mid) /\ 0 \in 0..Len(mid[Len(old) + 1].sub)
    BY <1>1, <1>2
  <2> QED
    BY <1>1, <2>1, PlacesAre
<1> QED
  BY <1>1, <1>3, <1>4, <1>5

\* The number that the counter gives is ahead of every item's.
LEMMA NewIdIsFree ==
    ASSUME NEW old \in Seq(PlanItems), NEW v \in Nat, WellKept(old, v), NEW item \in PlanItems, IsLatest(item), NEW mid, mid = Append(old, item)
    PROVE  TopId(mid, Len(old) + 1) \notin IdsOf(old)
<1>1. PICK n \in Nat : n = FoldLeft(Counted, 0, old) /\ \A i \in 1..Len(old) : ParseTopID(old[i].id) <= n
  BY CounterIsAhead DEF CounterLeads
<1>2. TopId(mid, Len(old) + 1) = <<n + 1>>
  <2>1. mid \in Seq(PlanItems) /\ Len(mid) = Len(old) + 1 /\ mid[Len(old) + 1] = item
    BY PlacesOfMore
  <2>2. SubSeq(mid, 1, Len(old) + 1) = mid
    BY <2>1
  <2>3. FoldLeft(Counted, 0, mid) = Counted(n, item)
    BY <1>1, OneMoreIsCounted
  <2>4. item.id = <<>>
    BY DEF IsLatest
  <2> QED
    BY <2>1, <2>2, <2>3, <2>4 DEF TopId, TopCounter, Counted
<1> SUFFICES ASSUME NEW p \in Places(old), ItemAt(old, p).id = <<n + 1>> PROVE FALSE
  BY <1>2 DEF IdsOf
<1>3. ParseTopID(ItemAt(old, p).id) = n + 1
  BY DEF ParseTopID
<1>4. CASE p[2] = 0
  <2>1. p[1] \in 1..Len(old) /\ ItemAt(old, p) = old[p[1]]
    BY <1>4, ItemsAre DEF ItemAt
  <2>2. ParseTopID(old[p[1]].id) <= n
    BY <1>1, <2>1
  <2> QED
    BY <1>3, <2>1, <2>2
<1>5. CASE p[2] # 0
  <2>1. ParseTopID(ItemAt(old, p).id) = 0
    BY <1>5 DEF WellKept, KeptItem
  <2> QED
    BY <1>3, <2>1
<1> QED
  BY <1>4, <1>5

\* What add_item is to do (TheItemItSaw).
AddMeans(old, new) ==
    /\ SubSeq(new, 1, Len(old)) = old
    /\ Len(new) = Len(old) + 1 /\ new[Len(new)].id \notin IdsOf(old)

LEMMA AddDoes ==
    ASSUME NEW old \in Seq(PlanItems), NEW v \in Nat, WellKept(old, v),
           NEW item \in PlanItems, IsLatest(item), NEW mid, mid = Append(old, item), Accepted(mid), NEW new, new = SavedList(mid, v + 1)
    PROVE  new \in Seq(PlanItems) /\ WellKept(new, v + 1) /\ AddMeans(old, new)
<1> DEFINE n == Len(old)
           end == <<n + 1, 0>>
<1>1. /\ mid \in Seq(PlanItems) /\ Len(mid) = n + 1 /\ n \in Nat
      /\ mid[n + 1] = item /\ \A i \in 1..n : mid[i] = old[i]
      /\ Places(mid) = Places(old) \cup {end}
      /\ \A p \in Places(old) : p[1] # n + 1 /\ ItemAt(mid, p) = ItemAt(old, p)
  <2>1. mid \in Seq(PlanItems) /\ Len(mid) = Len(old) + 1 /\ Len(old) \in Nat
    BY PlacesOfMore
  <2>2. mid[Len(old) + 1] = item /\ \A i \in 1..Len(old) : mid[i] = old[i]
    BY PlacesOfMore
  <2>3. Places(mid) = Places(old) \cup {<<Len(old) + 1, 0>>}
    BY PlacesOfMore
  <2>4. ASSUME NEW p \in Places(old) PROVE p[1] # Len(old) + 1 /\ ItemAt(mid, p) = ItemAt(old, p)
    <3>1. p[1] \in 1..Len(old)
      BY <2>4, ItemsAre
    <3>2. mid[p[1]] = old[p[1]]
      BY <2>2, <3>1
    <3> QED
      BY <2>1, <3>1, <3>2 DEF ItemAt
  <2> QED
    BY <2>1, <2>2, <2>3, <2>4
<1>2. v + 1 \in Nat /\ new \in Seq(PlanItems) /\ Len(new) = n + 1 /\ Places(new) = Places(old) \cup {end}
  <2>1. v + 1 \in Nat /\ mid \in Seq(PlanItems)
    BY <1>1
  <2> HIDE DEF n, end
  <2>2. SavedList(mid, v + 1) \in Seq(PlanItems) /\ Len(SavedList(mid, v + 1)) = Len(mid)
        /\ Places(SavedList(mid, v + 1)) = Places(mid)
    BY <2>1, SavedIs
  <2> QED
    BY <1>1, <2>1, <2>2
<1>3. ASSUME NEW p \in Places(old)
      PROVE  /\ ItemAt(new, p).id = ItemAt(old, p).id /\ ItemAt(new, p).was = ItemAt(old, p).was
             /\ ItemAt(new, p).state = ItemAt(old, p).state
             /\ p[2] # 0 => ItemAt(new, p).deep = ItemAt(old, p).deep
             /\ ItemAt(new, p).state \in Proper
  <2>1. KeptItem(old, p, v)
    BY DEF WellKept
  <2>2. ItemAt(old, p).id # <<>> /\ ItemAt(old, p).was # NewItem /\ ItemAt(old, p).state \in Proper
    BY <2>1, KeptOwners DEF KeptItem
  <2>3. p \in Places(mid) /\ ItemAt(mid, p) = ItemAt(old, p)
    BY <1>1
  <2>4. LET it == ItemAt(SavedList(mid, v + 1), p)
        IN  /\ it.id = ItemAt(mid, p).id /\ it.was = ItemAt(mid, p).was
            /\ it.state = Pending(ItemAt(mid, p).state)
            /\ p[2] # 0 => it.deep = ItemAt(mid, p).deep
    <3>1. ItemAt(mid, p).id # <<>> /\ ItemAt(mid, p).was # NewItem /\ v + 1 \in Nat /\ mid \in Seq(PlanItems)
      BY <1>1, <2>2, <2>3
    <3> QED
      BY <2>3, <3>1, SavedAlready
  <2>5. ItemAt(old, p).state # ""
    BY <2>2 DEF Proper
  <2> QED
    BY <2>2, <2>3, <2>4, <2>5 DEF Pending
<1>4. /\ ItemAt(new, end).id = TopId(mid, n + 1) /\ ItemAt(new, end).id # <<>>
      /\ ItemAt(new, end).was = <<v + 1, n + 1, 0>> /\ ItemAt(new, end).state \in Proper
  <2>1. SavedAt(mid, v + 1, end)
    BY <1>1, <1>2, SavedIs
  <2>2. end[1] = n + 1 /\ end[2] = 0 /\ ItemAt(mid, end) = item
    BY <1>1 DEF ItemAt
  <2>3. item.was = NewItem
    BY DEF IsLatest
  <2>4. Pending(item.state) \in Proper
    <3>1. end \in Places(mid) /\ mid \in Seq(PlanItems)
      BY <1>1
    <3>2. Pending(ItemAt(mid, end).state) \in Proper
      BY <3>1, AcceptedStates
    <3> QED
      BY <2>2, <3>2
  <2>5. ItemAt(AssignIDs(mid), end).id = TopId(mid, n + 1)
    <3>1. n + 1 \in 1..Len(mid)
      BY <1>1
    <3>2. AssignIDs(mid)[n + 1] = NumberedItem(mid, n + 1)
      BY <1>1, <3>1, NumbersFit
    <3>3. AssignIDs(mid)[n + 1].id = TopId(mid, n + 1)
      BY <3>2 DEF NumberedItem
    <3> QED
      BY <2>2, <3>3 DEF ItemAt
  <2> HIDE DEF end
  <2> QED
    BY <2>1, <2>2, <2>3, <2>4, <2>5 DEF SavedAt, OwnOf
<1>5. TopId(mid, n + 1) \notin IdsOf(old)
  BY NewIdIsFree
<1>6. \A p \in Places(old) : ItemAt(old, p).id # ItemAt(new, end).id /\ ItemAt(old, p).was # ItemAt(new, end).was
  <2> SUFFICES ASSUME NEW p \in Places(old)
               PROVE  ItemAt(old, p).id # ItemAt(new, end).id /\ ItemAt(old, p).was # ItemAt(new, end).was
    OBVIOUS
  <2>1. ItemAt(old, p).id \in IdsOf(old)
    BY DEF IdsOf
  <2>2. KeptItem(old, p, v)
    BY DEF WellKept
  <2>3. PICK m \in 0..v : \E i, j \in Nat : ItemAt(old, p).was = <<m, i, j>>
    BY <2>2 DEF KeptItem
  <2>4. m # v + 1
    OBVIOUS
  <2> HIDE DEF end, n
  <2> QED
    BY <1>4, <1>5, <2>1, <2>3, <2>4
<1>7. WellKept(new, v + 1)
  <2>1. Apart(new)
    <3> SUFFICES ASSUME NEW p \in Places(new), NEW q \in Places(new),
                        ItemAt(new, p).id = ItemAt(new, q).id \/ ItemAt(new, p).was = ItemAt(new, q).was
                 PROVE  p = q
      BY DEF Apart
    <3>1. CASE p \in Places(old) /\ q \in Places(old)
      BY <1>3, <3>1 DEF WellKept, Apart
    <3>2. CASE p \in Places(old) /\ q = end
      BY <1>3, <1>6, <3>2
    <3>3. CASE p = end /\ q \in Places(old)
      BY <1>3, <1>6, <3>3
    <3> HIDE DEF end
    <3> QED
      BY <1>2, <3>1, <3>2, <3>3
  <2>2. ASSUME NEW p \in Places(new) PROVE KeptItem(new, p, v + 1)
    <3>1. CASE p \in Places(old)
      <4>1. KeptItem(old, p, v)
        BY <3>1 DEF WellKept
      <4>2. PICK m \in 0..v : \E i, j \in Nat : ItemAt(old, p).was = <<m, i, j>>
        BY <4>1 DEF KeptItem
      <4>3. m \in 0..v + 1
        OBVIOUS
      <4> QED
        BY <1>3, <3>1, <4>1, <4>2, <4>3 DEF KeptItem
    <3>2. CASE p = end
      <4>1. v + 1 \in 0..v + 1 /\ n + 1 \in Nat /\ 0 \in Nat /\ end[2] = 0
        BY <1>1, <1>2
      <4> HIDE DEF end, n
      <4> QED
        BY <1>4, <3>2, <4>1 DEF KeptItem
    <3> HIDE DEF end
    <3> QED
      BY <1>2, <3>1, <3>2
  <2> QED
    BY <2>1, <2>2 DEF WellKept
<1>8. ASSUME NEW i \in 1..n PROVE new[i] = old[i]
  <2>1. <<i, 0>> \in Places(old) /\ i \in 1..Len(new) /\ \A j \in 1..Len(old[i].sub) : <<i, j>> \in Places(old)
    BY <1>1, <1>2, PlacesAre, AnItemIs
  <2>2. new[i].id = old[i].id /\ new[i].was = old[i].was /\ new[i].state = old[i].state
    BY <1>3, <2>1 DEF ItemAt
  <2>3. ASSUME NEW j \in 1..Len(old[i].sub)
        PROVE  /\ new[i].sub[j].id = old[i].sub[j].id /\ new[i].sub[j].was = old[i].sub[j].was
               /\ new[i].sub[j].state = old[i].sub[j].state /\ new[i].sub[j].deep = old[i].sub[j].deep
    <3>1. <<i, j>> \in Places(old) /\ j # 0
      BY <2>1
    <3> QED
      BY <1>3, <3>1 DEF ItemAt
  <2>4. Len(new[i].sub) = Len(old[i].sub)
    <3>1. mid[i] = old[i] /\ i \in 1..Len(mid)
      BY <1>1
    <3>2. AssignIDs(mid) \in Seq(PlanItems) /\ Len(AssignIDs(mid)) = Len(mid) /\ Len(AssignIDs(mid)[i].sub) = Len(mid[i].sub)
      BY <1>1, <3>1, NumbersFit
    <3>3. v + 1 \in Nat /\ i \in 1..Len(AssignIDs(mid))
      BY <3>1, <3>2
    <3>4. Len(Identified(AssignIDs(mid), v + 1)[i].sub) = Len(AssignIDs(mid)[i].sub)
      BY <3>2, <3>3, PartsStay
    <3> QED
      BY <3>1, <3>2, <3>4 DEF SavedList
  <2>5. new[i] \in PlanItems /\ old[i] \in PlanItems
    BY <1>2, <2>1
  <2> QED
    BY <2>2, <2>3, <2>4, <2>5, SameItem
<1>9. AddMeans(old, new)
  <2>1. SubSeq(new, 1, n) \in Seq(PlanItems) /\ Len(SubSeq(new, 1, n)) = n /\ \A i \in 1..n : SubSeq(new, 1, n)[i] = new[i]
    BY <1>1, <1>2
  <2>2. SubSeq(new, 1, n) = old
    BY <1>8, <2>1, SeqEqual
  <2>3. new[Len(new)].id = ItemAt(new, end).id
    BY <1>2 DEF ItemAt
  <2> QED
    BY <1>2, <1>4, <1>5, <2>2, <2>3 DEF AddMeans
<1> QED
  BY <1>2, <1>7, <1>9

-----------------------------------------------------------------------------
(***************************************************************************)
(* remove_item.                                                            *)
(***************************************************************************)
Skip(k, i) == IF i < k THEN i ELSE i + 1

LEMMA WithoutIs ==
    ASSUME NEW T, NEW s \in Seq(T), NEW k \in 1..Len(s)
    PROVE  /\ Without(s, k) \in Seq(T) /\ Len(Without(s, k)) = Len(s) - 1
           /\ \A i \in 1..Len(s) - 1 : Without(s, k)[i] = s[Skip(k, i)] /\ Skip(k, i) \in 1..Len(s)
<1> DEFINE front == SubSeq(s, 1, k - 1)
           back == SubSeq(s, k + 1, Len(s))
<1>1. Len(s) \in Nat /\ k \in Nat
  OBVIOUS
<1>2. front \in Seq(T) /\ Len(front) = k - 1 /\ \A i \in 1..k - 1 : front[i] = s[i]
  OBVIOUS
<1>3. back \in Seq(T) /\ Len(back) = Len(s) - k /\ \A i \in 1..Len(s) - k : back[i] = s[k + i]
  OBVIOUS
<1>4. Without(s, k) = front \o back
  BY DEF Without
<1> HIDE DEF front, back
<1>5. Without(s, k) \in Seq(T) /\ Len(Without(s, k)) = Len(s) - 1
  <2>1. front \o back \in Seq(T) /\ Len(front \o back) = Len(front) + Len(back)
    BY <1>2, <1>3
  <2> QED
    BY <1>1, <1>2, <1>3, <1>4, <2>1
<1>6. ASSUME NEW i \in 1..Len(s) - 1
      PROVE  Without(s, k)[i] = s[Skip(k, i)] /\ Skip(k, i) \in 1..Len(s)
  <2>1. CASE i < k
    <3>1. i \in 1..k - 1 /\ i \in 1..Len(front)
      BY <1>1, <1>2, <2>1
    <3>2. (front \o back)[i] = front[i]
      BY <1>2, <1>3, <3>1
    <3> QED
      BY <1>1, <1>2, <1>4, <2>1, <3>1, <3>2 DEF Skip
  <2>2. CASE ~(i < k)
    <3>1. i - (k - 1) \in 1..Len(back) /\ i = Len(front) + (i - (k - 1)) /\ k + (i - (k - 1)) = i + 1
      BY <1>1, <1>2, <1>3, <2>2
    <3>2. (front \o back)[i] = back[i - (k - 1)]
      BY <1>1, <1>2, <1>3, <3>1
    <3>3. back[i - (k - 1)] = s[i + 1]
      BY <1>1, <1>3, <3>1
    <3>4. i + 1 \in 1..Len(s)
      BY <1>1
    <3> QED
      BY <1>4, <2>2, <3>2, <3>3, <3>4 DEF Skip
  <2> QED
    BY <2>1, <2>2
<1> QED
  BY <1>5, <1>6

LEMMA SkipIs ==
    ASSUME NEW n \in Nat, NEW k \in 1..n
    PROVE  /\ \A i \in 0..n - 1 : Skip(k, i) \in 0..n /\ Skip(k, i) # k /\ (Skip(k, i) = 0 <=> i = 0)
           /\ \A i, j \in 0..n - 1 : Skip(k, i) = Skip(k, j) => i = j
           /\ \A m \in 0..n : m # k => \E i \in 0..n - 1 : Skip(k, i) = m /\ (i = 0 <=> m = 0)
<1>1. \A i \in 0..n - 1 : Skip(k, i) \in 0..n /\ Skip(k, i) # k /\ (Skip(k, i) = 0 <=> i = 0)
  BY DEF Skip
<1>2. \A i, j \in 0..n - 1 : Skip(k, i) = Skip(k, j) => i = j
  BY DEF Skip
<1>3. ASSUME NEW m \in 0..n, m # k PROVE \E i \in 0..n - 1 : Skip(k, i) = m /\ (i = 0 <=> m = 0)
  <2>1. CASE m < k
    <3>1. m \in 0..n - 1 /\ Skip(k, m) = m
      BY <2>1 DEF Skip
    <3> QED
      BY <3>1
  <2>2. CASE m > k
    <3>1. m - 1 \in 0..n - 1 /\ Skip(k, m - 1) = m /\ m - 1 # 0 /\ m # 0
      BY <2>2 DEF Skip
    <3> QED
      BY <3>1
  <2> QED
    BY <1>3, <2>1, <2>2
<1> QED
  BY <1>1, <1>2, <1>3

\* What is left, and where it was: all but the place and what is under it.
LeavesOut(e, place, new, old) ==
    /\ new \in Seq(PlanItems) /\ Carried(e, new, old)
    /\ \A p \in Places(new) : e[p] # place /\ ItemAt(new, p).state = ItemAt(old, e[p]).state
    /\ \A q \in Places(old) :
         \/ q = place \/ (place[2] = 0 /\ q[1] = place[1])
         \/ \E p \in Places(new) : e[p] = q

LEMMA RemoveAnItem ==
    ASSUME NEW old \in Seq(PlanItems), NEW k \in 1..Len(old), NEW new, new = Without(old, k)
    PROVE  \E e : LeavesOut(e, <<k, 0>>, new, old)
<1> DEFINE e == [p \in Places(new) |-> <<Skip(k, p[1]), p[2]>>]
<1>1. Len(old) \in Nat /\ new \in Seq(PlanItems) /\ Len(new) = Len(old) - 1
      /\ \A i \in 1..Len(new) : new[i] = old[Skip(k, i)] /\ Skip(k, i) \in 1..Len(old)
  <2>1. /\ Without(old, k) \in Seq(PlanItems) /\ Len(Without(old, k)) = Len(old) - 1
        /\ \A i \in 1..Len(old) - 1 : Without(old, k)[i] = old[Skip(k, i)] /\ Skip(k, i) \in 1..Len(old)
    BY WithoutIs
  <2> QED
    BY <2>1
<1>2. /\ \A i \in 1..Len(new) : Skip(k, i) # k
      /\ \A i, j \in 1..Len(new) : Skip(k, i) = Skip(k, j) => i = j
      /\ \A m \in 1..Len(old) : m # k => \E i \in 1..Len(new) : Skip(k, i) = m
  <2> DEFINE n == Len(old)
  <2>1. n \in Nat /\ k \in 1..n /\ Len(new) = n - 1
    BY <1>1
  <2> HIDE DEF n
  <2>2. /\ \A i \in 0..n - 1 : Skip(k, i) \in 0..n /\ Skip(k, i) # k /\ (Skip(k, i) = 0 <=> i = 0)
        /\ \A i, j \in 0..n - 1 : Skip(k, i) = Skip(k, j) => i = j
        /\ \A m \in 0..n : m # k => \E i \in 0..n - 1 : Skip(k, i) = m /\ (i = 0 <=> m = 0)
    BY <2>1, SkipIs
  <2>3. /\ \A i \in 1..n - 1 : Skip(k, i) # k
        /\ \A i, j \in 1..n - 1 : Skip(k, i) = Skip(k, j) => i = j
    BY <2>1, <2>2
  <2>4. ASSUME NEW m \in 1..n, m # k PROVE \E i \in 1..n - 1 : Skip(k, i) = m
    <3>1. m \in 0..n /\ m # 0
      BY <2>1
    <3>2. PICK i \in 0..n - 1 : Skip(k, i) = m /\ (i = 0 <=> m = 0)
      BY <2>2, <2>4, <3>1
    <3> QED
      BY <3>1, <3>2
  <2> QED
    BY <2>1, <2>3, <2>4 DEF n
<1>3. ASSUME NEW p \in Places(new)
      PROVE  /\ e[p] = <<Skip(k, p[1]), p[2]>> /\ e[p] \in Places(old) /\ e[p][1] # k
             /\ p[1] \in 1..Len(new) /\ p = <<p[1], p[2]>> /\ e[p][2] = p[2]
             /\ ItemAt(new, p) = ItemAt(old, e[p])
  <2>1. p[1] \in 1..Len(new) /\ p[2] \in 0..Len(new[p[1]].sub) /\ p = <<p[1], p[2]>>
    BY <1>1, ItemsAre
  <2>2. new[p[1]] = old[Skip(k, p[1])] /\ Skip(k, p[1]) \in 1..Len(old) /\ Skip(k, p[1]) # k
    BY <1>1, <1>2, <2>1
  <2>3. <<Skip(k, p[1]), p[2]>> \in Places(old)
    BY <2>1, <2>2, PlacesAre
  <2>4. e[p] = <<Skip(k, p[1]), p[2]>>
    OBVIOUS
  <2> HIDE DEF e
  <2> QED
    BY <2>1, <2>2, <2>3, <2>4 DEF ItemAt
<1> HIDE DEF e
<1>4. Carried(e, new, old)
  <2>1. \A p, q \in Places(new) : e[p] = e[q] => p = q
    <3> SUFFICES ASSUME NEW p \in Places(new), NEW q \in Places(new), e[p] = e[q] PROVE p = q
      OBVIOUS
    <3>1. Skip(k, p[1]) = Skip(k, q[1]) /\ p[2] = q[2] /\ p[1] \in 1..Len(new) /\ q[1] \in 1..Len(new)
          /\ p = <<p[1], p[2]>> /\ q = <<q[1], q[2]>>
      BY <1>3
    <3>2. p[1] = q[1]
      BY <1>2, <3>1
    <3> QED
      BY <3>1, <3>2
  <2> QED
    BY <1>3, <2>1 DEF Carried
<1>5. \A p \in Places(new) : e[p] # <<k, 0>> /\ ItemAt(new, p).state = ItemAt(old, e[p]).state
  BY <1>3
<1>6. ASSUME NEW q \in Places(old), q[1] # k PROVE \E p \in Places(new) : e[p] = q
  <2>1. q[1] \in 1..Len(old) /\ q[2] \in 0..Len(old[q[1]].sub) /\ q = <<q[1], q[2]>>
    BY ItemsAre
  <2>2. PICK i \in 1..Len(new) : Skip(k, i) = q[1]
    BY <1>2, <1>6, <2>1
  <2>3. new[i] = old[q[1]]
    BY <1>1, <2>2
  <2>4. <<i, q[2]>> \in Places(new)
    BY <1>1, <2>1, <2>3, PlacesAre
  <2>5. e[<<i, q[2]>>] = <<Skip(k, i), q[2]>>
    BY <1>3, <2>4
  <2> QED
    BY <2>1, <2>2, <2>4, <2>5
<1>7. LeavesOut(e, <<k, 0>>, new, old)
  BY <1>1, <1>4, <1>5, <1>6 DEF LeavesOut
<1> QED
  BY <1>7

LEMMA RemoveAPart ==
    ASSUME NEW old \in Seq(PlanItems), NEW k \in 1..Len(old), NEW n \in 1..Len(old[k].sub),
           NEW new, new = [old EXCEPT ![k].sub = Without(@, n)]
    PROVE  \E e : LeavesOut(e, <<k, n>>, new, old)
<1> DEFINE subs == old[k].sub
           less == Without(subs, n)
           it == [old[k] EXCEPT !.sub = less]
           to(p) == <<p[1], IF p[1] = k THEN Skip(n, p[2]) ELSE p[2]>>
           e == [p \in Places(new) |-> to(p)]
<1>1. old[k] \in PlanItems /\ subs \in Seq(PlanParts) /\ Len(subs) \in Nat /\ n \in 1..Len(subs)
  BY AnItemIs
<1>2. less \in Seq(PlanParts) /\ Len(less) = Len(subs) - 1
      /\ \A j \in 1..Len(less) : less[j] = subs[Skip(n, j)] /\ Skip(n, j) \in 1..Len(subs)
  BY <1>1, WithoutIs
<1>3. new = [old EXCEPT ![k] = it]
  OBVIOUS
<1> HIDE DEF less, subs
<1>4. it \in PlanItems /\ it.id = old[k].id /\ it.was = old[k].was /\ it.sub = less /\ it.state = old[k].state
  BY <1>1, <1>2, PartsPut
<1> HIDE DEF it
<1>5. new \in Seq(PlanItems) /\ Len(new) = Len(old) /\ \A i \in 1..Len(old) : new[i] = IF i = k THEN it ELSE old[i]
  BY <1>3, <1>4
<1>6. /\ \A j \in 0..Len(less) : Skip(n, j) \in 0..Len(subs) /\ Skip(n, j) # n /\ (Skip(n, j) = 0 <=> j = 0)
      /\ \A i, j \in 0..Len(less) : Skip(n, i) = Skip(n, j) => i = j
      /\ \A m \in 0..Len(subs) : m # n => \E j \in 0..Len(less) : Skip(n, j) = m /\ (j = 0 <=> m = 0)
  <2> DEFINE l == Len(subs)
  <2>1. l \in Nat /\ n \in 1..l /\ Len(less) = l - 1
    BY <1>1, <1>2
  <2> HIDE DEF l
  <2>2. /\ \A j \in 0..l - 1 : Skip(n, j) \in 0..l /\ Skip(n, j) # n /\ (Skip(n, j) = 0 <=> j = 0)
        /\ \A i, j \in 0..l - 1 : Skip(n, i) = Skip(n, j) => i = j
        /\ \A m \in 0..l : m # n => \E j \in 0..l - 1 : Skip(n, j) = m /\ (j = 0 <=> m = 0)
    BY <2>1, SkipIs
  <2> QED
    BY <2>1, <2>2 DEF l
<1>7. ASSUME NEW p \in Places(new)
      PROVE  /\ p[1] \in 1..Len(old) /\ p = <<p[1], p[2]>> /\ (p[1] = k => p[2] \in 0..Len(less))
             /\ e[p] = to(p) /\ to(p) \in Places(old) /\ to(p) # <<k, n>> /\ (p[2] = 0 <=> to(p)[2] = 0)
             /\ ItemAt(new, p).id = ItemAt(old, to(p)).id /\ ItemAt(new, p).was = ItemAt(old, to(p)).was
             /\ ItemAt(new, p).state = ItemAt(old, to(p)).state
             /\ p[2] # 0 => ItemAt(new, p).deep = ItemAt(old, to(p)).deep
  <2>1. p[1] \in 1..Len(new) /\ p[2] \in 0..Len(new[p[1]].sub) /\ p = <<p[1], p[2]>>
    BY <1>5, ItemsAre
  <2>2. e[p] = to(p)
    OBVIOUS
  <2>3. CASE p[1] = k
    <3>1. new[k] = it /\ to(p) = <<k, Skip(n, p[2])>> /\ p[2] \in 0..Len(less)
      BY <1>4, <1>5, <2>1, <2>3
    <3>2. Skip(n, p[2]) \in 0..Len(subs) /\ Skip(n, p[2]) # n /\ (Skip(n, p[2]) = 0 <=> p[2] = 0)
      BY <1>6, <3>1
    <3>3. to(p) \in Places(old)
      BY <3>1, <3>2, PlacesAre DEF subs
    <3>4. CASE p[2] = 0
      BY <1>4, <2>1, <2>2, <2>3, <3>1, <3>2, <3>3, <3>4 DEF ItemAt
    <3>5. CASE p[2] # 0
      <4>1. p[2] \in 1..Len(less)
        BY <1>1, <1>2, <3>1, <3>5
      <4>2. less[p[2]] = subs[Skip(n, p[2])]
        BY <1>2, <4>1
      <4>3. ItemAt(new, p) = less[p[2]] /\ ItemAt(old, to(p)) = subs[Skip(n, p[2])]
        BY <1>4, <2>3, <3>1, <3>2, <3>5 DEF ItemAt, subs
      <4> QED
        BY <2>1, <2>2, <2>3, <3>1, <3>2, <3>3, <4>2, <4>3, <1>5
    <3> QED
      BY <3>4, <3>5
  <2>4. CASE p[1] # k
    <3>1. to(p) = p /\ new[p[1]] = old[p[1]]
      BY <1>5, <2>1, <2>4
    <3>2. p \in Places(old)
      <4>1. p[1] \in 1..Len(old) /\ p[2] \in 0..Len(old[p[1]].sub)
        BY <1>5, <2>1, <3>1
      <4>2. <<p[1], p[2]>> \in Places(old)
        BY <4>1, PlacesAre
      <4> QED
        BY <2>1, <4>2
    <3> QED
      BY <1>5, <2>1, <2>2, <2>4, <3>1, <3>2, SMTT(30) DEF ItemAt
  <2> QED
    BY <2>3, <2>4
<1>8. ASSUME NEW p \in Places(new), NEW q \in Places(new), e[p] = e[q] PROVE p = q
  <2>1. to(p) = to(q) /\ p = <<p[1], p[2]>> /\ q = <<q[1], q[2]>>
    BY <1>7, <1>8
  <2>2. p[1] = q[1]
    BY <2>1
  <2>3. CASE p[1] = k
    <3>1. Skip(n, p[2]) = Skip(n, q[2]) /\ p[2] \in 0..Len(less) /\ q[2] \in 0..Len(less)
      BY <1>7, <2>1, <2>2, <2>3
    <3>2. p[2] = q[2]
      BY <1>6, <3>1
    <3> QED
      BY <2>1, <2>2, <3>2
  <2>4. CASE p[1] # k
    BY <2>1, <2>2, <2>4
  <2> QED
    BY <2>3, <2>4
<1>9. ASSUME NEW q \in Places(old), q # <<k, n>> PROVE \E p \in Places(new) : e[p] = q
  <2>1. q[1] \in 1..Len(old) /\ q[2] \in 0..Len(old[q[1]].sub) /\ q = <<q[1], q[2]>>
    BY ItemsAre
  <2>2. CASE q[1] = k
    <3>1. q[2] # n /\ q[2] \in 0..Len(subs)
      BY <1>9, <2>1, <2>2 DEF subs
    <3>2. PICK j \in 0..Len(less) : Skip(n, j) = q[2]
      BY <1>6, <3>1
    <3>3. <<k, j>> \in Places(new)
      BY <1>4, <1>5, PlacesAre
    <3>4. e[<<k, j>>] = <<k, q[2]>>
      BY <1>7, <3>2, <3>3
    <3> QED
      BY <2>1, <2>2, <3>3, <3>4
  <2>3. CASE q[1] # k
    <3>1. new[q[1]] = old[q[1]]
      BY <1>5, <2>1, <2>3
    <3>2. q \in Places(new)
      <4>1. q[1] \in 1..Len(new) /\ q[2] \in 0..Len(new[q[1]].sub)
        BY <1>5, <2>1, <3>1
      <4>2. <<q[1], q[2]>> \in Places(new)
        BY <1>5, <4>1, PlacesAre
      <4> QED
        BY <2>1, <4>2
    <3>3. e[q] = q
      BY <1>7, <2>1, <2>3, <3>2
    <3> QED
      BY <3>2, <3>3
  <2> QED
    BY <2>2, <2>3
<1> HIDE DEF e, to
<1>10. Carried(e, new, old)
  <2>1. ASSUME NEW p \in Places(new)
        PROVE  /\ e[p] \in Places(old)
               /\ ItemAt(new, p).id = ItemAt(old, e[p]).id /\ ItemAt(new, p).was = ItemAt(old, e[p]).was
               /\ p[2] = 0 <=> e[p][2] = 0
               /\ p[2] # 0 => ItemAt(new, p).deep = ItemAt(old, e[p]).deep
    <3>1. e[p] = to(p)
      BY <1>7
    <3> QED
      BY <1>7, <3>1
  <2> QED
    BY <1>8, <2>1 DEF Carried
<1>11. LeavesOut(e, <<k, n>>, new, old)
  <2>1. ASSUME NEW p \in Places(new)
        PROVE  e[p] # <<k, n>> /\ ItemAt(new, p).state = ItemAt(old, e[p]).state
    <3>1. e[p] = to(p)
      BY <1>7
    <3> QED
      BY <1>7, <3>1
  <2>2. \A q \in Places(old) : q = <<k, n>> \/ \E p \in Places(new) : e[p] = q
    BY <1>9, Zenon
  <2> QED
    BY <1>5, <1>10, <2>1, <2>2, Zenon DEF LeavesOut
<1> QED
  BY <1>11

LEMMA OneIs == ASSUME NEW T, NEW x \in T PROVE <<x>> \in Seq(T) /\ Len(<<x>>) = 1 /\ <<x>>[1] = x
OBVIOUS

LEMMA IsUnder ==
    ASSUME NEW old \in Seq(PlanItems), NEW q \in Places(old)
    PROVE  q[1] \in DOMAIN old /\ ItemAt(old, q).was \in Identities(<<old[q[1]]>>)
<1>1. q[1] \in 1..Len(old) /\ q[2] \in 0..Len(old[q[1]].sub) /\ q = <<q[1], q[2]>>
  BY ItemsAre
<1>2. PICK one \in Seq(PlanItems) : one = <<old[q[1]]>> /\ Len(one) = 1 /\ one[1] = old[q[1]]
  <2>1. old[q[1]] \in PlanItems
    BY <1>1
  <2> QED
    BY <2>1, OneIs
<1> DEFINE p == <<1, q[2]>>
<1>3. p[1] = 1 /\ p[2] = q[2] /\ p = <<1, q[2]>>
  OBVIOUS
<1> HIDE DEF p
<1>4. p \in Places(one)
  <2>1. 1 \in 1..Len(one) /\ q[2] \in 0..Len(one[1].sub)
    BY <1>1, <1>2
  <2> QED
    BY <1>3, <2>1, PlacesAre
<1>5. ItemAt(one, p) = ItemAt(old, q)
  BY <1>2, <1>3 DEF ItemAt
<1> QED
  BY <1>1, <1>2, <1>4, <1>5 DEF Identities

LEMMA RemoveLeaves ==
    ASSUME NEW old \in Seq(PlanItems), NEW place \in Places(old), NEW mid, mid = RemoveItem(old, place)
    PROVE  \E e : LeavesOut(e, place, mid, old)
<1>1. place[1] \in 1..Len(old) /\ place[2] \in 0..Len(old[place[1]].sub) /\ place = <<place[1], place[2]>>
  BY ItemsAre
<1>2. CASE place[2] = 0
  <2>1. mid = Without(old, place[1])
    BY <1>2 DEF RemoveItem
  <2>2. \E e : LeavesOut(e, <<place[1], 0>>, mid, old)
    BY <1>1, <2>1, RemoveAnItem
  <2> QED
    BY <1>1, <1>2, <2>2
<1>3. CASE place[2] # 0
  <2>1. mid = [old EXCEPT ![place[1]].sub = Without(@, place[2])]
    BY <1>3 DEF RemoveItem
  <2>2. place[2] \in 1..Len(old[place[1]].sub)
    BY <1>1, <1>3, AnItemIs
  <2>3. \E e : LeavesOut(e, <<place[1], place[2]>>, mid, old)
    BY <1>1, <2>1, <2>2, RemoveAPart
  <2> QED
    BY <1>1, <2>3
<1> QED
  BY <1>2, <1>3

\* What remove_item is to do (TheItemItSaw).
RemoveMeans(meant, old, new) ==
    /\ meant \in Identities(old) \ Identities(new)
    /\ IdsOf(new) \subseteq IdsOf(old)
    /\ \A x \in Identities(old) \ Identities(new) :
          x = meant \/ \E i \in DOMAIN old : old[i].was = meant /\ x \in Identities(<<old[i]>>)
    /\ \A x \in Identities(new) : x \in Identities(old) /\ StateOf(new, x) = StateOf(old, x)

LEMMA RemoveDoes ==
    ASSUME NEW old \in Seq(PlanItems), NEW v \in Nat, WellKept(old, v), NEW place \in Places(old),
           NEW mid, mid = RemoveItem(old, place), Accepted(mid), NEW new, new = SavedList(mid, v + 1)
    PROVE  new \in Seq(PlanItems) /\ WellKept(new, v + 1) /\ RemoveMeans(ItemAt(old, place).was, old, new)
<1> DEFINE meant == ItemAt(old, place).was
<1>1. PICK e : LeavesOut(e, place, mid, old)
  BY RemoveLeaves
<1>2. mid \in Seq(PlanItems) /\ Carried(e, mid, old)
  BY <1>1 DEF LeavesOut
<1>3. v + 1 \in Nat /\ new \in Seq(PlanItems) /\ Places(new) = Places(mid)
  BY <1>2, SavedIs
<1>4. ASSUME NEW p \in Places(new)
      PROVE  /\ e[p] \in Places(old) /\ e[p] # place /\ (p[2] = 0 <=> e[p][2] = 0)
             /\ ItemAt(new, p).id = ItemAt(old, e[p]).id /\ ItemAt(new, p).was = ItemAt(old, e[p]).was
             /\ ItemAt(new, p).state = ItemAt(old, e[p]).state
             /\ p[2] # 0 => ItemAt(new, p).deep = ItemAt(old, e[p]).deep
             /\ ItemAt(new, p).state \in Proper
  <2>0. p \in Places(mid)
    BY <1>3
  <2>1. /\ e[p] \in Places(old) /\ e[p] # place /\ (p[2] = 0 <=> e[p][2] = 0)
        /\ ItemAt(mid, p).id = ItemAt(old, e[p]).id /\ ItemAt(mid, p).was = ItemAt(old, e[p]).was
        /\ ItemAt(mid, p).state = ItemAt(old, e[p]).state
        /\ p[2] # 0 => ItemAt(mid, p).deep = ItemAt(old, e[p]).deep
    BY <1>1, <2>0 DEF LeavesOut, Carried
  <2>2. KeptItem(old, e[p], v)
    BY <2>1 DEF WellKept
  <2>3. ItemAt(old, e[p]).id # <<>> /\ ItemAt(old, e[p]).was # NewItem /\ ItemAt(old, e[p]).state \in Proper
    BY <2>2, KeptOwners DEF KeptItem
  <2>4. ItemAt(mid, p).id # <<>> /\ ItemAt(mid, p).was # NewItem
    BY <2>1, <2>3
  <2>5. LET it == ItemAt(SavedList(mid, v + 1), p)
        IN  /\ it.id = ItemAt(mid, p).id /\ it.was = ItemAt(mid, p).was
            /\ it.state = Pending(ItemAt(mid, p).state)
            /\ p[2] # 0 => it.deep = ItemAt(mid, p).deep
    BY <1>2, <1>3, <2>0, <2>4, SavedAlready
  <2>6. Pending(ItemAt(mid, p).state) = ItemAt(mid, p).state
    BY <2>1, <2>3 DEF Pending, Proper
  <2> QED
    BY <2>1, <2>3, <2>5, <2>6
<1>5. \A p, q \in Places(new) : e[p] = e[q] => p = q
  BY <1>2, <1>3 DEF Carried
<1>6. ASSUME NEW q \in Places(old), q # place, ~(place[2] = 0 /\ q[1] = place[1])
      PROVE  \E p \in Places(new) : e[p] = q
  BY <1>1, <1>3, <1>6 DEF LeavesOut
<1>7. WellKept(new, v + 1)
  <2>1. Carried(e, new, old)
    BY <1>4, <1>5 DEF Carried
  <2>2. v <= v + 1 /\ \A p \in Places(new) : ItemAt(new, p).state \in Proper
    BY <1>4
  <2> QED
    BY <1>3, <2>1, <2>2, CarriedKeeps
<1>8. Apart(old) /\ Apart(new)
  BY <1>7 DEF WellKept
<1>9. meant \in Identities(old) \ Identities(new)
  <2>1. \A p \in Places(new) : ItemAt(new, p).was # meant
    BY <1>4, <1>8 DEF Apart
  <2> QED
    BY <2>1 DEF Identities
<1>10. IdsOf(new) \subseteq IdsOf(old)
  BY <1>4 DEF IdsOf
<1>11. ASSUME NEW x \in Identities(old) \ Identities(new)
       PROVE  x = meant \/ \E i \in DOMAIN old : old[i].was = meant /\ x \in Identities(<<old[i]>>)
  <2>1. PICK q \in Places(old) : x = ItemAt(old, q).was
    BY DEF Identities
  <2>2. CASE q = place
    BY <2>1, <2>2
  <2>3. CASE place[2] = 0 /\ q[1] = place[1]
    <3>1. old[q[1]].was = meant
      BY <2>3 DEF ItemAt
    <3> QED
      BY <2>1, <3>1, IsUnder
  <2>4. CASE q # place /\ ~(place[2] = 0 /\ q[1] = place[1])
    <3>1. PICK p \in Places(new) : e[p] = q
      BY <1>6, <2>4
    <3>2. x = ItemAt(new, p).was
      BY <1>4, <2>1, <3>1
    <3> QED
      BY <3>2 DEF Identities
  <2> QED
    BY <2>2, <2>3, <2>4
<1>12. ASSUME NEW x \in Identities(new) PROVE x \in Identities(old) /\ StateOf(new, x) = StateOf(old, x)
  <2>1. PICK p \in Places(new) : x = ItemAt(new, p).was
    BY DEF Identities
  <2>2. e[p] \in Places(old) /\ x = ItemAt(old, e[p]).was /\ ItemAt(new, p).state = ItemAt(old, e[p]).state
    BY <1>4, <2>1
  <2>3. StateOf(new, x) = ItemAt(new, p).state /\ StateOf(old, x) = ItemAt(old, e[p]).state
    BY <1>8, <2>1, <2>2, StateIs
  <2> QED
    BY <2>2, <2>3 DEF Identities
<1> QED
  BY <1>3, <1>7, <1>9, <1>10, <1>11, <1>12 DEF RemoveMeans

-----------------------------------------------------------------------------
(***************************************************************************)
(* set.                                                                    *)
(***************************************************************************)
LEMMA FirstIs ==
    ASSUME NEW list \in Seq(PlanItems), NEW S, S \subseteq Places(list), S # {}
    PROVE  FirstOf(S) \in S
<1>1. \A p \in S : p[1] \in Nat /\ p[2] \in Nat
  <2> SUFFICES ASSUME NEW p \in S PROVE p[1] \in Nat /\ p[2] \in Nat
    OBVIOUS
  <2>1. p[1] \in 1..Len(list) /\ p[2] \in 0..Len(list[p[1]].sub)
    BY ItemsAre
  <2> QED
    BY <2>1
<1>2. PICK p \in S : \A q \in S : p[1] <= q[1]
  <2> DEFINE A == {q[1] : q \in S}
  <2>1. A \subseteq Nat /\ A # {}
    BY <1>1
  <2> HIDE DEF A
  <2>2. PICK n \in A : \A m \in A : n <= m
    BY <2>1, Counts!Least
  <2> QED
    BY <2>2 DEF A
<1>3. PICK f \in S : f[1] = p[1] /\ \A q \in S : q[1] = p[1] => f[2] <= q[2]
  <2> DEFINE B == {q[2] : q \in {x \in S : x[1] = p[1]}}
  <2>1. B \subseteq Nat /\ B # {}
    BY <1>1
  <2>2. \A q \in S : q[1] = p[1] => q[2] \in B
    OBVIOUS
  <2>3. \A m \in B : \E q \in S : q[1] = p[1] /\ q[2] = m
    OBVIOUS
  <2> HIDE DEF B
  <2>4. PICK n \in B : \A m \in B : n <= m
    BY <2>1, Counts!Least
  <2> QED
    BY <2>2, <2>3, <2>4
<1>4. \A q \in S : f[1] < q[1] \/ (f[1] = q[1] /\ f[2] <= q[2])
  <2> SUFFICES ASSUME NEW q \in S PROVE f[1] < q[1] \/ (f[1] = q[1] /\ f[2] <= q[2])
    OBVIOUS
  <2>1. f[1] \in Nat /\ q[1] \in Nat /\ f[1] <= q[1]
    BY <1>1, <1>2, <1>3
  <2>2. f[1] = q[1] => f[2] <= q[2]
    BY <1>3
  <2> QED
    BY <2>1, <2>2
<1> QED
  BY <1>4 DEF FirstOf

\* An item of a set list is new, or an item of the old list with its id.
Known(old, id, was) ==
    \/ was = NewItem
    \/ id # <<>> /\ \E q \in Places(old) : ItemAt(old, q).id = id /\ ItemAt(old, q).was = was

LEMMA IdentityIs ==
    ASSUME NEW r, NEW old \in Seq(PlanItems), old = listing[r].items, NEW id
    PROVE  IdentityOf(r, id) \in Owners /\ Known(old, id, IdentityOf(r, id))
<1> DEFINE known == PlacesOf(old, id)
<1>1. CASE id # <<>> /\ known # {}
  <2>1. known \subseteq Places(old) /\ \A p \in known : ItemAt(old, p).id = id
    BY DEF PlacesOf
  <2>2. IdentityOf(r, id) = ItemAt(old, FirstOf(known)).was
    BY <1>1 DEF IdentityOf
  <2> HIDE DEF known
  <2>3. FirstOf(known) \in known
    BY <1>1, <2>1, FirstIs
  <2>4. FirstOf(known) \in Places(old) /\ ItemAt(old, FirstOf(known)).id = id
    BY <2>1, <2>3
  <2>5. ItemAt(old, FirstOf(known)).was \in Owners
    BY <2>4, ItemsAre
  <2> QED
    BY <1>1, <2>2, <2>4, <2>5 DEF Known
<1>2. CASE ~(id # <<>> /\ known # {})
  <2>1. IdentityOf(r, id) = NewItem
    BY <1>2 DEF IdentityOf
  <2> QED
    BY <2>1 DEF Known, Owners
<1> QED
  BY <1>1, <1>2

SetParts == [id : Ids, state : STRING, deep : BOOLEAN]
SetItems == [id : Ids, state : STRING, sub : Seq(SetParts)]

\* How a list names what the agent saw: one item, and one of its parts.
PartSeen(r, it, j) ==
    [id |-> it.sub[j].id, was |-> IdentityOf(r, it.sub[j].id), state |-> it.sub[j].state, deep |-> it.sub[j].deep]
ItemSeen(r, it) ==
    [id |-> it.id, was |-> IdentityOf(r, it.id), state |-> it.state, sub |-> [j \in DOMAIN it.sub |-> PartSeen(r, it, j)]]

LEMMA SeenIs == ASSUME NEW r, NEW list PROVE Recognised(r, list) = [i \in DOMAIN list |-> ItemSeen(r, list[i])]
BY DEF Recognised, ItemSeen, PartSeen

LEMMA ItemSeenIs ==
    ASSUME NEW r, NEW old \in Seq(PlanItems), old = listing[r].items, NEW it \in SetItems
    PROVE  LET x == ItemSeen(r, it)
           IN  /\ x \in PlanItems /\ Known(old, x.id, x.was) /\ Len(x.sub) = Len(it.sub)
               /\ \A j \in 1..Len(it.sub) : x.sub[j].id = it.sub[j].id /\ Known(old, x.sub[j].id, x.sub[j].was)
<1> DEFINE n == Len(it.sub)
           s == [j \in DOMAIN it.sub |-> PartSeen(r, it, j)]
<1>1. n \in Nat /\ DOMAIN it.sub = 1..n /\ \A j \in 1..n : it.sub[j] \in SetParts
  BY DEF SetItems
<1>2. ASSUME NEW j \in 1..n
      PROVE  /\ PartSeen(r, it, j) \in PlanParts /\ PartSeen(r, it, j).id = it.sub[j].id
             /\ Known(old, PartSeen(r, it, j).id, PartSeen(r, it, j).was)
  <2>1. it.sub[j].id \in Ids /\ it.sub[j].state \in STRING /\ it.sub[j].deep \in BOOLEAN
    BY <1>1 DEF SetParts
  <2>2. it.sub[j].state \in Statuses
    BY <2>1 DEF Statuses
  <2>3. IdentityOf(r, it.sub[j].id) \in Owners /\ Known(old, it.sub[j].id, IdentityOf(r, it.sub[j].id))
    BY IdentityIs
  <2> QED
    BY <2>1, <2>2, <2>3 DEF PartSeen, PlanParts
<1>3. DOMAIN s = 1..n /\ s = [j \in 1..n |-> s[j]] /\ \A j \in 1..n : s[j] = PartSeen(r, it, j)
  BY <1>1
<1>4. s \in Seq(PlanParts) /\ Len(s) = n
  <2>1. \A j \in 1..n : s[j] \in PlanParts
    BY <1>2, <1>3
  <2> HIDE DEF s, n
  <2> QED
    BY <1>1, <1>3, <2>1, ASequenceIs
<1>5. it.id \in Ids /\ it.state \in Statuses /\ IdentityOf(r, it.id) \in Owners /\ Known(old, it.id, IdentityOf(r, it.id))
  BY IdentityIs DEF SetItems, Statuses
<1>6. /\ ItemSeen(r, it) = [id |-> it.id, was |-> IdentityOf(r, it.id), state |-> it.state, sub |-> s]
  BY DEF ItemSeen
<1> HIDE DEF s
<1>7. ItemSeen(r, it) \in PlanItems /\ ItemSeen(r, it).sub = s
      /\ ItemSeen(r, it).id = it.id /\ ItemSeen(r, it).was = IdentityOf(r, it.id)
  BY <1>4, <1>5, <1>6 DEF PlanItems
<1> QED
  BY <1>2, <1>3, <1>4, <1>5, <1>7

LEMMA ListsAreSet == ASSUME NEW list \in ItemLists PROVE list \in Seq(SetItems)
BY AgentPlanAssumption DEF SetItems, SetParts

LEMMA RecognisedIs ==
    ASSUME NEW r, NEW old \in Seq(PlanItems), old = listing[r].items, NEW list \in Seq(SetItems)
    PROVE  LET rec == Recognised(r, list)
           IN  /\ rec \in Seq(PlanItems)
               /\ \A p \in Places(rec) :
                    /\ Known(old, ItemAt(rec, p).id, ItemAt(rec, p).was)
                    /\ p[2] # 0 => /\ p[1] \in DOMAIN list /\ p[2] \in DOMAIN list[p[1]].sub
                                   /\ ItemAt(rec, p).id = list[p[1]].sub[p[2]].id
<1> DEFINE n == Len(list)
           rec == Recognised(r, list)
<1>1. n \in Nat /\ DOMAIN list = 1..n /\ \A i \in 1..n : list[i] \in SetItems
  OBVIOUS
<1>2. DOMAIN rec = 1..n /\ rec = [i \in 1..n |-> rec[i]] /\ \A i \in 1..n : rec[i] = ItemSeen(r, list[i])
  BY <1>1, SeenIs
<1>3. ASSUME NEW i \in 1..n
      PROVE  /\ rec[i] \in PlanItems /\ Known(old, rec[i].id, rec[i].was) /\ Len(rec[i].sub) = Len(list[i].sub)
             /\ \A j \in 1..Len(list[i].sub) :
                  rec[i].sub[j].id = list[i].sub[j].id /\ Known(old, rec[i].sub[j].id, rec[i].sub[j].was)
             /\ DOMAIN list[i].sub = 1..Len(list[i].sub)
  <2>1. list[i] \in SetItems /\ rec[i] = ItemSeen(r, list[i])
    BY <1>1, <1>2
  <2>2. LET x == ItemSeen(r, list[i])
        IN  /\ x \in PlanItems /\ Known(old, x.id, x.was) /\ Len(x.sub) = Len(list[i].sub)
            /\ \A j \in 1..Len(list[i].sub) : x.sub[j].id = list[i].sub[j].id /\ Known(old, x.sub[j].id, x.sub[j].was)
    BY <2>1, ItemSeenIs
  <2>3. list[i].sub \in Seq(SetParts)
    BY <2>1 DEF SetItems
  <2> HIDE DEF rec
  <2> QED
    BY <2>1, <2>2, <2>3
<1> HIDE DEF rec, n
<1>4. rec \in Seq(PlanItems) /\ Len(rec) = n
  BY <1>1, <1>2, <1>3, ASequenceIs
<1>5. ASSUME NEW p \in Places(rec)
      PROVE  /\ Known(old, ItemAt(rec, p).id, ItemAt(rec, p).was)
             /\ p[2] # 0 => /\ p[1] \in DOMAIN list /\ p[2] \in DOMAIN list[p[1]].sub
                            /\ ItemAt(rec, p).id = list[p[1]].sub[p[2]].id
  <2>1. p[1] \in 1..n /\ p[2] \in 0..Len(rec[p[1]].sub)
    BY <1>4, ItemsAre
  <2>2. CASE p[2] = 0
    BY <1>3, <2>1, <2>2 DEF ItemAt
  <2>3. CASE p[2] # 0
    <3>1. p[2] \in 1..Len(list[p[1]].sub)
      <4>1. Len(rec[p[1]].sub) = Len(list[p[1]].sub) /\ Len(rec[p[1]].sub) \in Nat
        BY <1>3, <1>4, <2>1, AnItemIs
      <4> QED
        BY <2>1, <2>3, <4>1
    <3> QED
      BY <1>1, <1>3, <2>1, <2>3, <3>1 DEF ItemAt
  <2> QED
    BY <2>2, <2>3
<1> QED
  BY <1>4, <1>5 DEF rec

\* What set saves is well kept, when the list it is given numbers well.
LEMMA SetDoes ==
    ASSUME NEW r, NEW old \in Seq(PlanItems), old = listing[r].items, NEW v \in Nat, WellKept(old, v),
           NEW list \in ItemLists, NumbersWell(r, list),
           NEW mid, mid = Recognised(r, list), Accepted(mid), NEW new, new = SavedList(mid, v + 1)
    PROVE  new \in Seq(PlanItems) /\ WellKept(new, v + 1)
<1>1. /\ mid \in Seq(PlanItems)
      /\ \A p \in Places(mid) :
           /\ Known(old, ItemAt(mid, p).id, ItemAt(mid, p).was)
           /\ p[2] # 0 => /\ p[1] \in DOMAIN list /\ p[2] \in DOMAIN list[p[1]].sub
                          /\ ItemAt(mid, p).id = list[p[1]].sub[p[2]].id
  BY ListsAreSet, RecognisedIs
<1>2. v + 1 \in Nat /\ new \in Seq(PlanItems) /\ Places(new) = Places(mid) /\ Places(AssignIDs(mid)) = Places(mid)
  BY <1>1, SavedIs
<1>3. ASSUME NEW p \in Places(mid)
      PROVE  /\ ItemAt(new, p).id # <<>> /\ (ItemAt(mid, p).id # <<>> => ItemAt(new, p).id = ItemAt(mid, p).id)
             /\ ItemAt(new, p).id = ItemAt(AssignIDs(mid), p).id
             /\ (p[2] # 0 /\ ItemAt(mid, p).id = <<>> => ParseTopID(ItemAt(new, p).id) = 0)
             /\ ItemAt(new, p).was = OwnOf(ItemAt(mid, p).was, v + 1, p[1], p[2])
             /\ ItemAt(new, p).state \in Proper
             /\ (p[2] # 0 => ~ItemAt(new, p).deep)
             /\ p[1] \in Nat /\ p[2] \in Nat /\ p = <<p[1], p[2]>>
  <2>1. SavedAt(mid, v + 1, p)
    BY <1>1, <1>2, SavedIs
  <2>2. Pending(ItemAt(mid, p).state) \in Proper /\ (p[2] # 0 => ~ItemAt(mid, p).deep)
    BY <1>1, AcceptedStates
  <2>3. p[1] \in 1..Len(mid) /\ p[2] \in 0..Len(mid[p[1]].sub) /\ p = <<p[1], p[2]>>
    BY <1>1, ItemsAre
  <2> QED
    BY <2>1, <2>2, <2>3 DEF SavedAt
<1>4. /\ \A p, q \in Places(new) : ItemAt(new, p).id = ItemAt(new, q).id => p = q
      /\ \A i \in DOMAIN list : \A j \in DOMAIN list[i].sub : ParseTopID(list[i].sub[j].id) = 0
  BY <1>2, <1>3 DEF NumbersWell
<1>5. ASSUME NEW p \in Places(new), ItemAt(mid, p).was # NewItem
      PROVE  /\ ItemAt(new, p).was = ItemAt(mid, p).was
             /\ \E q \in Places(old) : ItemAt(old, q).id = ItemAt(new, p).id /\ ItemAt(old, q).was = ItemAt(new, p).was
  <2>1. p \in Places(mid) /\ ItemAt(new, p).was = ItemAt(mid, p).was
    BY <1>2, <1>3, <1>5 DEF OwnOf
  <2>2. ItemAt(mid, p).id # <<>> /\ \E q \in Places(old) : ItemAt(old, q).id = ItemAt(mid, p).id /\ ItemAt(old, q).was = ItemAt(mid, p).was
    BY <1>1, <1>5, <2>1 DEF Known
  <2>3. ItemAt(new, p).id = ItemAt(mid, p).id
    BY <1>3, <2>1, <2>2
  <2> QED
    BY <2>1, <2>2, <2>3
<1>6. ASSUME NEW p \in Places(new), ItemAt(mid, p).was = NewItem
      PROVE  ItemAt(new, p).was = <<v + 1, p[1], p[2]>>
  BY <1>2, <1>3, <1>6 DEF OwnOf
<1>7. \A q \in Places(old) : \E n \in 0..v : \E i, j \in Nat : ItemAt(old, q).was = <<n, i, j>>
  BY DEF WellKept, KeptItem
<1>8. ASSUME NEW p \in Places(new), NEW q \in Places(new), ItemAt(mid, p).was = NewItem, ItemAt(mid, q).was # NewItem
      PROVE  ItemAt(new, p).was # ItemAt(new, q).was
  <2>1. PICK o \in Places(old) : ItemAt(old, o).was = ItemAt(new, q).was
    BY <1>5, <1>8
  <2>2. PICK n \in 0..v : \E i, j \in Nat : ItemAt(old, o).was = <<n, i, j>>
    BY <1>7
  <2>3. n # v + 1
    OBVIOUS
  <2> QED
    BY <1>6, <1>8, <2>1, <2>2, <2>3
<1>9. ASSUME NEW p \in Places(new), NEW q \in Places(new), ItemAt(new, p).was = ItemAt(new, q).was
      PROVE  p = q
  <2>1. CASE ItemAt(mid, p).was = NewItem /\ ItemAt(mid, q).was = NewItem
    <3>1. <<v + 1, p[1], p[2]>> = <<v + 1, q[1], q[2]>>
      BY <1>6, <1>9, <2>1
    <3>2. p[1] = q[1] /\ p[2] = q[2]
      BY <3>1
    <3> QED
      BY <1>2, <1>3, <3>2
  <2>2. CASE ItemAt(mid, p).was # NewItem /\ ItemAt(mid, q).was # NewItem
    <3>1. PICK o \in Places(old) : ItemAt(old, o).id = ItemAt(new, p).id /\ ItemAt(old, o).was = ItemAt(new, p).was
      BY <1>5, <2>2
    <3>2. PICK t \in Places(old) : ItemAt(old, t).id = ItemAt(new, q).id /\ ItemAt(old, t).was = ItemAt(new, q).was
      BY <1>5, <2>2
    <3>3. o = t
      BY <1>9, <3>1, <3>2 DEF WellKept, Apart
    <3> QED
      BY <1>4, <3>1, <3>2, <3>3
  <2> QED
    BY <1>8, <1>9, <2>1, <2>2
<1>10. Apart(new)
  BY <1>4, <1>9 DEF Apart
<1>11. ASSUME NEW p \in Places(new) PROVE KeptItem(new, p, v + 1)
  <2>1. \E n \in 0..v + 1 : \E i, j \in Nat : ItemAt(new, p).was = <<n, i, j>>
    <3>1. CASE ItemAt(mid, p).was = NewItem
      <4>1. v + 1 \in 0..v + 1 /\ p[1] \in Nat /\ p[2] \in Nat
        BY <1>2, <1>3
      <4> QED
        BY <1>6, <3>1, <4>1
    <3>2. CASE ItemAt(mid, p).was # NewItem
      <4>1. PICK o \in Places(old) : ItemAt(old, o).was = ItemAt(new, p).was
        BY <1>5, <3>2
      <4>2. PICK n \in 0..v : \E i, j \in Nat : ItemAt(old, o).was = <<n, i, j>>
        BY <1>7
      <4>3. n \in 0..v + 1
        OBVIOUS
      <4> QED
        BY <4>1, <4>2, <4>3
    <3> QED
      BY <3>1, <3>2
  <2>2. p[2] # 0 => ParseTopID(ItemAt(new, p).id) = 0
    <3> SUFFICES ASSUME p[2] # 0 PROVE ParseTopID(ItemAt(new, p).id) = 0
      OBVIOUS
    <3>1. CASE ItemAt(mid, p).id = <<>>
      BY <1>2, <1>3, <3>1
    <3>2. CASE ItemAt(mid, p).id # <<>>
      <4>1. ItemAt(new, p).id = ItemAt(mid, p).id
        BY <1>2, <1>3, <3>2
      <4>2. ParseTopID(ItemAt(mid, p).id) = 0
        BY <1>1, <1>2, <1>4
      <4> QED
        BY <4>1, <4>2
    <3> QED
      BY <3>1, <3>2
  <2> QED
    BY <1>2, <1>3, <2>1, <2>2 DEF KeptItem
<1> QED
  BY <1>2, <1>10, <1>11 DEF WellKept

-----------------------------------------------------------------------------
(***************************************************************************)
(* The inductive invariant: what the agent that calls saw, as long as no   *)
(* calls cross, is the plan on disk, and it is well kept.                  *)
(***************************************************************************)
VersionsOfPlan == [version : 0..MaxVersion, items : Seq(PlanItems)]
SavingFits(s) ==
    \/ s.at = "idle"
    \/ s.at = "loaded" /\ s.items \in Seq(PlanItems)
    \/ s.at = "stamped" /\ s.file \in VersionsOfPlan

AgentPlanTypes ==
    /\ planFile \in VersionsOfPlan /\ listing \in [Runs -> VersionsOfPlan]
    /\ saving = [r \in Runs |-> saving[r]] /\ \A r \in Runs : SavingFits(saving[r])
    /\ spoiled \in BOOLEAN

\* What a run that has loaded the plan on disk is to save.
AskedFor(r, s, old) ==
    \/ /\ s.op = "update_item"
       /\ \E place \in Places(old), state \in {"completed", "finished"} :
             s.meant = ItemAt(old, place).was /\ s.items = MutateItem(old, place, state)
    \/ /\ s.op = "remove_item"
       /\ \E place \in Places(old) : s.meant = ItemAt(old, place).was /\ s.items = RemoveItem(old, place)
    \/ s.op = "add_item" /\ \E item \in PlanItems : IsLatest(item) /\ s.items = Append(old, item)
    \/ s.op = "set" /\ \E list \in ItemLists : NumbersWell(r, list) /\ s.items = Recognised(r, list)

Means(s, old, new) ==
    /\ s.op = "update_item" => UpdateMeans(s.meant, old, new)
    /\ s.op = "remove_item" => RemoveMeans(s.meant, old, new)
    /\ s.op = "add_item" => AddMeans(old, new)

\* What it has stamped does that, and is well kept.
Answers(s, old) ==
    /\ s.file.version = old.version + 1
    /\ WellKept(s.file.items, s.file.version) /\ Means(s, old.items, s.file.items)

OfThisPlan(r) ==
    /\ listing[r].version <= planFile.version
    /\ listing[r].version = planFile.version => listing[r] = planFile
    /\ saving[r].at # "idle" => saving[r].base = listing[r].version
    /\ saving[r].base = planFile.version =>
         /\ saving[r].at = "loaded" => AskedFor(r, saving[r], planFile.items)
         /\ saving[r].at = "stamped" => Answers(saving[r], planFile)

PlanIsSeen == WellKept(planFile.items, planFile.version) /\ \A r \in Runs : OfThisPlan(r)
AgentPlanInv == AgentPlanTypes /\ (~spoiled => PlanIsSeen)

\* Recognised reads of the agent's listing only its items.
IdentityIn(list, id) ==
    LET known == PlacesOf(list, id) IN
    IF id # <<>> /\ known # {} THEN ItemAt(list, FirstOf(known)).was ELSE NewItem
SeenIn(seen, list) ==
    [i \in DOMAIN list |->
        [id |-> list[i].id, was |-> IdentityIn(seen, list[i].id), state |-> list[i].state,
         sub |-> [j \in DOMAIN list[i].sub |->
                    [id |-> list[i].sub[j].id, was |-> IdentityIn(seen, list[i].sub[j].id),
                     state |-> list[i].sub[j].state, deep |-> list[i].sub[j].deep]]]]
WellIn(seen, list) ==
    LET new == AssignIDs(SeenIn(seen, list))
    IN  /\ \A p, q \in Places(new) : ItemAt(new, p).id = ItemAt(new, q).id => p = q
        /\ \A i \in DOMAIN list : \A j \in DOMAIN list[i].sub : ParseTopID(list[i].sub[j].id) = 0

LEMMA SeeingIs ==
    ASSUME NEW r, NEW list
    PROVE  /\ Recognised(r, list) = SeenIn(listing[r].items, list)
           /\ Recognised(r, list)' = SeenIn(listing'[r].items, list)
           /\ NumbersWell(r, list) <=> WellIn(listing[r].items, list)
           /\ NumbersWell(r, list)' <=> WellIn(listing'[r].items, list)
<1>1. Recognised(r, list) = SeenIn(listing[r].items, list)
  BY DEF Recognised, SeenIn, IdentityOf, IdentityIn
<1>2. Recognised(r, list)' = SeenIn(listing'[r].items, list)
  BY DEF Recognised, SeenIn, IdentityOf, IdentityIn
<1>3. NumbersWell(r, list) <=> WellIn(listing[r].items, list)
  BY <1>1 DEF NumbersWell, WellIn
<1>4. NumbersWell(r, list)' <=> WellIn(listing'[r].items, list)
  BY <1>2 DEF NumbersWell, WellIn
<1> QED
  BY <1>1, <1>2, <1>3, <1>4

\* A run that does not move, over a plan that does not, is where it was.
LEMMA StaysOfThisPlan ==
    ASSUME NEW r, planFile' = planFile, listing'[r] = listing[r], saving'[r] = saving[r], OfThisPlan(r)
    PROVE  OfThisPlan(r)'
<1>1. ASSUME NEW s PROVE AskedFor(r, s, planFile.items) => AskedFor(r, s, planFile.items)'
  <2>1. \A list : Recognised(r, list)' = Recognised(r, list) /\ (NumbersWell(r, list)' <=> NumbersWell(r, list))
    BY SeeingIs
  <2> QED
    BY <2>1 DEF AskedFor
<1> QED
  BY <1>1 DEF OfThisPlan

LEMMA NothingIs == ASSUME NEW T PROVE <<>> \in Seq(T) /\ Len(<<>>) = 0
OBVIOUS

LEMMA AgentPlanInitially == AgentPlanInit => AgentPlanInv
<1> SUFFICES ASSUME AgentPlanInit PROVE AgentPlanInv
  OBVIOUS
<1>1. NoPlanYet \in VersionsOfPlan /\ NoPlanYet.version = 0 /\ NoPlanYet.items = <<>>
  BY AgentPlanAssumption DEF NoPlanYet, VersionsOfPlan
<1>2. AgentPlanTypes
  BY <1>1 DEF AgentPlanInit, AgentPlanTypes, NotCalling, SavingFits
<1>3. WellKept(<<>>, 0)
  <2> DEFINE list == <<>>
  <2>1. list \in Seq(PlanItems) /\ Len(list) = 0
    BY NothingIs
  <2> HIDE DEF list
  <2>2. ASSUME NEW p \in Places(list) PROVE FALSE
    <3>1. p[1] \in 1..Len(list)
      BY <2>1, ItemsAre
    <3> QED
      BY <2>1, <3>1
  <2>3. WellKept(list, 0)
    BY <2>2 DEF WellKept, Apart
  <2> QED
    BY <2>3 DEF list
<1>4. ASSUME NEW r \in Runs PROVE OfThisPlan(r)
  <2>1. listing[r] = NoPlanYet /\ planFile = NoPlanYet /\ saving[r].at = "idle" /\ 0 <= 0
    BY DEF AgentPlanInit, NotCalling
  <2> QED
    BY <1>1, <2>1 DEF OfThisPlan
<1> QED
  BY <1>1, <1>2, <1>3, <1>4 DEF AgentPlanInit, AgentPlanInv, PlanIsSeen

LEMMA ListPlanKeeps == ASSUME AgentPlanInv, NEW r \in Runs, ListPlan(r) PROVE AgentPlanInv'
<1>1. /\ listing' = [listing EXCEPT ![r] = planFile] /\ saving[r].at = "idle"
      /\ planFile' = planFile /\ saving' = saving /\ spoiled' = spoiled
  BY DEF ListPlan, IsCalling
<1>2. AgentPlanTypes'
  BY <1>1 DEF AgentPlanInv, AgentPlanTypes
<1>3. ASSUME ~spoiled PROVE PlanIsSeen'
  <2>1. WellKept(planFile.items, planFile.version) /\ (\A q \in Runs : OfThisPlan(q)) /\ planFile.version \in Nat
    BY <1>3 DEF AgentPlanInv, AgentPlanTypes, PlanIsSeen, VersionsOfPlan
  <2>2. ASSUME NEW q \in Runs PROVE OfThisPlan(q)'
    <3>1. CASE q = r
      BY <1>1, <2>1, <3>1 DEF OfThisPlan, AgentPlanInv, AgentPlanTypes
    <3>2. CASE q # r
      <4>1. listing'[q] = listing[q] /\ saving'[q] = saving[q]
        BY <1>1, <3>2
      <4> QED
        BY <1>1, <2>1, <4>1, StaysOfThisPlan
    <3> QED
      BY <3>1, <3>2
  <2>3. WellKept(planFile.items, planFile.version)'
    BY <1>1, <2>1
  <2> QED
    BY <2>2, <2>3 DEF PlanIsSeen
<1> QED
  BY <1>1, <1>2, <1>3 DEF AgentPlanInv

\* A call begins: what it is to save was asked for of the plan the agent saw.
LEMMA SubmitKeeps ==
    ASSUME AgentPlanInv, NEW r \in Runs, NEW op, NEW meant, NEW list \in Seq(PlanItems),
           Submit(r, op, meant, list), planFile' = planFile, listing' = listing,
           spoiled' \in BOOLEAN, spoiled => spoiled',
           NEW s, s = [at |-> "loaded", op |-> op, meant |-> meant, items |-> list, base |-> listing[r].version],
           ~spoiled' /\ listing[r] = planFile /\ PlanIsSeen => AskedFor(r, s, planFile.items)
    PROVE  AgentPlanInv'
<1>1. s.at = "loaded" /\ s.items = list /\ s.base = listing[r].version
  OBVIOUS
<1>2. saving' = [saving EXCEPT ![r] = s]
  BY DEF Submit
<1>3. AgentPlanTypes'
  <2>1. SavingFits(s)
    BY <1>1 DEF SavingFits
  <2>2. saving' = [q \in Runs |-> saving'[q]] /\ \A q \in Runs : SavingFits(saving'[q])
    BY <1>2, <2>1 DEF AgentPlanInv, AgentPlanTypes
  <2> QED
    BY <2>2 DEF AgentPlanInv, AgentPlanTypes
<1>4. ASSUME ~spoiled' PROVE PlanIsSeen'
  <2>1. PlanIsSeen /\ WellKept(planFile.items, planFile.version) /\ \A q \in Runs : OfThisPlan(q)
    BY <1>4 DEF AgentPlanInv, PlanIsSeen
  <2>2. ASSUME NEW q \in Runs PROVE OfThisPlan(q)'
    <3>1. CASE q = r
      <4>1. saving'[r] = s
        BY <1>2 DEF AgentPlanInv, AgentPlanTypes
      <4>2. ASSUME s.base = planFile.version PROVE AskedFor(r, s, planFile.items)'
        <5>1. listing[r] = planFile
          BY <1>1, <2>1, <4>2 DEF OfThisPlan
        <5>2. AskedFor(r, s, planFile.items)
          BY <1>4, <2>1, <5>1
        <5>3. \A l : Recognised(r, l)' = Recognised(r, l) /\ (NumbersWell(r, l)' <=> NumbersWell(r, l))
          BY SeeingIs
        <5> QED
          BY <5>2, <5>3 DEF AskedFor
      <4>3. OfThisPlan(r)
        BY <2>1
      <4> HIDE DEF OfThisPlan
      <4>4. /\ listing[r].version <= planFile.version
            /\ listing[r].version = planFile.version => listing[r] = planFile
        BY <4>3 DEF OfThisPlan
      <4> QED
        BY <1>1, <3>1, <4>1, <4>2, <4>4 DEF OfThisPlan
    <3>2. CASE q # r
      <4>1. listing'[q] = listing[q] /\ saving'[q] = saving[q]
        BY <1>2, <3>2 DEF AgentPlanInv, AgentPlanTypes
      <4> QED
        BY <2>1, <4>1, StaysOfThisPlan
    <3> QED
      BY <3>1, <3>2
  <2>3. WellKept(planFile.items, planFile.version)'
    BY <2>1
  <2> QED
    BY <2>2, <2>3 DEF PlanIsSeen
<1> QED
  BY <1>3, <1>4 DEF AgentPlanInv

\* The item under an id that the agent's last result showed.
LEMMA TheItemMeant ==
    ASSUME AgentPlanInv, NEW r \in Runs, NEW id, PlacesOf(planFile.items, id) # {}
    PROVE  /\ planFile.items \in Seq(PlanItems)
           /\ FirstOf(PlacesOf(planFile.items, id)) \in Places(planFile.items)
           /\ listing[r] = planFile /\ PlanIsSeen =>
                IdentityOf(r, id) = ItemAt(planFile.items, FirstOf(PlacesOf(planFile.items, id))).was
<1>1. planFile.items \in Seq(PlanItems)
  BY DEF AgentPlanInv, AgentPlanTypes, VersionsOfPlan
<1> DEFINE known == PlacesOf(planFile.items, id)
<1>2. known \subseteq Places(planFile.items) /\ \A p \in known : ItemAt(planFile.items, p).id = id
  BY DEF PlacesOf
<1>3. FirstOf(known) \in known
  <2> HIDE DEF known
  <2>1. known # {}
    BY DEF known
  <2> QED
    BY <1>1, <1>2, <2>1, FirstIs
<1>4. ASSUME listing[r] = planFile, PlanIsSeen PROVE IdentityOf(r, id) = ItemAt(planFile.items, FirstOf(known)).was
  <2>1. id # <<>>
    <3>1. KeptItem(planFile.items, FirstOf(known), planFile.version)
      BY <1>2, <1>3, <1>4 DEF PlanIsSeen, WellKept
    <3> QED
      BY <1>2, <1>3, <3>1 DEF KeptItem
  <2> QED
    BY <1>4, <2>1 DEF IdentityOf
<1> QED
  BY <1>1, <1>2, <1>3, <1>4

LEMMA UpdateItemKeeps ==
    ASSUME AgentPlanInv, NEW r \in Runs, NEW id, NEW state \in {"completed", "finished"}, UpdateItem(r, id, state)
    PROVE  AgentPlanInv'
<1> DEFINE place == FirstOf(PlacesOf(planFile.items, id))
           list == MutateItem(planFile.items, place, state)
           s == [at |-> "loaded", op |-> "update_item", meant |-> IdentityOf(r, id), items |-> list, base |-> listing[r].version]
<1>1. PlacesOf(planFile.items, id) # {} /\ Submit(r, "update_item", IdentityOf(r, id), list)
      /\ planFile' = planFile /\ listing' = listing /\ spoiled' = spoiled
  BY DEF UpdateItem
<1>2. planFile.items \in Seq(PlanItems) /\ place \in Places(planFile.items)
      /\ (listing[r] = planFile /\ PlanIsSeen => IdentityOf(r, id) = ItemAt(planFile.items, place).was)
  BY <1>1, TheItemMeant
<1> HIDE DEF place
<1>3. list \in Seq(PlanItems)
  BY <1>2, AcceptState, MutateIs
<1>4. spoiled' \in BOOLEAN /\ (spoiled => spoiled')
  BY <1>1 DEF AgentPlanInv, AgentPlanTypes
<1>5. s.op = "update_item" /\ s.meant = IdentityOf(r, id) /\ s.items = list
  OBVIOUS
<1>6. ASSUME listing[r] = planFile, PlanIsSeen PROVE AskedFor(r, s, planFile.items)
  <2>1. s.meant = ItemAt(planFile.items, place).was
    BY <1>2, <1>5, <1>6
  <2> HIDE DEF s
  <2> QED
    BY <1>2, <1>5, <2>1 DEF AskedFor
<1> HIDE DEF list
<1>7. s = [at |-> "loaded", op |-> "update_item", meant |-> IdentityOf(r, id), items |-> list, base |-> listing[r].version]
  OBVIOUS
<1> HIDE DEF s
<1> QED
  BY <1>1, <1>3, <1>4, <1>6, <1>7, SubmitKeeps

LEMMA RemoveItemKeeps ==
    ASSUME AgentPlanInv, NEW r \in Runs, NEW id, RemoveItemCall(r, id) PROVE AgentPlanInv'
<1> DEFINE place == FirstOf(PlacesOf(planFile.items, id))
           list == RemoveItem(planFile.items, place)
           s == [at |-> "loaded", op |-> "remove_item", meant |-> IdentityOf(r, id), items |-> list, base |-> listing[r].version]
<1>1. PlacesOf(planFile.items, id) # {} /\ Submit(r, "remove_item", IdentityOf(r, id), list)
      /\ planFile' = planFile /\ listing' = listing /\ spoiled' = spoiled
  BY DEF RemoveItemCall
<1>2. planFile.items \in Seq(PlanItems) /\ place \in Places(planFile.items)
      /\ (listing[r] = planFile /\ PlanIsSeen => IdentityOf(r, id) = ItemAt(planFile.items, place).was)
  BY <1>1, TheItemMeant
<1> HIDE DEF place
<1>3. list \in Seq(PlanItems)
  <2>1. \E e : LeavesOut(e, place, list, planFile.items)
    BY <1>2, RemoveLeaves
  <2> HIDE DEF list
  <2> QED
    BY <2>1 DEF LeavesOut
<1>4. spoiled' \in BOOLEAN /\ (spoiled => spoiled')
  BY <1>1 DEF AgentPlanInv, AgentPlanTypes
<1>5. s.op = "remove_item" /\ s.meant = IdentityOf(r, id) /\ s.items = list
  OBVIOUS
<1>6. ASSUME listing[r] = planFile, PlanIsSeen PROVE AskedFor(r, s, planFile.items)
  <2>1. s.meant = ItemAt(planFile.items, place).was
    BY <1>2, <1>5, <1>6
  <2> HIDE DEF s
  <2> QED
    BY <1>2, <1>5, <2>1 DEF AskedFor
<1> HIDE DEF list
<1>7. s = [at |-> "loaded", op |-> "remove_item", meant |-> IdentityOf(r, id), items |-> list, base |-> listing[r].version]
  OBVIOUS
<1> HIDE DEF s
<1> QED
  BY <1>1, <1>3, <1>4, <1>6, <1>7, SubmitKeeps

LEMMA AddItemKeeps ==
    ASSUME AgentPlanInv, NEW r \in Runs, NEW state \in {"pending", "completed", "finished"}, AddItem(r, state)
    PROVE  AgentPlanInv'
<1> DEFINE item == [id |-> <<>>, was |-> NewItem, state |-> state, sub |-> <<>>]
           list == Append(planFile.items, item)
           s == [at |-> "loaded", op |-> "add_item", meant |-> NewItem, items |-> list, base |-> listing[r].version]
<1>0. item \in PlanItems /\ IsLatest(item)
  <2>1. state \in Statuses
    BY DEF Statuses
  <2> QED
    BY <2>1, LatestIs
<1>1. Submit(r, "add_item", NewItem, list) /\ planFile' = planFile /\ listing' = listing /\ spoiled' = spoiled
  BY DEF AddItem
<1> HIDE DEF item
<1>2. list \in Seq(PlanItems)
  <2>1. planFile.items \in Seq(PlanItems)
    BY DEF AgentPlanInv, AgentPlanTypes, VersionsOfPlan
  <2> QED
    BY <1>0, <2>1
<1>3. spoiled' \in BOOLEAN /\ (spoiled => spoiled')
  BY <1>1 DEF AgentPlanInv, AgentPlanTypes
<1>4. AskedFor(r, s, planFile.items)
  <2>1. list = Append(planFile.items, item) /\ s.op = "add_item" /\ s.items = list
    OBVIOUS
  <2> HIDE DEF list, s
  <2> QED
    BY <1>0, <2>1 DEF AskedFor
<1> HIDE DEF list
<1>5. s = [at |-> "loaded", op |-> "add_item", meant |-> NewItem, items |-> list, base |-> listing[r].version]
  OBVIOUS
<1> HIDE DEF s
<1> QED
  BY <1>1, <1>2, <1>3, <1>4, <1>5, SubmitKeeps

LEMMA SetPlanKeeps ==
    ASSUME AgentPlanInv, NEW r \in Runs, NEW typed \in ItemLists, SetPlan(r, typed) PROVE AgentPlanInv'
<1> DEFINE list == Recognised(r, typed)
           s == [at |-> "loaded", op |-> "set", meant |-> NewItem, items |-> list, base |-> listing[r].version]
<1>1. Submit(r, "set", NewItem, list) /\ planFile' = planFile /\ listing' = listing
      /\ spoiled' = (spoiled \/ ~NumbersWell(r, typed))
  BY DEF SetPlan
<1>2. list \in Seq(PlanItems)
  <2>1. listing[r].items \in Seq(PlanItems)
    BY DEF AgentPlanInv, AgentPlanTypes, VersionsOfPlan
  <2> QED
    BY <2>1, ListsAreSet, RecognisedIs
<1>3. spoiled' \in BOOLEAN /\ (spoiled => spoiled')
  BY <1>1 DEF AgentPlanInv, AgentPlanTypes
<1>4. ASSUME ~spoiled' PROVE AskedFor(r, s, planFile.items)
  <2>1. NumbersWell(r, typed) /\ s.op = "set" /\ s.items = Recognised(r, typed)
    BY <1>1, <1>4
  <2> HIDE DEF s
  <2> QED
    BY <2>1 DEF AskedFor
<1> HIDE DEF list
<1>5. s = [at |-> "loaded", op |-> "set", meant |-> NewItem, items |-> list, base |-> listing[r].version]
  OBVIOUS
<1> HIDE DEF s
<1> QED
  BY <1>1, <1>2, <1>3, <1>4, <1>5, SubmitKeeps

\* What a save stamps does what was asked for, and is well kept.
LEMMA StampAnswers ==
    ASSUME AgentPlanInv, NEW r \in Runs, listing[r] = planFile, PlanIsSeen,
           NEW s, AskedFor(r, s, planFile.items), Accepted(s.items), s.items \in Seq(PlanItems),
           NEW new, new = SavedList(s.items, planFile.version + 1)
    PROVE  new \in Seq(PlanItems) /\ WellKept(new, planFile.version + 1) /\ Means(s, planFile.items, new)
<1> DEFINE old == planFile.items
           v == planFile.version
<1>1. old \in Seq(PlanItems) /\ v \in Nat /\ WellKept(old, v) /\ listing[r].items = old
  BY DEF AgentPlanInv, AgentPlanTypes, VersionsOfPlan, PlanIsSeen
<1> HIDE DEF old, v
<1>2. new = SavedList(s.items, v + 1) /\ AskedFor(r, s, old)
  BY DEF old, v
<1>3. CASE s.op = "update_item"
  <2>1. \E place \in Places(old), state \in {"completed", "finished"} :
           s.meant = ItemAt(old, place).was /\ s.items = MutateItem(old, place, state)
    BY <1>2, <1>3 DEF AskedFor
  <2>2. PICK place \in Places(old), state \in {"completed", "finished"} :
           s.meant = ItemAt(old, place).was /\ s.items = MutateItem(old, place, state)
    BY <2>1
  <2>3. new \in Seq(PlanItems) /\ WellKept(new, v + 1) /\ UpdateMeans(s.meant, old, new)
    BY <1>1, <1>2, <2>2, UpdateDoes
  <2> QED
    BY <1>3, <2>3 DEF Means, old, v
<1>4. CASE s.op = "remove_item"
  <2>1. \E place \in Places(old) : s.meant = ItemAt(old, place).was /\ s.items = RemoveItem(old, place)
    BY <1>2, <1>4 DEF AskedFor
  <2>2. PICK place \in Places(old) : s.meant = ItemAt(old, place).was /\ s.items = RemoveItem(old, place)
    BY <2>1
  <2>3. new \in Seq(PlanItems) /\ WellKept(new, v + 1) /\ RemoveMeans(s.meant, old, new)
    BY <1>1, <1>2, <2>2, RemoveDoes
  <2> QED
    BY <1>4, <2>3 DEF Means, old, v
<1>5. CASE s.op = "add_item"
  <2>1. PICK item \in PlanItems : IsLatest(item) /\ s.items = Append(old, item)
    BY <1>2, <1>5 DEF AskedFor
  <2>2. new \in Seq(PlanItems) /\ WellKept(new, v + 1) /\ AddMeans(old, new)
    BY <1>1, <1>2, <2>1, AddDoes
  <2> QED
    BY <1>5, <2>2 DEF Means, old, v
<1>6. CASE s.op = "set"
  <2>1. PICK list \in ItemLists : NumbersWell(r, list) /\ s.items = Recognised(r, list)
    BY <1>2, <1>6 DEF AskedFor
  <2>2. new \in Seq(PlanItems) /\ WellKept(new, v + 1)
    BY <1>1, <1>2, <2>1, SetDoes
  <2> QED
    BY <1>6, <2>2 DEF Means, v
<1> QED
  BY <1>2, <1>3, <1>4, <1>5, <1>6 DEF AskedFor

LEMMA StampKeeps == ASSUME AgentPlanInv, NEW r \in Runs, Stamp(r) PROVE AgentPlanInv'
<1> DEFINE s == saving[r]
           v == planFile.version + 1
           new == SavedList(s.items, v)
           f == [version |-> v, items |-> new]
           t == [at |-> "stamped", op |-> s.op, meant |-> s.meant, base |-> s.base, file |-> f]
<1>1. /\ s.at = "loaded" /\ Accepted(s.items) /\ planFile.version < MaxVersion
      /\ planFile' = planFile /\ listing' = listing /\ spoiled' = spoiled
  BY DEF Stamp, IsCalling
<1>2. saving' = [saving EXCEPT ![r] = t]
  BY DEF Stamp, SavedList
<1>3. s.items \in Seq(PlanItems) /\ planFile.version \in 0..MaxVersion /\ MaxVersion \in Nat
  <2>1. SavingFits(s)
    BY DEF AgentPlanInv, AgentPlanTypes
  <2> QED
    BY <1>1, <2>1, AgentPlanAssumption DEF SavingFits, AgentPlanInv, AgentPlanTypes, VersionsOfPlan
<1>4. v \in 0..MaxVersion /\ v \in Nat
  BY <1>1, <1>3
<1> HIDE DEF s
<1>5. new \in Seq(PlanItems)
  BY <1>3, <1>4, SavedIs
<1>6. f \in VersionsOfPlan /\ f.version = v /\ f.items = new
  BY <1>4, <1>5 DEF VersionsOfPlan
<1> HIDE DEF new, f
<1>7. t.at = "stamped" /\ t.op = s.op /\ t.meant = s.meant /\ t.base = s.base /\ t.file = f
  OBVIOUS
<1> HIDE DEF t
<1>8. saving'[r] = t /\ \A q \in Runs : q # r => saving'[q] = saving[q]
  BY <1>2 DEF AgentPlanInv, AgentPlanTypes
<1>9. AgentPlanTypes'
  <2>1. SavingFits(t)
    BY <1>6, <1>7 DEF SavingFits
  <2>2. saving' = [q \in Runs |-> saving'[q]] /\ \A q \in Runs : SavingFits(saving'[q])
    BY <1>2, <2>1 DEF AgentPlanInv, AgentPlanTypes
  <2> QED
    BY <1>1, <2>2 DEF AgentPlanInv, AgentPlanTypes
<1>10. ASSUME ~spoiled PROVE PlanIsSeen'
  <2>1. PlanIsSeen /\ WellKept(planFile.items, planFile.version) /\ \A q \in Runs : OfThisPlan(q)
    BY <1>10 DEF AgentPlanInv, PlanIsSeen
  <2>2. ASSUME NEW q \in Runs PROVE OfThisPlan(q)'
    <3>1. CASE q = r
      <4>1. /\ listing[r].version <= planFile.version
            /\ listing[r].version = planFile.version => listing[r] = planFile
            /\ s.base = listing[r].version
            /\ s.base = planFile.version => AskedFor(r, s, planFile.items)
        BY <1>1, <2>1 DEF OfThisPlan, s
      <4>2. ASSUME s.base = planFile.version PROVE Answers(t, planFile)
        <5>1. listing[r] = planFile /\ AskedFor(r, s, planFile.items)
          BY <4>1, <4>2
        <5>2. new = SavedList(s.items, planFile.version + 1)
          BY DEF new
        <5>3. WellKept(new, planFile.version + 1) /\ Means(s, planFile.items, new)
          BY <1>1, <1>3, <2>1, <5>1, <5>2, StampAnswers
        <5>4. t.file.version = planFile.version + 1 /\ t.file.items = new
          BY <1>6, <1>7
        <5>5. Means(t, planFile.items, new)
          BY <1>7, <5>3 DEF Means
        <5> QED
          BY <5>3, <5>4, <5>5 DEF Answers
      <4>3. s.base = planFile.version => Answers(t, planFile')
        BY <1>1, <4>2
      <4> QED
        BY <1>1, <1>7, <1>8, <3>1, <4>1, <4>2, <4>3 DEF OfThisPlan
    <3>2. CASE q # r
      BY <1>1, <1>8, <2>1, <3>2, StaysOfThisPlan
    <3> QED
      BY <3>1, <3>2
  <2>3. WellKept(planFile.items, planFile.version)'
    BY <1>1, <2>1
  <2> QED
    BY <2>2, <2>3 DEF PlanIsSeen
<1> QED
  BY <1>1, <1>9, <1>10 DEF AgentPlanInv

LEMMA RenameKeeps == ASSUME AgentPlanInv, NEW r \in Runs, Rename(r) PROVE AgentPlanInv'
<1> DEFINE f == saving[r].file
<1>1. /\ saving[r].at = "stamped" /\ planFile' = f /\ listing' = [listing EXCEPT ![r] = f]
      /\ saving' = [saving EXCEPT ![r] = NotCalling]
      /\ spoiled' = (spoiled \/ saving[r].base # planFile.version)
  BY DEF Rename, IsCalling
<1>2. f \in VersionsOfPlan
  <2>1. SavingFits(saving[r])
    BY DEF AgentPlanInv, AgentPlanTypes
  <2> QED
    BY <1>1, <2>1 DEF SavingFits
<1>3. NotCalling.at = "idle" /\ SavingFits(NotCalling)
  BY DEF NotCalling, SavingFits
<1>4. AgentPlanTypes'
  <2>1. saving' = [q \in Runs |-> saving'[q]] /\ \A q \in Runs : SavingFits(saving'[q])
    BY <1>1, <1>3 DEF AgentPlanInv, AgentPlanTypes
  <2>2. planFile' \in VersionsOfPlan /\ listing' \in [Runs -> VersionsOfPlan] /\ spoiled' \in BOOLEAN
    BY <1>1, <1>2 DEF AgentPlanInv, AgentPlanTypes
  <2> QED
    BY <2>1, <2>2 DEF AgentPlanTypes
<1>5. ASSUME ~spoiled' PROVE PlanIsSeen'
  <2>1. \A q \in Runs : OfThisPlan(q)
    BY <1>1, <1>5 DEF AgentPlanInv, PlanIsSeen
  <2>2. saving[r].base = planFile.version /\ Answers(saving[r], planFile)
    BY <1>1, <1>5, <2>1 DEF OfThisPlan
  <2>3. f.version = planFile.version + 1 /\ WellKept(f.items, f.version) /\ planFile.version \in Nat
    BY <2>2 DEF Answers, AgentPlanInv, AgentPlanTypes, VersionsOfPlan
  <2>4. ASSUME NEW q \in Runs PROVE OfThisPlan(q)'
    <3>1. CASE q = r
      <4>1. listing'[r] = f /\ saving'[r] = NotCalling /\ planFile' = f /\ f.version <= f.version
        BY <1>1, <2>3 DEF AgentPlanInv, AgentPlanTypes
      <4> QED
        BY <1>3, <3>1, <4>1 DEF OfThisPlan
    <3>2. CASE q # r
      <4>1. listing'[q] = listing[q] /\ saving'[q] = saving[q] /\ planFile' = f /\ listing[q].version \in Nat
        BY <1>1, <3>2 DEF AgentPlanInv, AgentPlanTypes, VersionsOfPlan
      <4>2. listing[q].version <= planFile.version /\ (saving[q].at # "idle" => saving[q].base = listing[q].version)
        BY <2>1 DEF OfThisPlan
      <4>3. listing[q].version <= f.version /\ listing[q].version # f.version
        BY <2>3, <4>1, <4>2
      <4> QED
        BY <4>1, <4>2, <4>3 DEF OfThisPlan
    <3> QED
      BY <3>1, <3>2
  <2>5. WellKept(planFile.items, planFile.version)'
    BY <1>1, <2>3
  <2> QED
    BY <2>4, <2>5 DEF PlanIsSeen
<1> QED
  BY <1>4, <1>5 DEF AgentPlanInv

LEMMA SaveFailsKeeps == ASSUME AgentPlanInv, NEW r \in Runs, SaveFails(r) PROVE AgentPlanInv'
<1>1. /\ saving' = [saving EXCEPT ![r] = NotCalling]
      /\ planFile' = planFile /\ listing' = listing /\ spoiled' = spoiled
  BY DEF SaveFails
<1>2. NotCalling.at = "idle" /\ SavingFits(NotCalling)
  BY DEF NotCalling, SavingFits
<1>3. AgentPlanTypes'
  <2>1. saving' = [q \in Runs |-> saving'[q]] /\ \A q \in Runs : SavingFits(saving'[q])
    BY <1>1, <1>2 DEF AgentPlanInv, AgentPlanTypes
  <2> QED
    BY <1>1, <2>1 DEF AgentPlanInv, AgentPlanTypes
<1>4. ASSUME ~spoiled PROVE PlanIsSeen'
  <2>1. WellKept(planFile.items, planFile.version) /\ \A q \in Runs : OfThisPlan(q)
    BY <1>4 DEF AgentPlanInv, PlanIsSeen
  <2>2. ASSUME NEW q \in Runs PROVE OfThisPlan(q)'
    <3>1. CASE q = r
      <4>1. saving'[r] = NotCalling
        BY <1>1 DEF AgentPlanInv, AgentPlanTypes
      <4> QED
        BY <1>1, <1>2, <2>1, <3>1, <4>1 DEF OfThisPlan
    <3>2. CASE q # r
      <4>1. saving'[q] = saving[q] /\ listing'[q] = listing[q]
        BY <1>1, <3>2 DEF AgentPlanInv, AgentPlanTypes
      <4> QED
        BY <1>1, <2>1, <4>1, StaysOfThisPlan
    <3> QED
      BY <3>1, <3>2
  <2>3. WellKept(planFile.items, planFile.version)'
    BY <1>1, <2>1
  <2> QED
    BY <2>2, <2>3 DEF PlanIsSeen
<1> QED
  BY <1>1, <1>3, <1>4 DEF AgentPlanInv

LEMMA AgentPlanKeeps == AgentPlanInv /\ [AgentPlanNext]_agentPlanVars => AgentPlanInv'
<1> SUFFICES ASSUME AgentPlanInv, [AgentPlanNext]_agentPlanVars PROVE AgentPlanInv'
  OBVIOUS
<1>1. CASE AgentPlanNext
  <2> PICK r \in Runs :
        \/ ListPlan(r) \/ Stamp(r) \/ Rename(r) \/ SaveFails(r)
        \/ \E state \in {"pending", "completed", "finished"} : AddItem(r, state)
        \/ \E list \in ItemLists : SetPlan(r, list)
        \/ \E id \in IdsOf(listing[r].items) :
              \/ RemoveItemCall(r, id)
              \/ \E state \in {"completed", "finished"} : UpdateItem(r, id, state)
    BY <1>1 DEF AgentPlanNext
  <2>1. CASE ListPlan(r)
    BY <2>1, ListPlanKeeps
  <2>2. CASE \E state \in {"pending", "completed", "finished"} : AddItem(r, state)
    BY <2>2, AddItemKeeps
  <2>3. CASE Stamp(r)
    BY <2>3, StampKeeps
  <2>4. CASE Rename(r)
    BY <2>4, RenameKeeps
  <2>5. CASE SaveFails(r)
    BY <2>5, SaveFailsKeeps
  <2>6. CASE \E list \in ItemLists : SetPlan(r, list)
    BY <2>6, SetPlanKeeps
  <2>7. CASE \E id \in IdsOf(listing[r].items) : RemoveItemCall(r, id)
    BY <2>7, RemoveItemKeeps
  <2>8. CASE \E id \in IdsOf(listing[r].items) : \E state \in {"completed", "finished"} : UpdateItem(r, id, state)
    BY <2>8, UpdateItemKeeps
  <2> QED
    BY <2>1, <2>2, <2>3, <2>4, <2>5, <2>6, <2>7, <2>8
<1>2. CASE UNCHANGED agentPlanVars
  <2>1. planFile' = planFile /\ listing' = listing /\ saving' = saving /\ spoiled' = spoiled
    BY <1>2 DEF agentPlanVars
  <2>2. AgentPlanTypes'
    BY <2>1 DEF AgentPlanInv, AgentPlanTypes
  <2>3. ASSUME ~spoiled PROVE PlanIsSeen'
    <3>1. WellKept(planFile.items, planFile.version) /\ \A q \in Runs : OfThisPlan(q)
      BY <2>3 DEF AgentPlanInv, PlanIsSeen
    <3>2. \A q \in Runs : OfThisPlan(q)'
      BY <2>1, <3>1, StaysOfThisPlan
    <3>3. WellKept(planFile.items, planFile.version)'
      BY <2>1, <3>1
    <3> QED
      BY <3>2, <3>3 DEF PlanIsSeen
  <2> QED
    BY <2>1, <2>2, <2>3 DEF AgentPlanInv
<1> QED
  BY <1>1, <1>2

(* The agent's plan is typed: no version on disk, in a listing or in a save*)
(* passes the bound (core/plan/store.go), in any number of runs.           *)
THEOREM AgentPlanTypeCorrect == AgentPlanSpec => []AgentPlanTypeOK
<1>1. AgentPlanInv => AgentPlanTypeOK
  <2> SUFFICES ASSUME AgentPlanInv PROVE AgentPlanTypeOK
    OBVIOUS
  <2>1. planFile.version \in 0..MaxVersion /\ spoiled \in BOOLEAN
        /\ \A r \in Runs : listing[r].version \in 0..MaxVersion /\ SavingFits(saving[r])
    BY DEF AgentPlanInv, AgentPlanTypes, VersionsOfPlan
  <2> QED
    BY <2>1 DEF AgentPlanTypeOK, SavingFits
<1> QED
  BY <1>1, AgentPlanInitially, AgentPlanKeeps, PTL DEF AgentPlanSpec

(* update_item, remove_item and add_item do to a plan of any length what   *)
(* the agent that saw its ids means (tool/plan.go:209-244), after any lists*)
(* that were set, items that were removed and saves that were refused,     *)
(* unless two runs' calls crossed or a list numbered badly.                *)
THEOREM ItemsAreTheOnesSeen == AgentPlanSpec => TheItemItSaw
<1>1. AgentPlanInv /\ [AgentPlanNext]_agentPlanVars =>
       [~spoiled' =>
       \A r \in Runs : Rename(r) =>
          LET old == planFile.items
              new == planFile'.items
              meant == saving[r].meant
          IN CASE saving[r].op = "update_item" ->
                    /\ Tops(new) = Tops(old) /\ Identities(new) = Identities(old)
                    /\ IdsOf(new) = IdsOf(old)
                    /\ \A x \in Identities(old) \ {meant} : StateOf(new, x) = StateOf(old, x)
                    /\ StateOf(new, meant) = "completed"
               [] saving[r].op = "remove_item" ->
                    /\ meant \in Identities(old) \ Identities(new)
                    /\ IdsOf(new) \subseteq IdsOf(old)
                    /\ \A x \in Identities(old) \ Identities(new) :
                          x = meant \/ \E i \in DOMAIN old : /\ old[i].was = meant
                                                             /\ x \in Identities(<<old[i]>>)
                    /\ \A x \in Identities(new) : x \in Identities(old) /\ StateOf(new, x) = StateOf(old, x)
               [] saving[r].op = "add_item" ->
                    /\ SubSeq(new, 1, Len(old)) = old
                    /\ Len(new) = Len(old) + 1 /\ new[Len(new)].id \notin IdsOf(old)
               [] OTHER -> TRUE]_agentPlanVars
  <2> SUFFICES ASSUME AgentPlanInv, ~spoiled', NEW r \in Runs, Rename(r)
               PROVE  LET old == planFile.items
                          new == planFile'.items
                          meant == saving[r].meant
                      IN CASE saving[r].op = "update_item" -> UpdateMeans(meant, old, new)
                           [] saving[r].op = "remove_item" -> RemoveMeans(meant, old, new)
                           [] saving[r].op = "add_item" -> AddMeans(old, new)
                           [] OTHER -> TRUE
    BY DEF UpdateMeans, RemoveMeans, AddMeans
  <2>1. saving[r].at = "stamped" /\ planFile' = saving[r].file /\ ~spoiled /\ saving[r].base = planFile.version
    BY DEF Rename, IsCalling
  <2>2. Answers(saving[r], planFile)
    BY <2>1 DEF AgentPlanInv, PlanIsSeen, OfThisPlan
  <2>3. Means(saving[r], planFile.items, planFile'.items)
    BY <2>1, <2>2 DEF Answers
  <2> QED
    BY <2>3 DEF Means
<1> QED
  BY <1>1, AgentPlanInitially, AgentPlanKeeps, PTL DEF AgentPlanSpec, TheItemItSaw

==============================================================================
