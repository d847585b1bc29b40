------------------------- MODULE SubagentPoolProofs -------------------------
(***************************************************************************)
(* The safety properties of SubagentPool, and that it implements SlotPool, *)
(* for any numbers of roots, calls, waits and restarts and any cap.        *)
(*                                                                         *)
(* SlotsAddUp is not inductive: that a holder leaves the set at the moment *)
(* the count falls needs each child to hold its slot in one way only, and  *)
(* that a slot is not given back under a run needs to know where a closure *)
(* can be while its child is alive.  PlacesInv says both.                  *)
(***************************************************************************)
EXTENDS SubagentPool, FiniteSetTheorems, TLAPS

PlacesInv ==
    /\ \A c \in releases : spawn[c] = "returned"
    /\ \A c \in alive :
        /\ spawn[c] \in {"started", "returned"}
        /\ row[c] \in {"running", "gone"}
        /\ spawn[c] = "returned" => c \in releases
    /\ \A w \in Waiters :
        /\ wait[w].does # "nothing" => wait[w].child \in Children
        /\ wait[w].does = "releases" =>
            /\ spawn[wait[w].child] = "returned"
            /\ wait[w].child \notin releases \cup alive
            /\ \A v \in Waiters \ {w} : wait[v].does = "releases" => wait[v].child # wait[w].child

PoolInv == PoolTypeOK /\ PlacesInv /\ SlotsAddUp

-----------------------------------------------------------------------------
(* The count and the set it counts. *)

LEMMA HoldersAreChildren ==
    ASSUME PoolTypeOK, PlacesInv
    PROVE  /\ Holders \subseteq Children
           /\ alive \subseteq Holders
           /\ \A r \in Roots : IsFiniteSet(HoldersOf(r)) /\ Cardinality(HoldersOf(r)) \in Nat
<1>1. Holders \subseteq Children
  BY DEF Holders, InFlight, Firing, PlacesInv, PoolTypeOK
<1>2. alive \subseteq Holders
  BY DEF Holders, InFlight, PlacesInv, PoolTypeOK
<1>3. ASSUME NEW r \in Roots PROVE IsFiniteSet(HoldersOf(r)) /\ Cardinality(HoldersOf(r)) \in Nat
  <2>1. HoldersOf(r) \in SUBSET Children
    BY <1>1 DEF HoldersOf
  <2>2. IsFiniteSet(HoldersOf(r))
    BY <2>1, PoolAssumption, FS_Subset
  <2> QED
    BY <2>2, FS_CardinalityType
<1> QED
  BY <1>1, <1>2, <1>3

LEMMA OneMore ==
    ASSUME PoolTypeOK, PlacesInv, SlotsAddUp, NEW c \in Children, c \notin Holders,
           Holders' = Holders \cup {c}, count' = [count EXCEPT ![RootOf[c]] = @ + 1]
    PROVE  SlotsAddUp'
<1> SUFFICES ASSUME NEW r \in Roots PROVE count'[r] = Cardinality(HoldersOf(r)')
  BY DEF SlotsAddUp
<1>1. IsFiniteSet(HoldersOf(r)) /\ Cardinality(HoldersOf(r)) \in Nat /\ count[r] = Cardinality(HoldersOf(r))
  BY HoldersAreChildren DEF SlotsAddUp
<1>2. CASE r = RootOf[c]
  <2>1. HoldersOf(r)' = HoldersOf(r) \cup {c} /\ c \notin HoldersOf(r)
    BY <1>2 DEF HoldersOf
  <2>2. Cardinality(HoldersOf(r) \cup {c}) = Cardinality(HoldersOf(r)) + 1
    BY <1>1, <2>1, FS_AddElement
  <2>3. count'[r] = count[r] + 1
    BY <1>2 DEF PoolTypeOK
  <2> QED
    BY <1>1, <2>1, <2>2, <2>3
<1>3. CASE r # RootOf[c]
  <2>1. HoldersOf(r)' = HoldersOf(r)
    BY <1>3 DEF HoldersOf
  <2> QED
    BY <1>1, <1>3, <2>1 DEF PoolTypeOK
<1> QED
  BY <1>2, <1>3

LEMMA OneLess ==
    ASSUME PoolTypeOK, PlacesInv, SlotsAddUp, NEW c \in Children, c \in Holders,
           Holders' = Holders \ {c}, count' = Lower(RootOf[c])
    PROVE  SlotsAddUp' /\ count' \in [Roots -> 0..MaxPerRoot]
<1>1. RootOf[c] \in Roots /\ MaxPerRoot \in Nat
  BY PoolAssumption
<1>2. count' \in [Roots -> 0..MaxPerRoot]
  BY <1>1 DEF Lower, PoolTypeOK
<1>3. ASSUME NEW r \in Roots PROVE count'[r] = Cardinality(HoldersOf(r)')
  <2>1. IsFiniteSet(HoldersOf(r)) /\ Cardinality(HoldersOf(r)) \in Nat /\ count[r] = Cardinality(HoldersOf(r))
    BY HoldersAreChildren DEF SlotsAddUp
  <2>2. CASE r = RootOf[c]
    <3>1. HoldersOf(r)' = HoldersOf(r) \ {c} /\ c \in HoldersOf(r)
      BY <2>2 DEF HoldersOf
    <3>2. Cardinality(HoldersOf(r) \ {c}) = Cardinality(HoldersOf(r)) - 1
      BY <2>1, <3>1, FS_RemoveElement
    <3>3. count[r] # 0
      BY <2>1, <3>1, FS_EmptySet
    <3>4. count'[r] = IF count[r] > 1 THEN count[r] - 1 ELSE 0
      BY <2>2 DEF Lower, PoolTypeOK
    <3> QED
      BY <2>1, <3>1, <3>2, <3>3, <3>4
  <2>3. CASE r # RootOf[c]
    <3>1. HoldersOf(r)' = HoldersOf(r)
      BY <2>3 DEF HoldersOf
    <3> QED
      BY <2>1, <2>3, <3>1 DEF Lower, PoolTypeOK
  <2> QED
    BY <2>2, <2>3
<1> QED
  BY <1>2, <1>3 DEF SlotsAddUp

LEMMA NoneMoved ==
    ASSUME SlotsAddUp, Holders' = Holders, count' = count
    PROVE  SlotsAddUp'
BY DEF SlotsAddUp, HoldersOf

-----------------------------------------------------------------------------
(* spawn_agent. *)

\* A spawn_agent call that moves on while it holds its slot.
LEMMA SpawnKeeps ==
    ASSUME PoolInv, NEW c \in Children, CreateRow(c) \/ FreezeRow(c) \/ StartRun(c) \/ Register(c)
    PROVE  PoolInv' /\ Holders' = Holders
<1> USE DEF PoolInv
<1>1. PoolTypeOK'
  <2>1. CASE CreateRow(c)
    <3>1. born' \in Seq(Children)
      BY <2>1 DEF PoolTypeOK, CreateRow
    <3> QED
      BY <2>1, <3>1 DEF PoolTypeOK, CreateRow
  <2>2. CASE FreezeRow(c)
    BY <2>2 DEF PoolTypeOK, FreezeRow
  <2>3. CASE StartRun(c)
    BY <2>3 DEF PoolTypeOK, StartRun
  <2>4. CASE Register(c)
    BY <2>4 DEF PoolTypeOK, Register
  <2> QED
    BY <2>1, <2>2, <2>3, <2>4
<1>2. /\ c \in InFlight
      /\ c \notin releases
      /\ \A d \in Children \ {c} : spawn'[d] = spawn[d] /\ row'[d] = row[d]
      /\ UNCHANGED <<count, wait>>
  BY DEF PoolTypeOK, PlacesInv, InFlight, CreateRow, FreezeRow, StartRun, Register
<1>3. /\ spawn[c] \in {"reserved", "created", "frozen"} => c \notin alive
      /\ \A w \in Waiters : wait[w].does = "releases" => wait[w].child # c
  BY <1>2 DEF PlacesInv, InFlight
<1>4. PlacesInv'
  BY <1>2, <1>3 DEF PoolTypeOK, PlacesInv, CreateRow, FreezeRow, StartRun, Register
<1>5. Holders' = Holders
  <2>1. InFlight' \cup releases' = InFlight \cup releases
    <3>1. CASE Register(c)
      <4>1. spawn'[c] = "returned" /\ releases' = releases \cup {c}
        BY <3>1 DEF Register, PoolTypeOK
      <4>2. InFlight' = InFlight \ {c}
        BY <4>1, <1>2 DEF InFlight
      <4> QED
        BY <4>1, <4>2, <1>2
    <3>2. CASE CreateRow(c) \/ FreezeRow(c) \/ StartRun(c)
      <4>1. spawn'[c] \in {"created", "frozen", "started"} /\ releases' = releases
        BY <3>2 DEF CreateRow, FreezeRow, StartRun, PoolTypeOK
      <4>2. InFlight' = InFlight
        BY <4>1, <1>2 DEF InFlight
      <4> QED
        BY <4>1, <4>2
    <3> QED
      BY <3>1, <3>2
  <2> QED
    BY <2>1, <1>2 DEF Holders, Firing
<1> QED
  BY <1>1, <1>2, <1>4, <1>5, NoneMoved

LEMMA ReserveKeeps ==
    ASSUME PoolInv, NEW c \in Children, ReserveSlot(c)
    PROVE  PoolInv' /\ c \notin Holders /\ Holders' = Holders \cup {c}
<1> USE DEF PoolInv
<1>1. /\ spawn[c] = "idle" /\ count[RootOf[c]] < MaxPerRoot
      /\ count' = [count EXCEPT ![RootOf[c]] = @ + 1]
      /\ spawn' = [spawn EXCEPT ![c] = "reserved"]
      /\ UNCHANGED <<row, born, alive, releases, wait, doomed, restarts>>
  BY DEF ReserveSlot
<1>2. RootOf[c] \in Roots /\ MaxPerRoot \in Nat
  BY PoolAssumption
<1>3. PoolTypeOK'
  BY <1>1, <1>2 DEF PoolTypeOK
<1>4. PlacesInv'
  BY <1>1 DEF PoolTypeOK, PlacesInv
<1>5. c \notin Holders
  BY <1>1 DEF Holders, InFlight, Firing, PlacesInv
<1>6. InFlight' = InFlight \cup {c}
  BY <1>1 DEF InFlight, PoolTypeOK
<1>7. Holders' = Holders \cup {c}
  BY <1>1, <1>6 DEF Holders, Firing
<1> QED
  BY <1>1, <1>3, <1>4, <1>5, <1>7, OneMore

LEMMA SpawnFailsKeeps ==
    ASSUME PoolInv, NEW c \in Children, SpawnFails(c)
    PROVE  PoolInv' /\ c \in Holders \ alive /\ Holders' = Holders \ {c}
<1> USE DEF PoolInv
<1>1. /\ spawn[c] \in {"reserved", "created", "frozen"}
      /\ spawn' = [spawn EXCEPT ![c] = "failed"]
      /\ count' = Lower(RootOf[c])
      /\ UNCHANGED <<row, born, alive, releases, wait, doomed, restarts>>
  BY DEF SpawnFails
<1>2. c \in InFlight /\ c \notin releases \cup Firing \cup alive
  BY <1>1 DEF InFlight, Firing, PlacesInv
<1>3. InFlight' = InFlight \ {c}
  BY <1>1 DEF InFlight, PoolTypeOK
<1>4. c \in Holders /\ Holders' = Holders \ {c}
  BY <1>1, <1>2, <1>3 DEF Holders, Firing
<1>5. SlotsAddUp' /\ count' \in [Roots -> 0..MaxPerRoot]
  BY <1>1, <1>4, OneLess
<1>6. PoolTypeOK'
  BY <1>1, <1>5 DEF PoolTypeOK
<1>7. PlacesInv'
  BY <1>1, <1>2 DEF PoolTypeOK, PlacesInv
<1> QED
  BY <1>2, <1>4, <1>5, <1>6, <1>7

-----------------------------------------------------------------------------
(* Runs, rows and restarts. *)

LEMMA RunKeeps ==
    ASSUME PoolInv, NEW c \in Children, Report(c) \/ EndUnreported(c) \/ CheckDelete(c) \/ DeleteRow(c)
    PROVE  PoolInv' /\ Holders' = Holders
<1> USE DEF PoolInv
<1>1. PoolTypeOK'
  BY DEF PoolTypeOK, Report, EndUnreported, CheckDelete, DeleteRow
<1>2. UNCHANGED <<count, spawn, releases, wait>>
  BY DEF Report, EndUnreported, CheckDelete, DeleteRow
<1>3. /\ alive' \subseteq alive
      /\ \A d \in alive' : row'[d] \in {row[d], "gone"}
  BY DEF PoolTypeOK, Report, EndUnreported, CheckDelete, DeleteRow
<1>4. PlacesInv'
  BY <1>2, <1>3 DEF PlacesInv
<1>5. Holders' = Holders
  BY <1>2 DEF Holders, InFlight, Firing
<1> QED
  BY <1>1, <1>2, <1>4, <1>5, NoneMoved

LEMMA RestartKeeps ==
    ASSUME PoolInv, Restart
    PROVE  PoolInv' /\ Holders' = {} /\ alive' = {}
<1> USE DEF PoolInv
<1>1. /\ count' = [r \in Roots |-> 0]
      /\ spawn' = [c \in Children |->
            IF spawn[c] \in {"reserved", "created", "frozen", "started"} THEN "failed" ELSE spawn[c]]
      /\ alive' = {} /\ releases' = {} /\ doomed' = {} /\ restarts' = restarts + 1
      /\ wait' = [w \in Waiters |-> Free]
      /\ UNCHANGED <<row, born>>
  BY DEF Restart
<1>2. PoolTypeOK'
  <2>1. MaxPerRoot \in Nat
    BY PoolAssumption
  <2>2. count' \in [Roots -> 0..MaxPerRoot]
    BY <1>1, <2>1
  <2>3. spawn' \in [Children -> {"idle", "reserved", "created", "frozen", "started", "returned", "failed"}]
    BY <1>1 DEF PoolTypeOK
  <2>4. wait' \in [Waiters -> [does : {"nothing", "polls", "releases"}, child : Children \cup {Nobody}]]
    BY <1>1 DEF Free
  <2> QED
    BY <1>1, <2>2, <2>3, <2>4 DEF PoolTypeOK
<1>3. PlacesInv'
  BY <1>1 DEF PlacesInv, Free
<1>4. Holders' = {}
  <2>1. InFlight' = {}
    BY <1>1 DEF InFlight, PoolTypeOK
  <2>2. Firing' = {}
    BY <1>1 DEF Firing, Free
  <2> QED
    BY <1>1, <2>1, <2>2 DEF Holders
<1>5. SlotsAddUp'
  <2> SUFFICES ASSUME NEW r \in Roots PROVE count'[r] = Cardinality(HoldersOf(r)')
    BY DEF SlotsAddUp
  <2>1. HoldersOf(r)' = {}
    BY <1>4 DEF HoldersOf
  <2> QED
    BY <1>1, <2>1, FS_EmptySet
<1> QED
  BY <1>1, <1>2, <1>3, <1>4, <1>5

-----------------------------------------------------------------------------
(* wait_agent. *)

LEMMA WaitKeeps ==
    ASSUME PoolInv, NEW w \in Waiters, GiveUpWait(w) \/ \E c \in Children : BeginWait(w, c)
    PROVE  PoolInv' /\ Holders' = Holders
<1> USE DEF PoolInv
<1>1. PICK f : /\ wait' = [wait EXCEPT ![w] = f]
               /\ f = Free \/ \E c \in Children : f = [does |-> "polls", child |-> c]
  BY DEF GiveUpWait, BeginWait
<1>2. /\ wait[w].does # "releases"
      /\ UNCHANGED <<count, spawn, row, born, alive, releases, doomed, restarts>>
  BY DEF GiveUpWait, BeginWait
<1>3. f \in [does : {"nothing", "polls"}, child : Children \cup {Nobody}] /\ (f.does # "nothing" => f.child \in Children)
  BY <1>1 DEF Free
<1>4. PoolTypeOK'
  BY <1>1, <1>2, <1>3 DEF PoolTypeOK
<1>5. wait'[w] = f /\ \A v \in Waiters \ {w} : wait'[v] = wait[v]
  BY <1>1 DEF PoolTypeOK
<1>6. PlacesInv'
  BY <1>2, <1>3, <1>5 DEF PlacesInv
<1>7. Firing' = Firing
  BY <1>2, <1>3, <1>5 DEF Firing
<1>8. Holders' = Holders
  BY <1>2, <1>7 DEF Holders, InFlight
<1> QED
  BY <1>2, <1>4, <1>6, <1>8, NoneMoved

LEMMA TakeReleaseKeeps ==
    ASSUME PoolInv, NEW w \in Waiters, TakeRelease(w)
    PROVE  PoolInv' /\ Holders' = Holders
<1> USE DEF PoolInv
<1> DEFINE c == wait[w].child
<1>1. /\ wait[w].does = "polls" /\ row[c] = "over"
      /\ wait' = [wait EXCEPT ![w] = IF c \in releases THEN [does |-> "releases", child |-> c] ELSE Free]
      /\ releases' = releases \ {c}
      /\ UNCHANGED <<count, spawn, row, born, alive, doomed, restarts>>
  BY DEF TakeRelease, Terminal
<1> HIDE DEF c
<1>2. c \in Children /\ c \notin alive /\ c = wait[w].child
  BY <1>1 DEF PlacesInv, c
<1>3. \A v \in Waiters \ {w} : wait'[v] = wait[v]
  BY <1>1 DEF PoolTypeOK
<1>4. wait'[w] = IF c \in releases THEN [does |-> "releases", child |-> c] ELSE Free
  BY <1>1 DEF PoolTypeOK
<1>5. PoolTypeOK'
  <2>1. wait' \in [Waiters -> [does : {"nothing", "polls", "releases"}, child : Children \cup {Nobody}]]
    BY <1>1, <1>2 DEF PoolTypeOK, Free
  <2> QED
    BY <1>1, <2>1 DEF PoolTypeOK
<1>6. PlacesInv'
  BY <1>1, <1>2, <1>3, <1>4 DEF PlacesInv, Free
<1>7. Firing' = IF c \in releases THEN Firing \cup {c} ELSE Firing
  BY <1>1, <1>3, <1>4 DEF Firing, Free
<1>8. Holders' = Holders
  BY <1>1, <1>7 DEF Holders, InFlight
<1> QED
  BY <1>1, <1>5, <1>6, <1>8, NoneMoved

LEMMA ReleaseKeeps ==
    ASSUME PoolInv, NEW w \in Waiters, Release(w)
    PROVE  \E c \in Children : PoolInv' /\ c \in Holders \ alive /\ Holders' = Holders \ {c}
<1> USE DEF PoolInv
<1> DEFINE c == wait[w].child
<1>1. /\ wait[w].does = "releases"
      /\ count' = Lower(RootOf[c])
      /\ wait' = [wait EXCEPT ![w] = Free]
      /\ UNCHANGED <<spawn, row, born, alive, releases, doomed, restarts>>
  BY DEF Release
<1> HIDE DEF c
<1>2. c \in Children /\ spawn[c] = "returned" /\ c \notin releases \cup alive /\ c = wait[w].child
  BY <1>1 DEF PlacesInv, c
<1>3. wait'[w] = Free /\ \A v \in Waiters \ {w} : wait'[v] = wait[v]
  BY <1>1 DEF PoolTypeOK
<1>4. c \in Firing /\ Firing' = Firing \ {c}
  BY <1>1, <1>2, <1>3 DEF Firing, Free, PlacesInv
<1>5. c \in Holders /\ Holders' = Holders \ {c}
  BY <1>1, <1>2, <1>4 DEF Holders, InFlight
<1>6. SlotsAddUp' /\ count' \in [Roots -> 0..MaxPerRoot]
  BY <1>1, <1>2, <1>5, OneLess
<1>7. PoolTypeOK'
  BY <1>1, <1>6 DEF PoolTypeOK, Free
<1>8. PlacesInv'
  BY <1>1, <1>3 DEF PlacesInv, Free
<1> QED
  BY <1>2, <1>5, <1>6, <1>7, <1>8

-----------------------------------------------------------------------------
(* The theorems. *)

LEMMA PoolInitially == PoolInit => PoolInv
<1> SUFFICES ASSUME PoolInit PROVE PoolInv
  OBVIOUS
<1> USE DEF PoolInit
<1>1. PoolTypeOK
  BY PoolAssumption DEF PoolTypeOK, Free
<1>2. PlacesInv
  BY DEF PlacesInv, Free
<1>3. Holders = {}
  BY DEF Holders, InFlight, Firing, Free
<1>4. \A r \in Roots : HoldersOf(r) = {}
  BY <1>3 DEF HoldersOf
<1>5. SlotsAddUp
  BY <1>4, FS_EmptySet DEF SlotsAddUp
<1> QED
  BY <1>1, <1>2, <1>5 DEF PoolInv

LEMMA PoolStep == PoolInv /\ [PoolNext]_poolVars => PoolInv'
<1> SUFFICES ASSUME PoolInv, [PoolNext]_poolVars PROVE PoolInv'
  OBVIOUS
<1>1. ASSUME NEW c \in Children,
             \/ ReserveSlot(c) \/ CreateRow(c) \/ FreezeRow(c) \/ StartRun(c) \/ Register(c)
             \/ SpawnFails(c) \/ Report(c) \/ EndUnreported(c) \/ CheckDelete(c) \/ DeleteRow(c)
             \/ \E w \in Waiters : BeginWait(w, c)
      PROVE  PoolInv'
  BY <1>1, ReserveKeeps, SpawnKeeps, SpawnFailsKeeps, RunKeeps, WaitKeeps
<1>2. ASSUME NEW w \in Waiters, TakeRelease(w) \/ Release(w) \/ GiveUpWait(w)
      PROVE  PoolInv'
  BY <1>2, TakeReleaseKeeps, ReleaseKeeps, WaitKeeps
<1>3. CASE Restart
  BY <1>3, RestartKeeps
<1>4. CASE UNCHANGED poolVars
  BY <1>4 DEF PoolInv, PoolTypeOK, PlacesInv, SlotsAddUp, HoldersOf, Holders, InFlight, Firing, poolVars
<1> QED
  BY <1>1, <1>2, <1>3, <1>4 DEF PoolNext

\* PoolInv holds whenever the daemon runs.
THEOREM PoolInvariant == PoolSafety => []PoolInv
<1> QED
  BY PoolInitially, PoolStep, PTL DEF PoolSafety

\* Every reachable state is well typed, and no count exceeds the cap
\* (subagentRegistry.spawn refuses at the cap).
THEOREM TypeCorrect == PoolSafety => []PoolTypeOK
<1>1. PoolInv => PoolTypeOK
  BY DEF PoolInv
<1> QED
  BY <1>1, PoolInvariant, PTL

\* The count of a root is the number of its subagents that still have a slot
\* to give back (activePerRoot against subagentReleases).
THEOREM CountIsExact == PoolSafety => []SlotsAddUp
<1>1. PoolInv => SlotsAddUp
  BY DEF PoolInv
<1> QED
  BY <1>1, PoolInvariant, PTL

\* No root ever has more running subagents than subagentMaxPerRoot.
THEOREM CapHolds == PoolSafety => []RunsWithinCap
<1>1. ASSUME PoolInv, NEW r \in Roots PROVE Cardinality({c \in alive : RootOf[c] = r}) <= MaxPerRoot
  <2> DEFINE runs == {c \in alive : RootOf[c] = r}
  <2>1. runs \in SUBSET HoldersOf(r) /\ IsFiniteSet(HoldersOf(r)) /\ Cardinality(HoldersOf(r)) \in Nat
    BY <1>1, HoldersAreChildren DEF PoolInv, HoldersOf
  <2>2. IsFiniteSet(runs) /\ Cardinality(runs) <= Cardinality(HoldersOf(r))
    BY <2>1, FS_Subset
  <2>3. Cardinality(runs) \in Nat
    BY <2>2, FS_CardinalityType
  <2>4. Cardinality(HoldersOf(r)) \in 0..MaxPerRoot /\ MaxPerRoot \in Nat
    BY <1>1, PoolAssumption DEF PoolInv, SlotsAddUp, PoolTypeOK
  <2> QED
    BY <2>1, <2>2, <2>3, <2>4
<1>2. PoolInv => RunsWithinCap
  BY <1>1 DEF RunsWithinCap
<1> QED
  BY <1>2, PoolInvariant, PTL

\* Every step of the registry and its callers is a step of SlotPool or leaves
\* its state alone: a slot is taken under the cap, given back once, and never
\* under a run.
THEOREM ImplementsPool == PoolSafety => KeepsPool
<1>1. PoolInit => Pool!Init
  BY DEF PoolInit, Pool!Init, Holders, InFlight, Firing, Free
<1>2. ASSUME PoolInv, [PoolNext]_poolVars PROVE [Pool!Next]_<<Holders, alive>>
  <2>1. ASSUME NEW c \in Children, ReserveSlot(c) PROVE Pool!Acquire(c)
    <3>1. c \notin Holders /\ Holders' = Holders \cup {c} /\ UNCHANGED alive
      BY <1>2, <2>1, ReserveKeeps DEF ReserveSlot
    <3>2. count[RootOf[c]] = Cardinality(HoldersOf(RootOf[c])) /\ count[RootOf[c]] < MaxPerRoot
      BY <1>2, <2>1, PoolAssumption DEF PoolInv, SlotsAddUp, ReserveSlot
    <3>3. Pool!Under(RootOf[c], Holders) = HoldersOf(RootOf[c])
      BY DEF Pool!Under, HoldersOf
    <3>4. \A S : Pool!Cardinality(S) = Cardinality(S)
      BY DEF Pool!Cardinality, Cardinality, Pool!IsFiniteSet, IsFiniteSet
    <3> QED
      BY <3>1, <3>2, <3>3, <3>4 DEF Pool!Acquire
  <2>2. ASSUME NEW c \in Children, CreateRow(c) \/ FreezeRow(c) \/ Register(c)
        PROVE  UNCHANGED <<Holders, alive>>
    BY <1>2, <2>2, SpawnKeeps DEF CreateRow, FreezeRow, Register
  <2>3. ASSUME NEW c \in Children, StartRun(c) PROVE Pool!Launch(c)
    <3>1. Holders' = Holders /\ c \in Holders \ alive /\ alive' = alive \cup {c}
      BY <1>2, <2>3, SpawnKeeps DEF StartRun, Holders, InFlight, PoolInv, PlacesInv
    <3> QED
      BY <3>1 DEF Pool!Launch
  <2>4. ASSUME NEW c \in Children, SpawnFails(c) PROVE Pool!Give(c)
    BY <1>2, <2>4, SpawnFailsKeeps DEF Pool!Give, SpawnFails
  <2>5. ASSUME NEW c \in Children, Report(c) \/ EndUnreported(c) PROVE Pool!End(c)
    BY <1>2, <2>5, RunKeeps DEF Pool!End, Report, EndUnreported
  <2>6. ASSUME NEW c \in Children, CheckDelete(c) \/ DeleteRow(c) PROVE UNCHANGED <<Holders, alive>>
    BY <1>2, <2>6, RunKeeps DEF CheckDelete, DeleteRow
  <2>7. ASSUME NEW w \in Waiters, GiveUpWait(w) \/ \E c \in Children : BeginWait(w, c)
        PROVE  UNCHANGED <<Holders, alive>>
    BY <1>2, <2>7, WaitKeeps DEF GiveUpWait, BeginWait
  <2>8. ASSUME NEW w \in Waiters, TakeRelease(w) PROVE UNCHANGED <<Holders, alive>>
    BY <1>2, <2>8, TakeReleaseKeeps DEF TakeRelease
  <2>9. ASSUME NEW w \in Waiters, Release(w) PROVE \E c \in Children : Pool!Give(c)
    BY <1>2, <2>9, ReleaseKeeps DEF Pool!Give, Release
  <2>10. CASE Restart
    BY <1>2, <2>10, RestartKeeps DEF Pool!Die, Pool!Next
  <2>11. CASE UNCHANGED poolVars
    BY <2>11 DEF Holders, InFlight, Firing, poolVars
  <2> QED
    BY <1>2, <2>1, <2>2, <2>3, <2>4, <2>5, <2>6, <2>7, <2>8, <2>9, <2>10, <2>11 DEF PoolNext, Pool!Next
<1> QED
  BY <1>1, <1>2, PoolInvariant, PTL DEF PoolSafety, KeepsPool, Pool!Spec

=============================================================================
