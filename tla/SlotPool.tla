------------------------------ MODULE SlotPool ------------------------------
(***************************************************************************)
(* What the cap on subagents promises: each root has so many slots, a      *)
(* subagent runs only while it holds one, and gives it back when it no     *)
(* longer runs.  A daemon that dies takes its subagents and all slots      *)
(* with it.                                                                *)
(***************************************************************************)
EXTENDS Integers, FiniteSets

CONSTANTS Children, Roots, RootOf, MaxPerRoot

VARIABLES held, running

Init == held = {} /\ running = {}

Under(r, S) == {c \in S : RootOf[c] = r}

Acquire(c) ==
    /\ c \notin held
    /\ Cardinality(Under(RootOf[c], held)) < MaxPerRoot
    /\ held' = held \cup {c}
    /\ UNCHANGED running

Launch(c) ==
    /\ c \in held \ running
    /\ running' = running \cup {c}
    /\ UNCHANGED held

End(c) ==
    /\ c \in running
    /\ running' = running \ {c}
    /\ UNCHANGED held

Give(c) ==
    /\ c \in held \ running
    /\ held' = held \ {c}
    /\ UNCHANGED running

Die == held' = {} /\ running' = {}

Next ==
    \/ \E c \in Children : Acquire(c) \/ Launch(c) \/ End(c) \/ Give(c)
    \/ Die

Spec == Init /\ [][Next]_<<held, running>>

=============================================================================
