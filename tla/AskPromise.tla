----------------------------- MODULE AskPromise -----------------------------
(***************************************************************************)
(* What asking a user comes to, for the permission asks of run.go: an ask  *)
(* that is posted is settled once; it is settled "allow" only by a user    *)
(* who said so, and "deny" at any time, since silence denies.              *)
(***************************************************************************)
CONSTANT Asks

VARIABLES
    state, \* "unposted", "open", and then the verdict, "allow" or "deny"
    said   \* the verdicts users have called for

Verdicts == {"allow", "deny"}

Init ==
    /\ state = [a \in Asks |-> "unposted"]
    /\ said = [a \in Asks |-> {}]

Post(a) ==
    /\ state[a] = "unposted"
    /\ state' = [state EXCEPT ![a] = "open"]
    /\ UNCHANGED said

Say(a, v) ==
    /\ state[a] # "unposted"
    /\ said' = [said EXCEPT ![a] = @ \cup {v}]
    /\ UNCHANGED state

Settle(a, v) ==
    /\ state[a] = "open"
    /\ v \in said[a] \cup {"deny"}
    /\ state' = [state EXCEPT ![a] = v]
    /\ UNCHANGED said

Next == \E a \in Asks :
    \/ Post(a)
    \/ \E v \in Verdicts : Say(a, v) \/ Settle(a, v)

Safety == Init /\ [][Next]_<<state, said>>

\* Every ask that is posted is settled.
Spec == Safety /\ \A a \in Asks : WF_<<state, said>>(\E v \in Verdicts : Settle(a, v))

=============================================================================
