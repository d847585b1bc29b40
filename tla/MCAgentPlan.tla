---------------------------- MODULE MCAgentPlan ----------------------------
(***************************************************************************)
(* The plan tool for TLC: what an agent may set, and how far two runs of   *)
(* the session overlap.                                                    *)
(***************************************************************************)
EXTENDS AgentPlan

CONSTANT MaxOverlap    \* version from which one run at a time is in a call

Whole(id) == [id |-> id, state |-> "", sub |-> <<>>]
Under(id) == [id |-> id, state |-> "", deep |-> FALSE]

(* The items of an older result in another order and a new one; a named    *)
(* item with two parts; an item and a part slipped in between old ones,    *)
(* which numbers badly; an item nested too deep.                           *)
MCItemLists ==
    { <<Whole(<<2>>), Whole(<<1>>), Whole(<<>>)>>,
      <<[Whole(<<0>>) EXCEPT !.sub = <<Under(<<>>), Under(<<>>)>>]>>,
      <<[Whole(<<1>>) EXCEPT !.sub = <<Under(<<1, 1>>), Under(<<>>)>>], Whole(<<>>), Whole(<<2>>)>>,
      <<[Whole(<<>>) EXCEPT !.sub = <<[Under(<<>>) EXCEPT !.deep = TRUE]>>]>> }

(* A behaviour is followed up to where the property stops speaking of it.  *)
AgentPlanStep ==
    /\ ~spoiled
    /\ AgentPlanNext
    /\ planFile.version >= MaxOverlap => \E r \in Runs : saving'[r].at = "idle"

=============================================================================
