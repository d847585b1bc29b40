---------------------------- MODULE MCAgentLoop ----------------------------
(* AgentLoop for TLC: few iterations, a small budget, a short history. *)
EXTENDS AgentLoop, TLC

CONSTANTS h1, h2

SmallCap == ("tokens" :> 4) @@ ("cost" :> 2)
MCCharges == {("tokens" :> t) @@ ("cost" :> c) : <<t, c>> \in {<<0, 0>>, <<2, 0>>, <<1, 1>>}}

=============================================================================
