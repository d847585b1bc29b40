------------------------------ MODULE MCAgents ------------------------------
(***************************************************************************)
(* The agent for TLC: the loop of a run, the asks its calls wait for, and  *)
(* the subagents that a root spawns under one label and waits for.         *)
(* They share no variable, so a behaviour moves one of them, the subject,  *)
(* and leaves the others where they start; a property that speaks of one   *)
(* holds beside the others exactly when it holds alone.                    *)
(***************************************************************************)
EXTENDS MCAgentLoop, MCAskGate, SubagentPool

CONSTANT root

VARIABLE subject

agentsVars == <<vars, gateVars, poolVars, subject>>

MCRootOf == [c \in Children |-> root]
MCLabelOf == [c \in Children |-> "scout"]

AgentsInit == Init /\ GateInit /\ PoolInit /\ subject \in {"loop", "asks", "subagents"}

Going == subject = "loop" /\ Step /\ UNCHANGED <<gateVars, poolVars, subject>>

AgentsNext ==
    \/ Going
    \/ subject = "loop" /\ (\E h \in Hints : PostHint(h)) /\ UNCHANGED <<gateVars, poolVars, subject>>
    \/ subject = "asks" /\ GateNext /\ UNCHANGED <<vars, poolVars, subject>>
    \/ subject = "subagents" /\ PoolNext /\ UNCHANGED <<vars, gateVars, subject>>

(* The loop goes on: a provider answers or fails (its client has a         *)
(* timeout), and tools and checks end.  Where asks and subagents start,    *)
(* none of their fair actions is enabled.                                  *)
AgentsSpec ==
    AgentsInit /\ [][AgentsNext]_agentsVars /\ WF_agentsVars(Going) /\ GateFairness /\ PoolFairness

(* A run ends, whatever its agent does and whatever its checks, its        *)
(* provider and its users say (runner.go:953).                             *)
RunEnds == []<>(subject = "loop" => pc = "over")

=============================================================================
