----------------------------- MODULE MCSession -----------------------------
(***************************************************************************)
(* The parts of a session for TLC: its prompts, what their tools do to the *)
(* files, its plan, its spec, its MCP servers, the clients that talk to    *)
(* servers, the questions of its runs, the detector that watches them and  *)
(* the tools they edit with.                                               *)
(* They share no variable, so a behaviour moves one of them, the subject,  *)
(* and leaves the others where they start; a property that speaks of one   *)
(* holds beside the others exactly when it holds alone.                    *)
(***************************************************************************)
EXTENDS ChatTurn, TurnEdits, PlanSteps, SpecStore, McpServers, RpcClient, MCStuckDetector, Clarify,
        MCEditBlocks, MCPatchHunks, Checkpoints, MCAgentPlan

CONSTANT f2

VARIABLE subject

a == <<"a">>
b == <<"b">>
MCContents == {a}
MCSnippets == {a, b}

Update(f, hunks) == [kind |-> "update", file |-> f, hunks |-> hunks]
Hunk(old, new) == [old |-> old, new |-> new]

(* Two files updated, one added and one removed, two hunks that follow     *)
(* each other.                                                             *)
MCPatches ==
    { <<Update(f1, <<Hunk(a, b)>>), Update(f2, <<Hunk(b, a)>>)>>,
      <<[kind |-> "add", file |-> f2, body |-> a], [kind |-> "delete", file |-> f1]>>,
      <<Update(f1, <<Hunk(a, b), Hunk(b, a)>>)>> }

others == <<editVars, planVars, specVars, mcpVars, rpcVars, stuckVars, clarifyVars, blockVars, patchVars, checkpointVars, agentPlanVars>>
vars == <<chatVars, others, subject>>

Init ==
    /\ ChatInit /\ EditsInit /\ PlanInit /\ SpecInit /\ McpInit /\ RpcInit /\ StuckInit /\ ClarifyInit
    /\ BlocksInit /\ PatchInit /\ CheckpointsInit /\ AgentPlanInit
    /\ subject \in {"prompts", "files", "plan", "spec", "servers", "clients", "detector", "questions",
                   "edits", "patches", "checkpoints", "agent plan"}
    /\ subject # "files" => \A f \in Files : disk[f] = Absent
    /\ subject # "clients" => kind = "lsp"
    /\ subject # "edits" => \A f \in EditFiles : tree[f] = Gone
    /\ subject # "patches" => shelf["one"] = NoText
    /\ subject # "checkpoints" => bench = NoTree

(* After a race with the loop no property speaks of the checkpoints.       *)
Next ==
    \/ /\ subject = "prompts" /\ ChatNext
       /\ UNCHANGED <<others, subject>>
    \/ /\ subject = "files" /\ EditsNext
       /\ UNCHANGED <<chatVars, planVars, specVars, mcpVars, rpcVars, stuckVars,
                     clarifyVars, blockVars, patchVars, checkpointVars, agentPlanVars, subject>>
    \/ /\ subject = "plan" /\ PlanNext
       /\ UNCHANGED <<chatVars, editVars, specVars, mcpVars, rpcVars, stuckVars,
                     clarifyVars, blockVars, patchVars, checkpointVars, agentPlanVars, subject>>
    \/ /\ subject = "spec" /\ SpecNext
       /\ UNCHANGED <<chatVars, editVars, planVars, mcpVars, rpcVars, stuckVars,
                     clarifyVars, blockVars, patchVars, checkpointVars, agentPlanVars, subject>>
    \/ /\ subject = "servers" /\ McpNext
       /\ UNCHANGED <<chatVars, editVars, planVars, specVars, rpcVars, stuckVars,
                     clarifyVars, blockVars, patchVars, checkpointVars, agentPlanVars, subject>>
    \/ /\ subject = "clients" /\ RpcNext
       /\ UNCHANGED <<chatVars, editVars, planVars, specVars, mcpVars, stuckVars,
                     clarifyVars, blockVars, patchVars, checkpointVars, agentPlanVars, subject>>
    \/ /\ subject = "detector" /\ StuckNext
       /\ UNCHANGED <<chatVars, editVars, planVars, specVars, mcpVars, rpcVars,
                     clarifyVars, blockVars, patchVars, checkpointVars, agentPlanVars, subject>>
    \/ /\ subject = "questions" /\ ClarifyNext
       /\ UNCHANGED <<chatVars, editVars, planVars, specVars, mcpVars, rpcVars,
                     stuckVars, blockVars, patchVars, checkpointVars, agentPlanVars, subject>>
    \/ /\ subject = "edits" /\ BlocksNext
       /\ UNCHANGED <<chatVars, editVars, planVars, specVars, mcpVars, rpcVars,
                     stuckVars, clarifyVars, patchVars, checkpointVars, agentPlanVars, subject>>
    \/ /\ subject = "patches" /\ PatchNext
       /\ UNCHANGED <<chatVars, editVars, planVars, specVars, mcpVars, rpcVars,
                     stuckVars, clarifyVars, blockVars, checkpointVars, agentPlanVars, subject>>
    \/ /\ subject = "checkpoints" /\ ~raced /\ CheckpointsNext
       /\ UNCHANGED <<chatVars, editVars, planVars, specVars, mcpVars, rpcVars,
                     stuckVars, clarifyVars, blockVars, patchVars, agentPlanVars, subject>>
    \/ /\ subject = "agent plan" /\ AgentPlanStep
       /\ UNCHANGED <<chatVars, editVars, planVars, specVars, mcpVars, rpcVars,
                     stuckVars, clarifyVars, blockVars, patchVars, checkpointVars, subject>>

Spec == Init /\ [][Next]_vars /\ ChatFairness /\ RpcFairness

(* Every Prompt call that was let in returns; and every call of a language *)
(* or MCP server does, when it does not answer, ends or is closed, except  *)
(* behind a write that a server which reads no more blocks for ever        *)
(* (session_prompt.go:390-510, core/lsp/client.go:213-259).                *)
EverythingReturns == PromptReturns /\ CallsReturn

(* Every reachable state of the parts is well typed. *)
TypeOK ==
    /\ ChatTypeOK /\ EditsTypeOK /\ PlanTypeOK /\ SpecTypeOK
    /\ McpTypeOK /\ RpcTypeOK /\ StuckTypeOK /\ ClarifyTypeOK
    /\ BlocksTypeOK /\ PatchTypeOK /\ CheckpointsTypeOK /\ AgentPlanTypeOK

=============================================================================
