----------------------------- MODULE McpServers -----------------------------
(***************************************************************************)
(* The MCP servers of one session: the set that prompts launch and cache   *)
(* (RunService.ensureSessionMCPTools, run.go) and the set a run launches   *)
(* for itself (executeRun), by launchMCPServers (run_mcp.go) and           *)
(* mcp.LoadAllTools (core/mcp).                                            *)
(*                                                                         *)
(* A set of servers is named by the call that launched it.  Its processes  *)
(* are commands of that call's context (exec.CommandContext): when the     *)
(* context is cancelled, as a prompt's is when the call returns, they are  *)
(* killed, whoever uses them.  A set whose clients are closed is one that  *)
(* the code itself shuts down.                                             *)
(***************************************************************************)
CONSTANTS
    ChatCalls,  \* Prompt calls
    RunCalls,   \* runs
    Servers,    \* the servers the spec allows
    NoSet       \* no set of servers

ASSUME McpAssumption == NoSet \notin ChatCalls \cup RunCalls /\ ChatCalls \cap RunCalls = {}

VARIABLES
    cache,  \* mcpClientCache of the session
    phase,  \* how far a call is
    uses,   \* the set a call has its tools from
    up,     \* the servers of a set that run
    cancelled, \* the calls whose context is cancelled
    shut    \* the sets whose clients are closed

ends == <<cancelled, shut>>
mcpVars == <<cache, phase, uses, up, ends>>

McpCalls == ChatCalls \cup RunCalls

McpInit ==
    /\ cache = NoSet
    /\ phase = [c \in McpCalls |-> "new"]
    /\ uses = [c \in McpCalls |-> NoSet]
    /\ up = [c \in McpCalls |-> {}]
    /\ cancelled = {}
    /\ shut = {}

Goes(c, from, to) == phase[c] = from /\ phase' = [phase EXCEPT ![c] = to]

(* The first look into the cache; what is there is used as it is.          *)
LookUp(p) ==
    /\ IF cache = NoSet THEN Goes(p, "new", "missed") /\ UNCHANGED uses
       ELSE Goes(p, "new", "working") /\ uses' = [uses EXCEPT ![p] = cache]
    /\ UNCHANGED <<cache, up, ends>>

(* launchMCPServers: a server that does not start, does not answer or is   *)
(* not known is left out, and none starts under a cancelled context.       *)
Launches(c, got) ==
    /\ c \in cancelled => got = {}
    /\ up' = [up EXCEPT ![c] = got]

Launch(p, got) ==
    /\ Goes(p, "missed", "launched")
    /\ Launches(p, got)
    /\ UNCHANGED <<cache, uses, ends>>

(* A faulty variant: the second look into the cache forgotten.             *)
Keep2nd_NoLook(p) ==
    /\ Goes(p, "launched", "working")
    /\ cache' = p
    /\ uses' = [uses EXCEPT ![p] = p]
    /\ UNCHANGED <<up, ends>>

(* The second look: the first set stays, the second is closed. *)
Keep2nd(p) ==
    /\ Goes(p, "launched", "working")
    /\ cache' = IF cache = NoSet THEN p ELSE cache
    /\ uses' = [uses EXCEPT ![p] = cache']
    /\ IF cache = NoSet THEN UNCHANGED <<up, shut>>
       ELSE up' = [up EXCEPT ![p] = {}] /\ shut' = shut \cup {p}
    /\ UNCHANGED cancelled

(* The context of a call is cancelled: the servers it started are killed,  *)
(* those in the cache too.                                                 *)
Cancel(c) ==
    /\ cancelled' = cancelled \cup {c}
    /\ up' = [up EXCEPT ![c] = {}]

(* The call returns, and gRPC cancels its context.                         *)
EndPrompt(p) ==
    /\ Goes(p, "working", "over") \/ Goes(p, "new", "over")
    /\ Cancel(p)
    /\ UNCHANGED <<cache, uses, shut>>

(* The client goes away, or a run is stopped; the call goes on, and a      *)
(* prompt caches what it has.                                              *)
LoseContext(c) ==
    /\ phase[c] # "over" /\ c \notin cancelled
    /\ Cancel(c)
    /\ UNCHANGED <<cache, phase, uses, shut>>

(* A run does not look into the cache, and closes what it launched.        *)
LaunchForRun(r, got) ==
    /\ Goes(r, "new", "working")
    /\ Launches(r, got)
    /\ uses' = [uses EXCEPT ![r] = r]
    /\ UNCHANGED <<cache, ends>>

EndRun(r) ==
    /\ Goes(r, "working", "over")
    /\ up' = [up EXCEPT ![r] = {}]
    /\ shut' = shut \cup {r}
    /\ UNCHANGED <<cache, uses, cancelled>>

ServerDies(c, s) ==
    /\ s \in up[c]
    /\ up' = [up EXCEPT ![c] = @ \ {s}]
    /\ UNCHANGED <<cache, phase, uses, ends>>

McpNext ==
    \/ \E p \in ChatCalls :
          \/ LookUp(p) \/ Keep2nd(p) \/ EndPrompt(p)
          \/ \E got \in SUBSET Servers : Launch(p, got)
    \/ \E r \in RunCalls : EndRun(r) \/ \E got \in SUBSET Servers : LaunchForRun(r, got)
    \/ \E c \in McpCalls : LoseContext(c) \/ \E s \in Servers : ServerDies(c, s)

McpSpec == McpInit /\ [][McpNext]_mcpVars

-----------------------------------------------------------------------------

McpTypeOK ==
    /\ cache \in ChatCalls \cup {NoSet}
    /\ phase \in [McpCalls -> {"new", "missed", "launched", "working", "over"}]
    /\ uses \in [McpCalls -> McpCalls \cup {NoSet}]
    /\ up \in [McpCalls -> SUBSET Servers]
    /\ cancelled \subseteq McpCalls
    /\ shut \subseteq McpCalls

(* However many prompts find the cache empty together, they end up with    *)
(* the tools of one set, the cached one; every server that runs is of that *)
(* set, of a run, or of a call that has yet to look a second time, so that *)
(* no process is left behind; and the code closes no set that a prompt or  *)
(* a run works with.  That such a set runs is not said: it ends with the   *)
(* context of the call that launched it (ServersStayUp).                   *)
OneSetOfServers ==
    /\ \A p \in ChatCalls : phase[p] = "working" => uses[p] = cache /\ cache # NoSet
    /\ \A c \in McpCalls : up[c] # {} =>
         \/ c = cache
         \/ c \in ChatCalls /\ phase[c] = "launched"
         \/ c \in RunCalls /\ phase[c] = "working"
    /\ \A c \in McpCalls : phase[c] = "working" => uses[c] \notin shut

(* What the comments say.                                                  *)

(* run.go:130: "MCP servers stay up until the daemon stops".  No prompt at *)
(* work, whose own client is there, has the tools of a set that the end of *)
(* another call has killed.                                                *)
ServersStayUp ==
    \A p \in ChatCalls : phase[p] = "working" /\ p \notin cancelled => uses[p] \notin cancelled

=============================================================================
