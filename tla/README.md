# GIL: TLA+ models and proofs

GIL is an autonomous coding harness: a daemon (`server/cmd/gild`) keeps sessions
in SQLite and in per-session directories, talks to a language model, and runs an
agent loop in a workspace for hours. Its clients (`cli`, `tui`, `mcp`, `sdk`)
reach it over gRPC. This directory holds TLA+ modules of the parts of the daemon,
and of the clients' ends of its streams, whose behaviour depends on the order of
concurrent steps, on failures and on restarts; the TLC configurations that check
them; and proofs that TLAPS checks.

Everything here is read from the Go source under `src/`. `PROJECT.json` maps
each definition to the lines it stands for and lists the runs, the properties,
for each property a plausible bug that breaks it, the findings, the hazards and
the theorems.

To check a module and its proofs, in this directory:

    tlc -workers 2 -config Clients.cfg MCClients.tla
    tlapm ClientsProofs.tla

## 1. Inventory

### 1.1 The components that are modelled

| Component | Source | State it keeps | Operations | Hard behaviour |
|---|---|---|---|---|
| Event stream | `core/event/stream.go` | the last ID, the log, the subscriptions and their bounded channels | `Append`, `Subscribe`, `Close`, receiving | IDs are given out under a mutex, events are sent outside it, to a copied list of subscribers |
| Run lifecycle | `server/internal/service/run.go`, `session.go`, `agent_tools_lifecycle.go`, `core/session/repo.go` | the session's row, `spec.lock`, the tables `runCancels`, `runLoops`, `runProgress`, a gauge | `freeze_spec`, `Start` (attached or detached), `executeRun`, `stop_run`, `Delete`, `Restore` | every call checks the row in one step and acts in a later one; cancelled contexts; early returns; restarts |
| Permission gate | `core/runner/runner.go:961-1026`, `core/permission/evaluator_store.go`, `store.go`, `run.go:484-626` | `pendingAsks`, session rules, the `always_*` rules on disk | a call's judgement, the ask, `AnswerPermission`, removal of a rule | an answer races another, the 60 s timer and a stop; a chained command is judged part by part |
| Subagents | `agent_tools_subagent.go`, `subagent_registry.go` | the slots in use per root, the release closures, the children's rows | `spawn_agent`, `wait_agent`, the child's end, `Delete`, restart | a slot is reserved, handed to a closure and fired by whoever waits; each step may fail |
| Agent loop | `core/runner/runner.go`, `grace.go`, `core/compact/compactor.go`, `run_extras.go` | the conversation, the use of the budget, the count of stuck signals, the one-shot note | `Run`'s phases, compaction, grace, final verification, `PostHint` | several limits that end a run, a reserve, a history rewritten while it is in use, a note written from outside without a lock |
| Chat turns | `server/internal/service/session_prompt.go`, `agent_tools_verbs.go` | the log of a session, the copy each prompt works on | `Prompt`, its turns and tool calls, `reset_session` | prompts share one log; a client may go away between the calls of a turn and their results |
| File tools of a turn | `agent_tools_write.go`, `agent_tools_extra.go`, `apply_patch.go`, `turn_diff_tracker.go` | the files, the tracker behind `show_diff` | `write_file`, `edit_file`, `apply_patch`, `run_bash` | a call looks, reads, writes and records in separate steps; a patch fails in its middle |
| Plan steps | `agent_tools_plan_verify.go` | the plan in memory, its rows | `plan_steps`, `verify`, the first read after a start | the plan may be replaced while a check runs; rows are written silently or not |
| Spec store | `core/specstore/store.go`, `core/spec/spec.go` | `spec.yaml`, `spec.lock` | `Save`, `Freeze`, `Load` | crashes and failing writes between two files; loads in the middle of a write |
| MCP servers | `run.go:125-219`, `run_mcp.go`, `core/mcp` | the cache of a session, the processes | launching for a prompt or a run, closing | prompts launch together; a process dies with the context it was launched in |
| RPC clients | `core/lsp/client.go`, `core/mcp/client.go` | pending calls, pipes, a write lock | a call with its timeout, the reading goroutine, `Shutdown` and `Close` | timers race answers; the reader itself may have to write |
| Stuck detector | `core/stuck/detector.go`, `core/runner/runner.go` | the buffer of events, the count of signals | one check per iteration | five patterns over a window that is cut anywhere |
| Clarify questions | `run.go:691-804`, `1008-1021` | the table of channels | the callback, `AnswerClarification`, the end of a run | an answer races the timer and the closing of its channel |
| Edit and patch engines | `core/edit`, `core/patch`, `core/tool/edit.go`, `applypatch.go` | the files of the workspace | the tools `edit` and `apply_patch` of a run | text that only nearly matches, found through tiers and cursors |
| Checkpoints | `core/checkpoint/shadow.go`, `run.go:1579-1637`, `run_extras.go:127-218`, `core/stuck/recovery.go` | the shadow repository: index, commits, HEAD | the loop's commits and rollbacks, `Restore`, `Diff` | several git commands per operation, no lock between callers |
| Agent plan | `core/plan/store.go`, `core/tool/plan.go` | `plan.json` | `list`, `set`, `update_item`, `add_item`, `remove_item` | ids that are given and numbered; load and save are apart |
| Event log | `core/event/persist.go`, `run.go:953-959`, `1023-1040`, `1542-1550` | `events.jsonl`, a run's buffer before it | a run's writing goroutine, its end, `LoadAll` | the buffer is flushed in the middle of lines; crashes, failing writes, runs that overlap |
| Permission rules on disk | `core/permission/store.go`, `cli/internal/cmd/permissions.go` | `permissions.toml` | `Append`, `Remove` | a read, a change and a rename under a mutex that is one store's |
| Clients | `cli/internal/chat/repl` (`loop.go`, `grpc_client.go`), `tui/internal/app` (`chat_model.go`, `chat_stream.go`, `agent_tree.go`, `update.go`, `model.go`, `tail.go`, `clarify.go`, `permission.go`) | what is on the screen, the stream that is read, the windows that are open | sending a prompt and showing its reply; following a session's events; answering asks and questions | two goroutines and two channels; commands whose messages come in any order and do not say which stream they are of |

How they interact: `Start` (run lifecycle) creates the event stream of the
session, the evaluator and the loop, and calls `AgentLoop.Run`. The loop appends
events, and asks the permission gate about every tool call. A session's chat
agent calls `freeze_spec`, `start_run`, `stop_run`, `spawn_agent` and
`wait_agent` as tools; a subagent is a session of its own with a run of its own,
whose asks are kept under its root. Clients follow the event stream (`Tail`),
answer asks, and post hints into a loop.

Beside a run there is the chat agent: every `Prompt` call is a turn loop of its
own over the session's log, and its tools edit files, declare and verify plan
steps, freeze the spec and start runs. A prompt and a run each launch the MCP
servers of the spec and talk to them, and to language servers, over pipes. A
run's loop shows its events to the stuck detector, commits a checkpoint after
each iteration with tool calls, and gives its agent the tools `edit`,
`apply_patch`, `plan` and `clarify`; clients answer the questions, look at the
difference to the last checkpoint and go back to older ones.

What makes each correct:

- **event stream**: a subscriber knows what it got and what it lost, gets
  nothing twice, and gets events whose appends did not overlap in order; a
  reader that stops reading holds up nobody; a subscriber may leave at any time;
- **run lifecycle**: the row is what every gate relies on, so it must say
  `running` for as long as a run is in flight; one run at a time in a workspace;
  tables and gauge neither leak nor point at what is over; the status only moves
  forward; a deleted session stays deleted;
- **permission gate**: no tool runs without a rule or a user's word for it;
  silence denies; the first answer stands; an answer "for the session" is
  remembered before the loop goes on; no ask is left behind;
- **subagents**: the count of slots is exact whichever step fails, is never
  above the cap, and is not lowered under a run; a wait ends;
- **agent loop**: the conversation is one a provider accepts; no turn is asked
  for beyond the budget, the stuck threshold or the iterations; the status says
  what happened; hints come once and in order; a run ends;
- **chat turns**: what a prompt sends has each tool call's results behind it;
  every prompt returns;
- **file tools**: what `show_diff` says of a turn is true, or it says that it is
  not to be relied on;
- **plan steps**: only a check that passed marks a step verified, and a restart
  brings every verdict back;
- **spec store**: what loads under a lock is what was frozen, wherever the
  daemon crashed;
- **MCP servers, RPC clients**: one set of servers, nothing left behind; every
  call finds its answer, or its end;
- **stuck detector**: it says what the turns were like, and counts edits as
  progress;
- **clarify questions**: an answer that was reported delivered is heard, no
  question is closed under its callback;
- **edit and patch engines**: blocks and chunks are read as they were written
  and change the lines they were meant for, and no other;
- **checkpoints**: a step back gives the files of the snapshot it names, and
  looking at a difference changes nothing;
- **agent plan**: an operation on an item does it to the item the agent saw;
- **event log**: who is given the events of a file is given true ones, in order,
  and a question is among them while the run waits for its answer;
- **permission rules on disk**: a rule is there from its answer until it is removed;
- **clients**: what was read is shown, whole, once and in order, under the prompt
  or the session it belongs to; a turn ends; an answer goes to the question it was
  typed for.

### 1.2 The components that are not modelled

`PROJECT.json` lists each with its sources and the reason. In short: they only
read or print or talk to something else (providers, runtimes, web,
notifications, credentials, cost tables, most of the clients' commands), and the
modules above leave open what comes from them; or they gather text for a prompt (repository map,
instructions, memory bank). Section 7 says more.

## 2. Modules

| Module | What it is |
|---|---|
| `EventStream` | the stream, its producers and its subscriptions |
| `RunLifecycle` | one session, its row, its lock, its runs and the calls that read and change them |
| `AskGate`, `AskPromise` | the gate with its rules and asks; `AskPromise` is what an ask promises, and `AskGate` implements it |
| `SubagentPool`, `SlotPool` | spawning and waiting; `SlotPool` is a pool of slots, and `SubagentPool` implements it |
| `AgentLoop` | one run of the loop |
| `ChatTurn` | the prompts of a session and its log |
| `TurnEdits` | the file tools of a chat turn and the tracker |
| `PlanSteps` | `plan_steps` and `verify` |
| `SpecStore` | `spec.yaml`, `spec.lock`, `freeze_spec` and loads |
| `McpServers` | the sets of MCP servers of a session |
| `RpcClient` | a client that talks to a server process over two pipes |
| `StuckDetector` | the buffer, the patterns and the count |
| `Clarify` | the questions of a session's runs |
| `TextLines`, `EditBlocks`, `PatchHunks` | lines of text; the edit tool and the apply_patch tool of a run |
| `Checkpoints` | the shadow repository, the loop, `Restore` and `Diff` |
| `AgentPlan` | the plan tool of a run |
| `MCSession` | the composition of the parts beside the run, from `ChatTurn` on |
| `ReplTurn` | the loop of `gil chat` and the goroutine that reads for it |
| `ChatPump` | the prompts of the terminal UI's chat window |
| `TuiTails` | the terminal UI's dashboard: its tails and the windows for asks and questions |
| `EventLog` | `events.jsonl`: the goroutine that writes it, its buffer, and readers |
| `RuleStore` | `permissions.toml` and the stores that write it |
| `MCClients` | the composition of `EventStream`, the two files and the clients |
| `MCAgents` | the composition of `AgentLoop`, `AskGate` and `SubagentPool` |
| `MC*` | the instances for TLC |
| `Inductions` | induction over numbers and sequences, what a fold computes, and sequences of sequences put together, for the proofs |
| `*Proofs` | the theorems: `ToolProofs` of the prompts, questions, servers, RPC clients and the edit tool, `AgentLoopProofs` of the loop and its detector, `StoresProofs` of what is stored, `ClientsProofs` of the event stream, the two files and the clients, the others of the module they are named after |

A faulty variant (`Cleanup_KeepsLoop`, `Target_Newest`, ...) stands before
the definition it varies. No specification uses it; each shows that a property
does notice the kind of bug it is about.

### 2.1 EventStream

`StartAppend` is the critical section of `Append` (the ID, the log, the copy of
the list), `SendTo` one send of the loop behind it with its `default` branch,
and `ReturnFromAppend` the return. `Close` is two steps, as in the code: the
channel is closed, then the subscription unregistered. The variables `since`,
`got`, `lost` and `pre` are history: where a subscription began, what it
received, what was dropped for it, and which appends had returned before another
was called.

### 2.2 RunLifecycle

`row` is `sessions.status`; `lock` is `spec.lock`; `cancels`, `loop`, `progress`
and `gauge` are the tables of `RunService` and the metric. A run goes through
`checked` (status read), `marked` (status written), `spawned` (detached or not),
`setup` (cleanup deferred), `looping`, `reporting`, `reported` and `over`;
`aborted` is a return of `executeRun` before its cleanup is deferred, `killed` a
restart. Two returns of `executeRun` leave the row as it is (`SayNothing`): the event
directory or the memory bank cannot be made (`run.go:957`, `1260`). A `Start` whose row was changed in the meantime goes on all the same:
nothing looks at the row again. `late` records that some call acted on a status,
or on a missing lock, that was no longer so; several properties are about what
holds unless that happened, and this is the point of them: they say that these
stale checks are the *only* way to break the rule. `Restart` loses all goroutines
and tables, keeps row and lock, and, as in `gild`, repairs nothing.

### 2.3 AskGate and AskPromise

A loop judges the keys of a call in order (`Decision`: `always_deny`, then
`always_allow`, then the session's denials and its allowances, then the spec's
rule), as `EvaluatorWithStore`
does, with the file read in a step of its own (`LoadRules`). `PostAsk` registers
an ask and posts its event; `TakeAnswer`, `GiveUp` (timer or stop) and `Leave`
are the callback's `select` and its deferred removal. `AnswerPermission` is
`LookUp`, `Record` and `Deliver`, since it lets the mutex go after the lookup.
Wildcards are left out: a key matches itself. In `AskPromise` an ask is
unposted, open, or settled once, with "allow" only if a user said so.

### 2.4 SubagentPool and SlotPool

`spawn_agent` is `ReserveSlot`, `CreateRow`, `FreezeRow`, `StartRun` and `Register`,
with `SpawnFails` at each step before the last; a child ends by `Report` or, if
its run dies without a word, by `EndUnreported`. `wait_agent` is `BeginWait`
(the earliest child with that label, or the id), `TakeRelease`, `Release` and
`GiveUpWait`. `SlotPool` knows who holds a slot and who runs.

### 2.5 AgentLoop

One action per phase of an iteration: `NextIteration`, `Compact` or
`DontCompact`, `ReadNote` and `ClearNote` (two steps, since `PostHint` may come
between them), `Respond` with the budget check, `CheckStuck`, `Answer`, then
`VerifyPasses`/`VerifyFails` or `CallTool`s and `Conclude`; and, once the loop is
left, `FinalVerify` and `Classify` with the grace call. A message is a record of
its kind, turn and number of calls or results. Whether the window is full is
left open, so a compaction may happen in any iteration whose history is long
enough, and `RequestCompact` adds nothing. The two ways in which `verified` can
be lost are a failing check and a tool call.

### 2.6 ChatTurn

`Resolve`, `ReadLog` and `LogUser` are the start of `Prompt`; it works on a copy
of the log (`chatHistory.get`) and appends to both. A turn is `Conclude` or
`Call`, then `RunTool`, `RunReset` (the tool `reset_session`, which clears the
log) or `LoseClient`, then `Feedback`. `RestartDaemon` loses the log, which lives
in memory. `broken`, `cleared` and `mixed` say which of the three things that
spoil a log has happened.

### 2.7 TurnEdits

A call goes through `look` and `keep` (`recordPreWrite`), `plan`, `write` and
`record`; `apply_patch` does so for all its files. `StartTurn` resets the tracker,
`RunCommand` sets its flag. `Fits` and `AfterHunks` are the chat turn's patch
engine: a hunk's old lines must be in the file exactly once.

### 2.8 PlanSteps

One mutex is held over each operation and its database calls, each of which may
fail silently; it is not held while `verify`'s command runs, so `StartVerify` and
`EndVerify` are steps of their own. `Loads` are the outcomes of the first read
after a start.

### 2.9 SpecStore

`Save` and `Freeze` write with `os.WriteFile`, which empties a file before it
fills it. `freeze_spec` is `MayWrite`, `SaveSpec`, `LookAtLock`, `LoadForFreeze`,
`Seal`, `SaveSealed` and `WriteLock`; each write may fail, `Crash` may come
anywhere, and two calls may interleave. A load is `ReadYaml` and `EndLoad`: the
file first, the lock behind it, as in the code.

### 2.10 McpServers and RpcClient

A prompt looks into the cache, launches what it does not find, and looks again
(`LookUp`, `Launch`, `Keep2nd`). A run launches a set for itself. Processes die with
the context of the call that launched them (`Cancel`, in `EndPrompt` and
`LoseContext`), and the cache keeps the dead set; `shut` are the sets that the code
itself closes, `cancelled` the calls whose context is over. `OneSetOfServers` speaks
of the former, `ServersStayUp`, which is violated, of the latter.

`RpcClient` is both clients, told apart by `kind`. A call registers its id, takes
the write lock, writes into a pipe that may be full, and waits for its channel or
its timer; the reading goroutine takes an entry out of the table (`ReadOne`) and
sends to its channel (`Deliver`) in two steps. A server may ask the client
(`AskClient`). The reader of a language server's client then writes the reply itself;
that of an MCP client takes whatever bears an id for the answer to that call.
A server may read no more: `Blocked` is a writer under `writeMu` at a full pipe.

### 2.11 StuckDetector

`Iterate` is one iteration: the events before the check, the check, the events
behind it. `Check` is the detector's function over the last `Window` events. A
tool call's input is kept as the loop emits it, cut when it is long. Each of the
detector's loops over the events is a fold of its body: `PairUp` of `pairToolEvents`,
`TalkOn` of `checkMonologue`, `SigOn` of `checkPingPong`, `GatherOn` of
`collectNoProgressStats`; what the loop body looks for further ahead is a set of
places (`Replies`) or the least of one (`RunFrom`). The property is told from the
turns alone (`Shows`), without an event. The loop stops at `StuckLimit` signals.

### 2.12 Clarify

`RegisterQuestion`, `PostQuestion`, `HearAnswer`, `HearClosing`, `StopWaiting` and
`LeaveTable` are the callback; `FindQuestion` and `SendAnswer` the two halves of
`AnswerClarification`; `EndRunOf` the cleanup that closes the channels.

### 2.13 TextLines, EditBlocks, PatchHunks

A line is its indentation, its text and whether blanks follow it, which is what
the engines tell apart. `Parse` folds `ReadLine` over the agent's text, each line
with the path that `findFilename` would find before it.
`ReplaceIn` tries the tiers in the code's order; which span a fuzzy match picks
among those of a similar length is left open. `ReadPatch` folds `ReadToken`,
whose modes are the functions of the parser; `Derive` folds `ApplyChunk` with its
cursor. The properties do not use these operators for what is right: they say
where the lines *could* go by quantifying over places (`Seats`, `Meanings`), or
what the agent meant before it printed it. `EditsLandAsMeant` lets the agent err in
one thing (`oneError`): in the indentation of a whole block, which it can only be
caught at if some line of the block has one, or in the blanks at the ends of lines.
A block of blank lines alone is found exactly, and what replaces it then keeps the
wrong indentation (`match.go:170`); the proof asked for this, no instance had shown it.
`PatchLandsInOrder` has two halves: what is applied sits where its chunks allow it,
and what has one place each is applied. The proof asked for two conditions of the
second that no instance had shown. A context that stands on several lines is found
on the first that is *most* like it (`seek.go` compares exactly, then trimmed), which
may lie behind the only place of the old lines: so the lines that read as a context
have to be the same line (`Plain`). And a chunk that ends with a blank line is first
looked for with it: if the agent did not mean that line and one follows all the same,
the code takes it, and the next chunk starts behind it: so it must not be there
(`LeavesNone`). `MCPatchHunks` has files and patches of both kinds since.

### 2.14 Checkpoints

Each git command is a step: `StageAll` and `CommitStaged` of the loop, `CheckOut`
of `Restore`, `MarkNew` and `ResetAfterDiff` of `Diff`. The index has a mark of
its own for `add -N`. A call of a client that ends up between two commands of the
loop, or moves HEAD, sets `raced`. A file that `.gitignore` names is not in a
snapshot (`add -A` passes it by) and is touched by no step back; the model's paths are
those that are tracked.

### 2.15 AgentPlan

A call is a load (`SetPlan`, `UpdateItem`, `AddItem`, `RemoveItemCall`) and a save
(`Stamp`, `Rename`), so that two runs of a session can cross. An id is a sequence
of numbers. An item is added or updated with a status, which `Save` refuses if it is
none of the three (`Accepted`); one added without a status is pending. Items carry an identity, which the program has not, so that a
property can ask whether an operation did what the agent meant. A list that is set
numbers badly (`NumbersWell`) if, once numbered, two of its items share an id, or if a
sub-item is named `i<n>`: the counter of `add_item` looks at the ids of items only, and
gives that name to an item later.

### 2.16 MCSession

The modules of 2.6 to 2.15 share no variable. A behaviour of `MCSession` moves one
of them, the *subject*, and leaves the others where they start; a property that
speaks of one module holds there exactly when it holds of the module alone, and
one run checks them all. `Checkpoints` is followed up to a race, and `AgentPlan`
up to where its property stops speaking; two runs' plan calls overlap only below
version `MaxOverlap`. Three of its properties are conjunctions over modules:
`TypeOK`; `EverythingReturns`, which is `PromptReturns` of `ChatTurn` and
`CallsReturn` of `RpcClient`; and `EditsLandAsMeant` of `EditBlocks`, of which
`BlocksAreRead` is a conjunct.

### 2.17 ReplTurn

`SendPrompt` makes the channels of a turn and starts the goroutine that drains the
reply: a part is received (`RecvText`, `RecvOther`) and then sent to its channel
(`PassText`, `PassNote`), which waits for a place; `EndStream` is the deferred
close. The loop takes text (`ShowChunk`) until the stream is over and nothing is
left (`EndTurn`), and only then what the tools did (`ShowNote`).

### 2.18 ChatPump and TuiTails

Both are models of a program in Bubble Tea's manner: `Update` takes one message at
a time, a command runs beside it and ends with one message. Each handler is an
action, each command another, and `inbox` or `mail` is the set of messages that
are on their way, which may be taken in any order. Messages in the model carry the
stream or tail they come from, so that properties can tell; handlers look only at
what the program's messages have, which is nothing (`chat_stream.go:30`), or the
session (`tail.go:83-88`). `overlapped` records that a prompt was submitted before
the last reply was over: from there on the window promises nothing (section 4).

### 2.19 EventLog

`OpenLog` is the opening of the file and the subscription, `TakeEvent` a turn of
the goroutine that ranges over the channel (`Write` with the flush of a full
buffer), `SyncQuestion` the flush after a `clarify_requested`, `CloseSub` and
`EndLog` the run's end. `LeaveLog` is a return between the subscription and the
loop, which closes the file under the goroutine. A line is three pieces, since it
matters whether the JSON is whole and whether the newline is there: `LoadAll` reads
a last line without its newline, and fails on half a line. A write may fail after
any part of it; `bufio.Writer` then takes nothing more (`jammed`). `spoiled` records
that a write failed, a crash tore a line or two runs wrote at a time: from there
on the file promises nothing (section 4).

### 2.20 RuleStore

A call takes the mutex of its store and reads the file (`ReadRules`), renames a new
one over it (`WriteRules`) and returns (`LeaveStore`). `StoreOf` says whose mutex a
call takes: that of a run's store, or one of its own. `crossed` records that calls
of two stores were at work at a time.

### 2.21 MCClients

`EventStream`, `EventLog`, `RuleStore`, `ReplTurn`, `ChatPump` and `TuiTails` beside
each other, one of them the subject, as in `MCSession`. `ClientsShowWhatTheyRead` is
`ReplShowsTheTurn`, `ChatShowsTheTurn` and `ScreenIsTrue`, `FilesTellTheTruth` is
`LogTellsTruth` and `RulesStay`; the type invariants of the five are conjuncts of
these. A spoiled or crossed state is not followed further.

### 2.22 MCAgents

`AgentLoop`, `AskGate` and `SubagentPool`, one of them the subject.

## 3. Runs

| Run | Instance | Shows |
|---|---|---|
| `stream` | 2 producers, 2 subscriptions, channels of 2, 3 events; files and clients: see below | what a subscriber gets, once each and in which order; no reader blocks an `Append`; what the files say; what clients show, and that a turn ends |
| `stream_disconnect` | 1 producer, 1 subscription | **violated**: a subscription closed during a fan-out is sent to after its channel is closed |
| `lifecycle` | 2 runs, 2 freezers, a delete, a restore, any number of restarts | what the row and the tables can be relied on for |
| `lifecycle_stopstuck` | 2 runs | **violated**: a stopped run cannot report its end |
| `agents` | see below | the loop: turns, statuses, limits and termination; the gate: what an answer is good for, `AskPromise` implemented, liveness included; the subagents: the count is exact, `SlotPool` implemented, waits return |
| `ask_chain` | chains of 2 keys that are asked about | **violated**: an approved part lets a forbidden one behind it through |
| `loop_compaction` | the loop of `agents` | **violated**: a compaction tears results off the first reply's tool calls |
| `session` | see below | the properties of the parts beside the run |
| `mcp_contexts` | 2 prompts, 1 run, 1 server | **violated**: a prompt's end kills the cached servers that another works with |
| `rpc_cap` | 2 goroutines, 2 calls, pipes of one message | **violated**: a server that reads no more blocks calls for ever |
| `stuck_edits` | 6 iterations, a window of 200 | **violated**: an agent that writes long files is told that it makes no progress |
| `checkpoints_diff` | 2 paths, 1 client, 3 commits | **violated**: looking at a difference takes HEAD back past a new checkpoint |

Twelve runs, of which four pass and eight are the findings of section 4. Every action
of every module is fired by a passing run. The type invariants of
the first five modules are proved (section 5) and no longer model-checked; those
of the parts of `session` are its `TypeOK`, those of the files and the clients are
in their properties. That tables point at live runs (`EntriesAreLive`) is proved and no
longer a run's property. No run has a symmetry set, since
most check liveness too. `CHECK_DEADLOCK FALSE` stands where the system may stop:
all calls made, all runs over.

**Why these bounds.** The interesting cases need two of each racing party (two
appenders, two `Start` calls, two answers, two waits, two spawns for one slot). A
channel of two
and three events fill up, drop and drain. Two asks suffice for "asked once", and
one loop because rules are per loop; the second loop of the theorems is proved.
In the loop of `agents`, five iterations of one call each give seven messages, one more than the smallest
history that a compaction of 2 + 2 + 2 accepts, and a second compaction over the
summary of the first; the code keeps 2 and 6 with at least 8 between, and only
that both ends are even matters for the shape. A response costs nothing, one
token and one unit of cost, or three tokens: the token limit with its reserve (6), the budget
itself (8) and the cost (3) are each reached, and a run whose provider reports no
use runs out of iterations. `MaxEvents`, `Asks`, `MaxRestarts`, `Hints`,
`MaxSignals` and `MaxCalls` are the bounds; they stand in guards or bound a
choice. `MaxIter` is the code's.

In `agents`: the loop has a budget of 8 tokens with a reserve of 2, a cost of 3, two
hints and one call a response; the gate one loop, two asks, two `AnswerPermission`
calls, a chained call and the empty key; the pool two `spawn_agent` calls for one slot
of one root under one label, two waits and up to two restarts. A reply with several
calls, a second root and a third child are left to the theorems, which are about any
number of each.

In `session`:

- *prompts*: two, of two turns each (the code allows eight), one tool call per
  turn; the theorem `SendsWellFormed` is about any numbers;
- *files*: two prompts, two files, two calls; patches that update both files, that
  add and remove, and of two hunks in one file;
- *plan steps*: plans of up to two steps over two keys, declared twice, one
  `verify` at a time: two that overlap differ from one and a `plan_steps` in
  nothing that the property tells apart, and the theorem is about any number;
- *spec*: two `freeze_spec` calls, two loads, crashes;
- *servers*: two prompts and a run, two servers of which any part may come up;
- *clients*: two goroutines, two calls, one request of the server, pipes that are
  full with one message, so that a server that reads no more blocks the second writer;
- *detector*: the code's thresholds (4, 3, 3, 6, 4, 2) over five iterations and a
  window of 18 events: four equal reads, six alternating calls and four iterations
  without progress fit, and the fifth check's window is cut;
- *questions*: two runs, two questions, two answers;
- *edits* and *patches*: one call of one or two blocks, or of up to three hunks
  with up to two chunks each, on files of up to five lines that are alike enough
  for every tier to match, at more than one place too;
- *checkpoints*: two paths, one content, one client, three commits, enough for
  one that follows a rollback;
- *agent plan*: three versions, the lists of `MCAgentPlan`.

In `stream`, `EventLog` has two runs, three events, a channel of two and a buffer
of four pieces: the channel drops one, lines of three pieces are cut at every place
by one flush or another, and a run follows one that ended, returned early or
crashed. `RuleStore` has two writers of one store, one of another, and two rules,
each written and removed any number of times.

For the clients in `stream`: `ReplTurn` has channels of two places (the code's
have 64), three lines, and replies of up to four parts, so that one turn fills a
channel, empties it and fills it again; `ChatPump` two prompts of three parts
each, and `TuiTails` two sessions, two tails and two events, which is enough for
an event of the older tail, a question that takes another's place, and a tail
that ends under a newer one.

**Fairness.** `ReplTurn`: the loop and the draining goroutine go on while they can,
and the daemon's stream comes to its end, as `PromptReturns` of `ChatTurn` says; no
user has to type. `EventLog`, `RuleStore`, `ChatPump` and `TuiTails` have no
liveness property.
`EventStream`: a goroutine inside `Append` is scheduled; nothing is
assumed of readers, and the property is about exactly this. `RunLifecycle`: the steps
of `executeRun` go on and the loop ends (`RunEnds` of `MCAgents` is why);
nobody has to start, stop, delete or restart. `AskGate`: a loop's `select` wakes up, at
the latest by its 60 s timer, and its callback returns; no user has
to answer. `SubagentPool`: a wait polls until its deadline, releases and returns;
nothing is assumed of a child, nor of `spawn_agent`. `AgentLoop`:
the loop is scheduled; a provider's client, a tool and a check have timeouts (60 s
per check, `core/verify/runner.go`), so each phase ends. `ChatTurn`: a prompt that
has begun goes on, since a send fails or succeeds and providers and tools have
timeouts or the client's context; no prompt has to begin. `RpcClient`: goroutines
and timers go on, and a `Shutdown` or `Close` that has begun; nobody has to close.
Nothing is assumed of the server: it need neither answer nor read, and `CallsReturn`
names the state in which a call may then wait for ever.

## 4. Findings

Each is a run that TLC finds violated, of a property that states what a document
or a comment says.

1. `stream_disconnect`: `Subscription.Close` closes its channel before it
   unregisters it, and `Append` sends outside the mutex: a send on a closed
   channel, which panics the daemon, when a `Tail` client disconnects.
2. `lifecycle_stopstuck`: `stop_run` cancels the context that the final
   `UpdateStatus` is made with; the row says `running` for ever, and `Restore`
   and `Delete` refuse the session.
3. `ask_chain`: in `cmd1 && cmd2`, an approval of `cmd1` runs the whole command,
   and an `always_deny` rule for `cmd2` is not looked at.
4. `loop_compaction`: the head that a compaction keeps is the seed and the first
   reply. If that has tool calls, they stay in the history without their
   results.
5. `stuck_edits`: the loop cuts a tool's input after 512 bytes, which the detector
   cannot parse any more; a long write is no edit for it, and three of them in a
   row make a signal of no progress.
6. `checkpoints_diff`: `Diff` ends with `reset --mixed` to the commit it listed
   at its beginning, and so moves HEAD as well as the index. If the loop took a
   checkpoint meanwhile, it drops out of the log; between the loop's `add -A` and
   its commit, the checkpoint is made of the old files.
7. `mcp_contexts`: `run.go:130` says that cached MCP servers stay up until the daemon
   stops. They are processes of the context of the prompt that launched them and die
   when that prompt returns (`core/mcp/client.go:47`, `session_prompt.go:353`, `567`);
   a second prompt that has taken them from the cache is left with dead servers, and
   nothing takes the dead set out of the cache.
8. `rpc_cap`: `core/lsp/client.go:21` says that every round-trip is capped. The timer
   starts behind the write (`238`), and the write is made under `writeMu` into a pipe
   (`197-202`): when the server reads no more, it has no timeout, and the calls behind
   it, and the reading goroutine's own replies (`135`), wait for the lock.

Further divergences met while modelling, of which no run says more than the
action already does.

*Runs.* A stop sets a run's row by nothing else than that failing update; a
restart leaves a row `running` for good. Two `Start` calls pass the status check
together, and one hides the other's loop (`run.go:392`, `458`). `freeze_spec` may
leave a lock with a row `created`, which then neither freezes nor starts.
`executeRun` returns at `run.go:957` and `1260`, when the event directory or the memory
bank cannot be made, without a word to the row, which goes on saying `running`; these
are among the runs that `EveryRunReports` excepts (the others are stopped or killed,
or act on a stale row). It returns at `1260`, `1399` and `1425` without closing its subscriptions to the stream.

*Questions and asks.* `AnswerPermission` (`run.go:615`) and `AnswerClarification`
may report `delivered` for an answer that reaches the channel after the callback
gave up. An answer "for the session" about the empty key is not recorded. When
runs of a session overlap, the exit of one closes the questions of the other, and
an answer may be sent on a closed channel (`run.go:797`, `1013-1018`).

*Subagents and budgets.* A slot whose child is never waited for again stays taken
until the daemon restarts, although `subagent_registry.go:19` counts on something
reaping it. A third of a token budget below three is 0, which means no budget
(`subagent_slice.go`). A hint posted between the loop's read and its clearing of
the note is lost.

*Chat turns.* `reset_session` runs in the middle of a turn, which goes on to
append its results to the log it cleared, so that the next prompt does not start
"with no prior context" (`session_prompt.go:75`) but with results without calls;
`agent_tools_verbs.go:396` promises "fresh". A prompt that reaches the eighth turn
still ends as `end_turn`. The `rollback` of `apply_patch` is empty
(`apply_patch.go:201-203`, `294-297`). `verify` runs the command it is given, not
the check the step declares (`agent_tools_plan_verify.go:24-34`).

*Servers.* A failed launch of MCP servers is
cached as one that succeeded; and a run never uses the cache, unlike `run.go:166-168` says. The
language server client's `Shutdown` marks itself closed before it sends
`shutdown` and `exit`, so that neither is sent. An input that cannot be read ends
the reading goroutine while the server runs on.

*Spec.* The content of `spec.lock` is compared with nothing, although
`ErrLockMismatch` is about it. Two `freeze_spec` calls that race can leave a lock
beside an unsealed spec or another call's; a `Freeze` that finds the lock reports
success for its caller's own spec; a load that read the file before the lock was
there can report a mismatch.

*Stuck detection.* Patterns are looked for anywhere in the window
(`detector.go:308`), so that what an agent has left behind still counts until it
moves out. The context window pattern can never be seen.

*Edit and patch.* A path that is left out is looked for in the last three lines of
the block before, and a line with a dot or a slash is taken for it
(`core/tool/edit.go:35` promises that it may be omitted). `Find` and `Replace`
strip indentation differently. A patch of which one hunk fails leaves the others
applied, and `applypatch.go:30` says "atomic"; a trailing blank line of a file is
lost (`apply.go:140`, "Preserve trailing-newline state"), and removing all lines
leaves a newline; the end-of-file mark is ignored for chunks that only add
(`types.go:53`), and one with old lines may match before its context or on what an
earlier chunk wrote; a blank line between two sections becomes context of the
first (`parser.go:79`).

*Checkpoints.* `shadow.go:100` says that all tracked files go back, but files added
since stay; a snapshot without files cannot be restored. `Restore` that races a
`Start` writes under the loop (`run.go:1594`). A git command killed by a
cancelled context may leave `index.lock`, and later checkpoints fail. The service
wires no recovery strategy, so only a loop that is given one rolls back.

*Agent plan.* An item without id before given ids, or a blank part beside given
parts, duplicates an id, though `store.go:187-188` says that assigned ids do not
collide. Ids of removed items are given again. Each run has a `Store` of its own
(`run.go:1289`), so the mutex that `core/tool/plan.go:93-96` and `store.go:24-27`
count on does not order two runs: an update may be lost, and two plans may share
a version. `plan.go:45` says that deep input is flattened; it is refused.

*Clients.* While a turn is streamed nobody takes from the channel of tool notes: a
turn with more than 64 of them (calls, results, the session, the numbers) blocks
the drainer on the channel and the loop on the drainer, for ever
(`grpc_client.go:220`, `loop.go:146`); `ReplTurnEnds` says that this is the only
way for a turn not to end. The loop's watchdog, which is to say after 30 s that the
daemon may hang (`loop.go:139-141`), is looked at only after
`NextAssistantChunk` returned, and so never while it hangs without a chunk.
`startTailLoop` has no caller.

In the chat window a new prompt is to cancel the old reply "so the new submit takes
priority" (`chat_model.go:148-149`). `NewestIsRead` of `ChatPump` states it, and TLC
refutes it in a few steps when it is added to `Clients.cfg`: the cancelled stream
ends with an error, and `chatStreamErrMsg`, which does not say of which stream it
is, makes the window forget the new one. A prompt submitted before the first
one's stream has started cancels nothing, and, before the session is known, makes
the daemon allocate a second one.

In the dashboard the panes are emptied on a change of session "so we never render
tool calls from a prior session" (`model.go:96-97`). `OnlyTheSelected` of `TuiTails`
states it, and TLC refutes it as well: a tail that was asked for before the change
and starts after it becomes the active one, and its events are shown under the
other session's name. Two tails of one session (a refresh starts one now, and
one more when the list is there) show each event twice, and the end of either
makes the dashboard forget the other; so `ScreenIsTrue` is about a session with one
tail. A checkpoint's number in the window of checkpoints is its place among the
last 200 events (`view_checkpoint.go:102-120`), while `Restore` counts from the
oldest of all.

*Event log.* The subscriber that is to "write every event to disk" (`run.go:1023`)
misses those that come while its channel of 256 is full, and those that chat turns
append between runs. The buffer is flushed wherever it is full, so that while a run
goes on the file mostly ends in the middle of a line, and `LoadAll` then gives an
error and no events: `gil cost` fails, `gil stats` leaves the session out
(`stats.go:129-133`). `LogTellsTruth` therefore promises a reader everything only
after a question and when no run is on. A line that a crash or a failing write has
torn stays in the file, the next run's first line is written behind it, and the
file cannot be read any more: `spoiled` is where the property ends. The lines of two
runs that overlap (`lifecycle`) are cut into each other in the same way.

*Permission rules on disk.* The mutex is a field of `PersistentStore`
(`store.go:99`), and every run (`run.go:1492`) and every `gil permissions`
(`permissions.go:144`, `189`) makes a store of its own for the one file. Two of them
at work at a time each write back what they have read, and the rule of the first is
lost, or comes back; `RulesStay` without its `~crossed` is refuted by two calls. A
file that cannot be parsed makes `Evaluate` skip its `always_deny` rules, which the
comment calls the safe choice (`evaluator_store.go:83-92`); a run at full autonomy
that starts then has no gate at all (`run.go:1511-1526`).

## 5. Proofs

All theorems hold for every value of the constants that satisfies the named
assumption of the module (`StreamAssumption`, `EditsAssumption`, `LogAssumption`,
...): types, positive capacities, finite sets of actors where their
number is counted, and sentinels that are none of the real values. TLC evaluates
each assumption in the runs. What they ask beyond types is little: a patch is a
sequence of operations on files, of which a chat turn can make one
(`EditsAssumption`), the buffer of the log has room for a line
(`LogAssumption`; the code's has 4096 bytes), a patch of a run is a list of the
operations that the format of `apply_patch` can write down (`PatchAssumption`: only the
first chunk of a file may lack its `@@`, and then it begins with a line of its
own), no line that an agent edits is itself
a mark of an edit block, or would stand left of the margin with the indentation it
gets wrong (`BlocksAssumption`), an alternation is of two calls at least
(`StuckAssumption`; the code's is of six), and HEAD's two sentinels are none of the files'
contents (`CheckpointsAssumption`).

| Module | Theorems | Argument |
|---|---|---|
| `Inductions` | `SequenceInduction`, `FoldOfNothing`, `FoldOfOneMore` | the least element of a set of numbers; a fold of the community modules is read off a function on sets of places, and two such functions agree where their sequences do. In the same way `FlattenSeq`, a recursive function of the library, gives for one sequence more what it gave before and that sequence behind it (`FlatOfOneMore`) |
| `RunLifecycleProofs` | `TypeCorrect`, `RowIsReliable`, `OneRunAtATime`, `TablesPointAtLiveRuns`, `EveryRunIsAccountedFor`, `StatusMovesForward`, `DeletedStaysDeleted` | `GateInv` says what a call in the middle of its check may still assume of the row as long as `late` is false; with it the properties are inductive, and the action properties follow from it step by step. The gauge needs cardinalities |
| `AskGateProofs` | `TypeCorrect`, `NoAskIsLeftBehind`, `ConsentFirst`, `AskedOnce`, `FirstAnswerWins`, `ImplementsPromise` | `GateInv` ties a waiting loop to its ask, an ask to its owner, what is in a channel to what was said and recorded; every step of the gate is then a step of `AskPromise` or leaves its state alone |
| `SubagentPoolProofs` | `TypeCorrect`, `CountIsExact`, `CapHolds`, `ImplementsPool` | `PlacesInv`: the three places a slot can be (a call under way, a closure, a wait that has taken one) are disjoint, and whoever runs is in one; so the count is a cardinality that each step changes by one, and `SlotPool` is implemented |
| `AgentLoopProofs` | `TypeCorrect`, `StatusIsRight`, `NeverOneTooMany`, `HintsOnceInOrder`, `TurnsTakeTurns` | `WorkInv`: a loop at work is within its budget and threshold; `ExitInv`: one that has been left was left for the reason it gives. `HintInv`: the hints heard are some of those posted, once each and in their order, and the one in the note is the last posted. `TurnInv`: the agent's messages stand at even places, which a compaction keeps if `HeadKeep` and `TailKeep` are even, as the code's 2 and 6 are (`compactor.go:34-35`); the theorem assumes it |
| | `DetectorTypeCorrect`, `SignalsAreTheTurns` | `StuckInv`: the buffer is the `Trail` of the turns, and the signals are what the last check makes of it and of the last turn's opening. Each walk over events is then followed by one event, one call, one turn more at a time: what its state says of the turns so far (`Tells` of the calls, `TalkIs` of the row of responses, `LastIs` of the last iterations). In such a trail a call stands before its result, so the pairs are the calls (`PatternsAreShown`), and its tail of any length shows no pattern that the whole does not: a pair not more often, a row not longer, and the last iterations, if they are all there, are the same (`WindowShowsNoMore`) |
| `ToolProofs` | `ChatTypeCorrect`, `SendsWellFormed`, `ClarifyTypeCorrect`, `QuestionsHeard`, `McpTypeCorrect`, `OneSet`, `RpcTypeCorrect`, `CallsAreFound` | `LogInv`: while the log is not broken, cleared or shared, it belongs to one prompt at a time, whose copy is true, and no call in it is open but those this prompt is at work on; `TurnsInv`: a prompt in a turn has turns left, and calls if it makes calls. `ClarifyInv`: an answer that is in a channel or was heard is delivered for its question; while runs do not overlap, a question in the table is being asked by a run in flight, so the end of a run finds no other's. `McpInv` is the property with the types and `SetsStay`: a set that the code closed is not the cached one, nor that of a call which has yet to look a second time. `RpcInv` adds `IdsAreFresh`: ids are given out once, the channel of a call in the table is empty, and a call can be found from its entry on |
| | `BlocksTypeCorrect`, `BlocksLandAsMeant` | `ListsAreRead`, by induction over the edits of a list: what the parser is at after each line of a block (`StageOf`) is known if it is outside before it and has a path, its own or the one before; where a text breaks off, the blocks closed so far are there. `LandsAsMeant`: what a tier matches reads as the block does, so no tier finds another place (`OnePlace`); which tier finds it follows from the error, and what the second tier takes off and adds again is what the agent got wrong (`ShiftBack`). `BlocksInv` ties the last block's end to what `ReplaceIn` gives |
| | `PatchTypeCorrect`, `PatchesLandInOrder` | `PatchIsRead`, by induction over hunks, chunks and lines: each part of a patch's text, put behind one that was read, leaves the parser malformed or with what the part was written for (`Comes`). The applier holds, after any number of chunks, the lines it has put before its cursor and those of the file behind it, which are untouched (`StateAt`); what is found behind the cursor is then found in the file (`FoundBehind`), and so one more chunk sits behind the others (`OneMoreSits`). `UpdateLands` and `UpdateIsApplied` are the two halves of the property, of one update; `PatchIInv` says of the last hunk that it was read as it was wanted and what the applier came to |
| `StoresProofs` | `SpecTypeCorrect`, `FrozenIsWhatLoads` | `StoreInv`: what bears a hash was sealed, a call past its loading has a spec, what was given was sealed, and, without overlap, one call at most is at work, and none beside a lock |
| | `PlanTypeCorrect`, `VerdictsAreEarned`, `VerdictsAreKept` | `PlanInv`: what is verified was earned, in the plan and in rows that are yet to be read |
| | `EditsTypeCorrect`, `DiffIsTrue` | `TurnIsRecorded`: in a turn without a command and beside no other, every file is recorded before it is written, its original is what the turn began with, and what a call has written is the result of its last operation on the file, which is what it will record. `HunksGiveText` is an induction over the hunks of an operation |
| | `CheckpointsTypeCorrect`, `RestoresGoBack` | `LogIsKept`: while no client came between the loop's commands, the log from HEAD is what the loop kept, place by place; what is staged, rolled back to or picked is then what was meant. The log is a recursive function along the parents, which exists because a parent is older than its child |
| | `AgentPlanTypeCorrect`, `ItemsAreTheOnesSeen` | `PlanIsSeen`: while no calls cross and no list numbers badly, the plan on disk is well kept (`WellKept`: ids and identities tell its places apart, no part has the id of an item, no identity is of a later version), a listing of its version is the plan itself, and a call that spoke of this version is to save, or has stamped, what was asked for of it. One lemma per operation (`UpdateDoes`, `RemoveDoes`, `AddDoes`, `SetDoes`) says that what it saves is well kept and what is meant; `CounterIsAhead`, by induction over the items, that the id an added item gets is no other's |
| `ClientsProofs` | `TypeCorrect`, `FanOutCorrect`, `NothingIsLostSilently`, `EachIsDeliveredOnce`, `ArrivesInRealTimeOrder` | the conjunction `StreamInv` is inductive; `FanOutInv` (no two appends share an ID, none sends to a subscription younger than its event, or what it dropped) is what the others need |
| | `RulesTypeCorrect`, `RulesAreKept` | `RulesInv`: while `crossed` is false, one call at most is between its reading and its return, what it has read is the file, and its write is what it is going to say |
| | `TheLoopShowsTheTurn` | `NoneIsLost`: what is on the screen, in the channel and in the drainer's hand is, in this order, what was received; `TurnStands`: the channel of text is empty whenever the loop has left a turn |
| | `TheWindowShowsTheTurn` | `OneIsRead`: while no prompt overtakes a reply, the newest reply is in one of four phases (a command reads it, a part of it is on its way, its end is, it is not read), and all older ones are over; from this the transcript is in order and the last turn of the tree is the newest reply's |
| | `TheDashboardIsTrue` | `FreshIsNew`: a tail that `Update` has not heard of has brought nothing; `OneOnItsWay`: of a tail's events one at most is a message, the last it read, and none while its command reads |
| | `TheClientsShowWhatTheyRead` | the three before, which share no variable |
| | `TheLogTellsTheTruth`, `TheFilesTellTheTruth` | `LogIsKept` of the log: the file and the buffer of the one run that writes are the lines of what was taken, and what was promised is in the file. `ReadsTo`, by induction over events: what `LoadAll` makes of their lines, cut at any piece. With `RulesInv`, both files |

`FanOutCorrect`, `CapHolds`, `DeletedStaysDeleted` and `TablesPointAtLiveRuns` state what no run checks as
such; they are about any number of subscribers, slots and calls.

**Induction over data.** The library's induction theorems take an operator, which
none of the provers can put in. `Inductions` takes the operator and the claim as
CONSTANTS instead, and a proof gets its own by `INSTANCE Inductions WITH Op <- ...,
Claim <- ...`; so what a fold over a sequence of any length computes can be proved,
with a lemma that the module's `FoldLeft` is the instance's.

**Only model-checked.** Liveness (`AppendNeverBlocks`, `EveryRunReports`,
`EveryWaitReturns`, `RunEnds`, `PromptReturns`, `CallsReturn`, `ReplTurnEnds`, and the fairness
part of `KeepsPromise`): the prover has no rule for fairness that could be used
here; the theorems prove the safety part of the refinements, which is all of
`KeepsPool`. Every safety invariant and every action property of a passing run is a
theorem, with one exception in form: `TypeOK` of `MCSession` is the conjunction of its
parts' invariants, each of which is a theorem of that part's own specification; that
the parts, which share no variable, run side by side is only model-checked.
The violated properties have counterexamples
and no theorem.

## 6. Plan

Done: the five parts of a run (`EventStream`, `RunLifecycle`, `AskGate`,
`SubagentPool`, `AgentLoop`) with their proofs; the parts beside it, of which the
chat, the questions, the servers and the stores have theirs; the event log, the
file of permission rules and the clients' ends of streams.

What is left, in order:

1. The retry of the providers, with its backoff and the context's end.
2. The chat window's run tail and the window of checkpoints.

Hazards that no property covers yet: `freeze_spec` that writes the lock and fails
to set the status (`agent_tools_lifecycle.go:205`), slots that are not given back
(`subagent_registry.go:19`), a budget slice that becomes none
(`subagent_slice.go:192`), a hint lost between reading and clearing
(`runner.go:574`), calls that are not charged to the budget (`compactor.go:93`). The models have the steps of
all but the fifth as ordinary ones; nothing in the code says that they
should not happen.

## 7. Not modelled

- *Providers, retries, cost, web, runtimes, notifications*: what they return is
  an arbitrary outcome in the modules that call them. The retry loop is in the plan.
- *Of the clients*: the commands of `gil` other than `chat`, slash commands, panes,
  the run tail of the chat window, the MCP server and the SDK; each makes one call
  and prints what it gets.
- *Daemon set-up, authentication, metrics, sockets, paths, credentials*:
  read or serve without state that another part relies on. The restart that some
  modules have is the daemon's.
- *Repository map, instructions, memory bank, exec tool*: text gathered for a
  prompt or a script of tool calls; the ranking is floating point.
- *Generated code* (`proto/gen`) and tests.
- Inside modelled parts: wildcards of permission keys, the formats of events and
  tool results, the similarity score of a fuzzy match, the diagnostics that the
  language server client keeps, the tools that only read.
