----------------------------- MODULE RpcClient -----------------------------
(***************************************************************************)
(* The two JSON-RPC clients that talk to a server process over its stdin   *)
(* and stdout: the language server client (core/lsp/client.go) and the MCP *)
(* client (core/mcp/client.go).  They differ in what the reading side does *)
(* at the end of its input, in who it answers, and in how they are closed. *)
(*                                                                         *)
(* A pipe holds so many messages; a write blocks while it is full.         *)
(* Notifications are left out: they change no call.                        *)
(***************************************************************************)
EXTENDS Integers, Sequences

CONSTANTS
    Clients,    \* goroutines that call
    MaxIds,     \* bound: calls made
    MaxAsked,   \* bound: requests the server makes of the client
    Room        \* bound: messages a pipe holds

ASSUME RpcAssumption == {MaxIds, MaxAsked, Room} \subseteq Nat

VARIABLES
    kind,     \* "lsp" or "mcp"
    lastId,   \* idCtr, nextID
    req,      \* a goroutine's call: its step and id
    pending,  \* the ids in the table of pending calls
    box,      \* the channels: what was sent to the call of an id
    toServer, toClient,  \* the pipes
    heard,    \* the requests the server has read and not answered
    asked,    \* the number of requests it made
    server,   \* the server process: it runs, or not
    writing,  \* who holds writeMu
    loop,     \* the reading goroutine
    closing,  \* how far Shutdown or Close is
    clash     \* history: a channel was sent to twice

rpcVars == <<kind, lastId, req, pending, box, toServer, toClient, heard, asked,
             server, writing, loop, closing, clash>>

Free == "free"
Ask == 0                 \* a request of the server, told from answers by their ids
Loop == "loop"           \* the reading goroutine as a writer

RpcInit ==
    /\ kind \in {"lsp", "mcp"}
    /\ lastId = 0
    /\ req = [c \in Clients |-> [step |-> "idle", id |-> 0]]
    /\ pending = {} /\ box = [id \in 1..MaxIds |-> "empty"]
    /\ toServer = <<>> /\ toClient = <<>>
    /\ heard = {} /\ asked = 0 /\ server = "up"
    /\ writing = Free /\ loop = [step |-> "reading", id |-> 0]
    /\ closing = "no" /\ clash = FALSE

Closed == closing # "no"
StdinOpen == closing \in {"no", "begun"}
StdoutOpen == IF kind = "lsp" THEN closing \in {"no", "begun", "stdin"} ELSE TRUE

Becomes(c, from, to) == req[c].step = from /\ req' = [req EXCEPT ![c].step = to]
Drop(c) == pending' = pending \ {req[c].id}

(* The look whether the client is closed; then an id of its own, a channel *)
(* for one answer, an entry in the table.                                  *)
Enter(c) ==
    /\ req[c].step \in {"idle", "answered", "failed"} /\ ~Closed
    /\ req' = [req EXCEPT ![c] = [step |-> "entered", id |-> 0]]
    /\ UNCHANGED <<kind, lastId, pending, box, toServer, toClient, heard, asked, server, writing, loop, closing, clash>>

Register(c) ==
    /\ req[c].step = "entered" /\ lastId < MaxIds
    /\ lastId' = lastId + 1
    /\ req' = [req EXCEPT ![c] = [step |-> "write", id |-> lastId']]
    /\ pending' = pending \cup {lastId'}
    /\ UNCHANGED <<kind, box, toServer, toClient, heard, asked, server, writing, loop, closing, clash>>

(* The lsp client looks once more before it takes writeMu. *)
MayWriteOn(c) ==
    /\ ~(kind = "lsp" /\ Closed)
    /\ Becomes(c, "write", "locking")
    /\ UNCHANGED <<kind, lastId, pending, box, toServer, toClient, heard, asked, server, writing, loop, closing, clash>>

RefuseWrite(c) ==
    /\ kind = "lsp" /\ Closed
    /\ Becomes(c, "write", "failed") /\ Drop(c)
    /\ UNCHANGED <<kind, lastId, box, toServer, toClient, heard, asked, server, writing, loop, closing, clash>>

Lock(c) ==
    /\ writing = Free /\ writing' = c
    /\ Becomes(c, "locking", "writing")
    /\ UNCHANGED <<kind, lastId, pending, box, toServer, toClient, heard, asked, server, loop, closing, clash>>

Write(c) ==
    /\ StdinOpen /\ server = "up" /\ Len(toServer) < Room
    /\ Becomes(c, "writing", "waiting") /\ writing' = Free
    /\ toServer' = Append(toServer, req[c].id)
    /\ UNCHANGED <<kind, lastId, pending, box, toClient, heard, asked, server, loop, closing, clash>>

(* A faulty variant: an early return that leaves the mutex locked.         *)
FailWrite_KeepsLock(c) ==
    /\ ~StdinOpen \/ server # "up"
    /\ Becomes(c, "writing", "failed") /\ Drop(c)
    /\ UNCHANGED <<kind, lastId, box, toServer, toClient, heard, asked, server, writing, loop, closing, clash>>

FailWrite(c) ==
    /\ ~StdinOpen \/ server # "up"
    /\ Becomes(c, "writing", "failed") /\ writing' = Free /\ Drop(c)
    /\ UNCHANGED <<kind, lastId, box, toServer, toClient, heard, asked, server, loop, closing, clash>>

(* The select: the channel, or the timer and the context. *)
TakeAnswer(c) ==
    /\ req[c].step = "waiting" /\ box[req[c].id] # "empty"
    /\ Becomes(c, "waiting", IF box[req[c].id] = "answer" THEN "answered" ELSE "failed") /\ Drop(c)
    /\ UNCHANGED <<kind, lastId, box, toServer, toClient, heard, asked, server, writing, loop, closing, clash>>

GiveUp(c) ==
    /\ Becomes(c, "waiting", "failed") /\ Drop(c)
    /\ UNCHANGED <<kind, lastId, box, toServer, toClient, heard, asked, server, writing, loop, closing, clash>>

(* The server reads a request or an answer, answers in any order, makes a  *)
(* request of its own, or ends.  The mcp client takes whatever bears an id *)
(* for an answer to the call of that id.                                   *)
Hear ==
    /\ server = "up" /\ toServer # <<>>
    /\ toServer' = Tail(toServer)
    /\ heard' = heard \cup ({Head(toServer)} \ {Ask})
    /\ UNCHANGED <<kind, lastId, req, pending, box, toClient, asked, server, writing, loop, closing, clash>>

Answer(id) ==
    /\ server = "up" /\ id \in heard /\ Len(toClient) < Room
    /\ heard' = heard \ {id} /\ toClient' = Append(toClient, id)
    /\ UNCHANGED <<kind, lastId, req, pending, box, toServer, asked, server, writing, loop, closing, clash>>

AskClient ==
    /\ server = "up" /\ asked < MaxAsked /\ Len(toClient) < Room
    /\ asked' = asked + 1
    /\ \E id \in (IF kind = "lsp" THEN {Ask} ELSE 1..MaxIds) : toClient' = Append(toClient, id)
    /\ UNCHANGED <<kind, lastId, req, pending, box, toServer, heard, server, writing, loop, closing, clash>>

Exit ==
    /\ server = "up" /\ server' = "down"
    /\ UNCHANGED <<kind, lastId, req, pending, box, toServer, toClient, heard, asked, writing, loop, closing, clash>>

(* A faulty variant: the answered entry is left for the caller to drop.    *)
ReadOne_KeepsEntry ==
    /\ loop.step = "reading" /\ StdoutOpen /\ toClient # <<>>
    /\ toClient' = Tail(toClient)
    /\ loop' = CASE Head(toClient) = Ask -> [step |-> "asked", id |-> Ask]
                 [] Head(toClient) \in pending -> [step |-> "found", id |-> Head(toClient)]
                 [] OTHER -> loop
    /\ UNCHANGED <<kind, lastId, req, pending, box, toServer, heard, asked, server, writing, closing, clash>>

(* The entry is looked up and removed in one critical section; an answer   *)
(* nobody waits for is dropped.                                            *)
ReadOne ==
    /\ loop.step = "reading" /\ StdoutOpen /\ toClient # <<>>
    /\ toClient' = Tail(toClient)
    /\ loop' = CASE Head(toClient) = Ask -> [step |-> "asked", id |-> Ask]
                 [] Head(toClient) \in pending -> [step |-> "found", id |-> Head(toClient)]
                 [] OTHER -> loop
    /\ pending' = pending \ {Head(toClient)}
    /\ UNCHANGED <<kind, lastId, req, box, toServer, heard, asked, server, writing, closing, clash>>

Reading == [step |-> "reading", id |-> 0]

(* The send, after the critical section. *)
Deliver ==
    /\ loop.step = "found"
    /\ clash' = (clash \/ box[loop.id] # "empty")
    /\ box' = [box EXCEPT ![loop.id] = "answer"]
    /\ loop' = Reading
    /\ UNCHANGED <<kind, lastId, req, pending, toServer, toClient, heard, asked, server, writing, closing>>

(* The reading goroutine of the lsp client answers the server itself.      *)
MayReply ==
    /\ loop.step = "asked"
    /\ loop' = IF Closed THEN Reading ELSE [loop EXCEPT !.step = "locking"]
    /\ UNCHANGED <<kind, lastId, req, pending, box, toServer, toClient, heard, asked, server, writing, closing, clash>>

LockLoop ==
    /\ loop.step = "locking" /\ writing = Free
    /\ writing' = Loop /\ loop' = [loop EXCEPT !.step = "replying"]
    /\ UNCHANGED <<kind, lastId, req, pending, box, toServer, toClient, heard, asked, server, closing, clash>>

ReplyToServer ==
    /\ loop.step = "replying" /\ StdinOpen /\ server = "up" /\ Len(toServer) < Room
    /\ toServer' = Append(toServer, Ask) /\ writing' = Free /\ loop' = Reading
    /\ UNCHANGED <<kind, lastId, req, pending, box, toClient, heard, asked, server, closing, clash>>

FailReply ==
    /\ loop.step = "replying" /\ (~StdinOpen \/ server # "up")
    /\ writing' = Free /\ loop' = Reading
    /\ UNCHANGED <<kind, lastId, req, pending, box, toServer, toClient, heard, asked, server, closing, clash>>

(* The end of the reading: the lsp client fails every pending call, the    *)
(* mcp client leaves them to their timers.                                 *)
Finish ==
    /\ loop' = [step |-> "done", id |-> 0]
    /\ IF kind = "lsp"
       THEN /\ clash' = (clash \/ \E id \in pending : box[id] # "empty")
            /\ box' = [id \in 1..MaxIds |-> IF id \in pending THEN "error" ELSE box[id]]
            /\ pending' = {}
       ELSE UNCHANGED <<box, pending, clash>>
    /\ UNCHANGED <<kind, lastId, req, toServer, toClient, heard, asked, server, writing, closing>>

EndLoop ==
    /\ loop.step = "reading" /\ (~StdoutOpen \/ (server # "up" /\ toClient = <<>>))
    /\ Finish

(* The server, still running, has sent what cannot be read. *)
GiveUpReading ==
    /\ loop.step = "reading" /\ StdoutOpen /\ server = "up" /\ toClient = <<>>
    /\ Finish

(* Shutdown marks the client closed before it calls "shutdown" and notifies *)
(* "exit", so that neither is sent; then it closes the pipes and kills.     *)
Shutdown ==
    /\ closing' = CASE closing = "no" -> "begun"
                    [] closing = "begun" -> "stdin"
                    [] closing = "stdin" /\ kind = "lsp" -> "stdout"
                    [] OTHER -> "killed"
    /\ closing # "killed"
    /\ server' = IF closing' = "killed" THEN "down" ELSE server
    /\ UNCHANGED <<kind, lastId, req, pending, box, toServer, toClient, heard, asked, writing, loop, clash>>

Caller(c) ==
    \/ Register(c) \/ MayWriteOn(c) \/ RefuseWrite(c) \/ Lock(c)
    \/ Write(c) \/ FailWrite(c) \/ TakeAnswer(c) \/ GiveUp(c)

Reader == ReadOne \/ Deliver \/ MayReply \/ LockLoop \/ ReplyToServer \/ FailReply \/ EndLoop

RpcNext ==
    \/ \E c \in Clients : Enter(c) \/ Caller(c)
    \/ Hear \/ AskClient \/ Exit \/ (\E id \in 1..MaxIds : Answer(id))
    \/ Reader \/ GiveUpReading \/ Shutdown

(* Goroutines go on, a timer fires in the end and a closing that has begun *)
(* goes on.  Nothing is assumed of the server: it need neither read nor    *)
(* answer.                                                                 *)
RpcFairness ==
    /\ \A c \in Clients : WF_rpcVars(Caller(c))
    /\ WF_rpcVars(Reader) /\ WF_rpcVars(Closed /\ Shutdown)

RpcSpec == RpcInit /\ [][RpcNext]_rpcVars /\ RpcFairness

-----------------------------------------------------------------------------

InCall(c) == req[c].step \in {"write", "locking", "writing", "waiting"}

RpcTypeOK ==
    /\ kind \in {"lsp", "mcp"} /\ lastId \in 0..MaxIds
    /\ req \in [Clients -> [step : {"idle", "entered", "write", "locking", "writing", "waiting", "answered", "failed"}, id : 0..MaxIds]]
    /\ pending \subseteq 1..MaxIds /\ box \in [1..MaxIds -> {"empty", "answer", "error"}]
    /\ Len(toServer) \in 0..Room /\ Len(toClient) \in 0..Room
    /\ heard \subseteq 1..MaxIds /\ asked \in 0..MaxAsked /\ server \in {"up", "down"}
    /\ writing \in Clients \cup {Free, Loop}
    /\ loop \in [step : {"reading", "found", "asked", "locking", "replying", "done"}, id : 0..MaxIds]
    /\ closing \in {"no", "begun", "stdin", "stdout", "killed"} /\ clash \in BOOLEAN

(* No channel is sent to twice, which would block the reader for ever or   *)
(* panic on a closed one; the table holds calls that are being made and no *)
(* other; and a call that waits is in the table, or its answer is in its   *)
(* channel or on the way there: none is forgotten, however timers, late    *)
(* answers, the end of the server and the closing interleave.              *)
AnswersFindCalls ==
    /\ ~clash
    /\ \A id \in pending : \E c \in Clients : InCall(c) /\ req[c].id = id
    /\ \A c \in Clients : req[c].step = "waiting" =>
         LET id == req[c].id
         IN  id \in pending \/ box[id] # "empty" \/ (loop.step = "found" /\ loop.id = id)

Returns(c) == req[c].step = "write" ~> req[c].step \in {"answered", "failed"}

(* A message is written under writeMu into a pipe that is full, and no     *)
(* timer runs: it stays so until the server reads or ends, or Shutdown or  *)
(* Close is called.                                                        *)
Blocked == server = "up" /\ StdinOpen /\ Len(toServer) = Room /\ writing # Free

(* Every call returns, answered or not, unless a server that goes on       *)
(* without reading blocks a writer for ever (lsp/client.go:197-202): then  *)
(* the calls behind it wait for writeMu too.  Closing frees them all.      *)
CallsReturn == (\A c \in Clients : Returns(c)) \/ <>[]Blocked

(* What the comments say.                                                  *)

(* core/lsp/client.go:21: "DefaultRequestTimeout caps every                *)
(* request/response round-trip".  Every call returns, whatever the server  *)
(* does or omits to do.                                                    *)
RoundTripsAreCapped == \A c \in Clients : Returns(c)

=============================================================================
