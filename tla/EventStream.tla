---------------------------- MODULE EventStream ----------------------------
(***************************************************************************)
(* core/event/stream.go: the in-memory event bus of one session.           *)
(*                                                                         *)
(* Producers (the agent loop, tool callbacks, RPC handlers) call Append;   *)
(* subscribers (the persister, the progress and metrics collectors, the    *)
(* Tail RPC of each client) each own a buffered channel.  Append assigns   *)
(* the ID and copies the list of subscribers under the stream's mutex, and *)
(* sends on the copied subscribers' channels after it has let the mutex    *)
(* go.  Subscription.Close closes the channel first and unregisters the    *)
(* subscription second.                                                    *)
(*                                                                         *)
(* An event is its ID: the type and payload play no part here.  The order  *)
(* of the subscribers inside one fan-out is left open, since each send     *)
(* goes to a channel of its own.  An event that arrives with an ID is      *)
(* refused before anything changes and has no action.                      *)
(***************************************************************************)
EXTENDS Naturals, Sequences

CONSTANTS
    Producers,  \* goroutines that call Append
    Subs,       \* subscriptions that are ever made
    Cap,        \* capacity of a subscription's channel (256 in the code)
    MaxEvents   \* bound: Append calls explored

ASSUME StreamAssumption ==
    /\ Cap \in Nat \ {0}
    /\ MaxEvents \in Nat

VARIABLES
    curID,   \* Stream.curID; the log Stream.events holds 1..curID
    phase,   \* life of a subscription: "new", "open", "closing" (channel
             \* closed, still registered) and "closed"
    buf,     \* Subscription.ch: events sent and not yet received
    cur,     \* the event a producer is fanning out, 0 outside Append
    todo,    \* the copied subscribers it has not yet sent to
    crashed, \* a send on a closed channel has panicked the daemon
    since,   \* history: curID when the subscription was made
    got,     \* history: the events its reader received, in order
    lost,    \* history: the events dropped because its buffer was full
    pre      \* history: for each event, those whose Append had returned
             \* when its own was called

vars == <<curID, phase, buf, cur, todo, crashed, since, got, lost, pre>>

Events == 1..MaxEvents

Registered == {s \in Subs : phase[s] \in {"open", "closing"}}

InFlight == {cur[p] : p \in {q \in Producers : cur[q] # 0}}

Init ==
    /\ curID = 0
    /\ phase = [s \in Subs |-> "new"]
    /\ buf = [s \in Subs |-> <<>>]
    /\ cur = [p \in Producers |-> 0]
    /\ todo = [p \in Producers |-> {}]
    /\ crashed = FALSE
    /\ since = [s \in Subs |-> 0]
    /\ got = [s \in Subs |-> <<>>]
    /\ lost = [s \in Subs |-> {}]
    /\ pre = [e \in Events |-> {}]

\* Stream.Append under the mutex: take the next ID, log the event and copy
\* the list of subscribers.
StartAppend(p) ==
    /\ ~crashed
    /\ cur[p] = 0
    /\ curID < MaxEvents
    /\ curID' = curID + 1
    /\ cur' = [cur EXCEPT ![p] = curID + 1]
    /\ todo' = [todo EXCEPT ![p] = Registered]
    /\ pre' = [pre EXCEPT ![curID + 1] = 1..curID \ InFlight]
    /\ UNCHANGED <<phase, buf, crashed, since, got, lost>>

\* Faulty variants of SendTo, one plausible slip each; the properties below
\* tell them from the code.
\*   GivesUp        ends the fan-out at the first full channel
\*   RetriesDropped counts a drop and tries the same subscriber again
\*   NewestFirst    puts the event before those that wait
\*   Blocking       waits for room instead of dropping
SendTo_GivesUp(p, s) ==
    /\ ~crashed /\ s \in todo[p] /\ phase[s] = "open"
    /\ \/ /\ Len(buf[s]) < Cap
          /\ buf' = [buf EXCEPT ![s] = Append(@, cur[p])]
          /\ todo' = [todo EXCEPT ![p] = @ \ {s}]
          /\ UNCHANGED lost
       \/ /\ Len(buf[s]) = Cap
          /\ lost' = [lost EXCEPT ![s] = @ \cup {cur[p]}]
          /\ todo' = [todo EXCEPT ![p] = {}]
          /\ UNCHANGED buf
    /\ UNCHANGED <<curID, phase, cur, crashed, since, got, pre>>

SendTo_RetriesDropped(p, s) ==
    /\ ~crashed /\ s \in todo[p] /\ phase[s] = "open"
    /\ \/ /\ Len(buf[s]) < Cap
          /\ buf' = [buf EXCEPT ![s] = Append(@, cur[p])]
          /\ todo' = [todo EXCEPT ![p] = @ \ {s}]
          /\ UNCHANGED lost
       \/ /\ Len(buf[s]) = Cap
          /\ lost' = [lost EXCEPT ![s] = @ \cup {cur[p]}]
          /\ UNCHANGED <<buf, todo>>
    /\ UNCHANGED <<curID, phase, cur, crashed, since, got, pre>>

SendTo_NewestFirst(p, s) ==
    /\ ~crashed /\ s \in todo[p] /\ phase[s] = "open"
    /\ Len(buf[s]) < Cap
    /\ todo' = [todo EXCEPT ![p] = @ \ {s}]
    /\ buf' = [buf EXCEPT ![s] = <<cur[p]>> \o @]
    /\ UNCHANGED <<curID, phase, cur, crashed, since, got, lost, pre>>

SendTo_Blocking(p, s) ==
    /\ ~crashed /\ s \in todo[p] /\ phase[s] = "open"
    /\ Len(buf[s]) < Cap
    /\ todo' = [todo EXCEPT ![p] = @ \ {s}]
    /\ buf' = [buf EXCEPT ![s] = Append(@, cur[p])]
    /\ UNCHANGED <<curID, phase, cur, crashed, since, got, lost, pre>>

\* Stream.Append without the mutex: one non-blocking send.  The channel takes
\* the event, the event is dropped because the channel is full, or the channel
\* was closed after the list was copied and the send panics.
SendTo(p, s) ==
    /\ ~crashed
    /\ s \in todo[p]
    /\ todo' = [todo EXCEPT ![p] = @ \ {s}]
    /\ \/ /\ phase[s] = "open"
          /\ Len(buf[s]) < Cap
          /\ buf' = [buf EXCEPT ![s] = Append(@, cur[p])]
          /\ UNCHANGED <<lost, crashed>>
       \/ /\ phase[s] = "open"
          /\ Len(buf[s]) = Cap
          /\ lost' = [lost EXCEPT ![s] = @ \cup {cur[p]}]
          /\ UNCHANGED <<buf, crashed>>
       \/ /\ phase[s] # "open"
          /\ crashed' = TRUE
          /\ UNCHANGED <<buf, lost>>
    /\ UNCHANGED <<curID, phase, cur, since, got, pre>>

\* Stream.Append returns once every copied subscriber has been sent to.
ReturnFromAppend(p) ==
    /\ ~crashed
    /\ cur[p] # 0
    /\ todo[p] = {}
    /\ cur' = [cur EXCEPT ![p] = 0]
    /\ UNCHANGED <<curID, phase, buf, todo, crashed, since, got, lost, pre>>

\* Stream.Subscribe, one critical section.
Subscribe(s) ==
    /\ ~crashed
    /\ phase[s] = "new"
    /\ phase' = [phase EXCEPT ![s] = "open"]
    /\ since' = [since EXCEPT ![s] = curID]
    /\ UNCHANGED <<curID, buf, cur, todo, crashed, got, lost, pre>>

\* Subscription.Close: close(sub.ch), then removeSubscription under the
\* stream's mutex.  A second Close finds sub.closed set and does nothing.
CloseChannel(s) ==
    /\ ~crashed
    /\ phase[s] = "open"
    /\ phase' = [phase EXCEPT ![s] = "closing"]
    /\ UNCHANGED <<curID, buf, cur, todo, crashed, since, got, lost, pre>>

RemoveSubscription(s) ==
    /\ ~crashed
    /\ phase[s] = "closing"
    /\ phase' = [phase EXCEPT ![s] = "closed"]
    /\ UNCHANGED <<curID, buf, cur, todo, crashed, since, got, lost, pre>>

\* The reader takes one event.  A closed channel still yields what it holds:
\* the collectors of a run drain it after Close.
Receive(s) ==
    /\ ~crashed
    /\ buf[s] # <<>>
    /\ got' = [got EXCEPT ![s] = Append(@, Head(buf[s]))]
    /\ buf' = [buf EXCEPT ![s] = Tail(@)]
    /\ UNCHANGED <<curID, phase, cur, todo, crashed, since, lost, pre>>

Next ==
    \/ \E p \in Producers : StartAppend(p)
    \/ \E p \in Producers, s \in Subs : SendTo(p, s)
    \/ \E p \in Producers : ReturnFromAppend(p)
    \/ \E s \in Subs : Subscribe(s)
    \/ \E s \in Subs : CloseChannel(s)
    \/ \E s \in Subs : RemoveSubscription(s)
    \/ \E s \in Subs : Receive(s)

\* A goroutine inside Append is scheduled; nothing is assumed of readers.
Fairness ==
    \A p \in Producers :
        /\ WF_vars(\E s \in Subs : SendTo(p, s))
        /\ WF_vars(ReturnFromAppend(p))

Spec == Init /\ [][Next]_vars /\ Fairness

-----------------------------------------------------------------------------
(* Properties *)

\* Every variable has its type, and no channel exceeds its capacity.
TypeOK ==
    /\ curID \in 0..MaxEvents
    /\ phase \in [Subs -> {"new", "open", "closing", "closed"}]
    /\ buf \in [Subs -> Seq(Events)]
    /\ \A s \in Subs : Len(buf[s]) <= Cap
    /\ cur \in [Producers -> 0..MaxEvents]
    /\ todo \in [Producers -> SUBSET Subs]
    /\ crashed \in BOOLEAN
    /\ since \in [Subs -> 0..MaxEvents]
    /\ got \in [Subs -> Seq(Events)]
    /\ lost \in [Subs -> SUBSET Events]
    /\ pre \in [Events -> SUBSET Events]

\* What a subscription was ever sent, oldest first.
Sent(s) == got[s] \o buf[s]

Elems(q) == {q[i] : i \in 1..Len(q)}

SentSet(s) == Elems(Sent(s))

\* The events still on their way to s in some Append.
OnTheWay(s) == {cur[p] : p \in {q \in Producers : s \in todo[q]}}

\* An open subscription accounts for every event appended since it was made:
\* each was sent to it, is still on its way, or was dropped because its
\* channel was full (Stream.Append's select with a default branch).  The list
\* is copied under the mutex, so a Subscribe or a Close that runs during a
\* fan-out takes no event away from anybody else.
NothingLostSilently ==
    \A s \in Subs : phase[s] = "open" =>
        (since[s] + 1)..curID = SentSet(s) \cup OnTheWay(s) \cup lost[s]

\* A subscriber never gets an event twice, never one it was also told is
\* dropped or that is still on its way, and never one older than itself.
DeliveredOnce ==
    \A s \in Subs :
        /\ \A i, j \in 1..Len(Sent(s)) : i # j => Sent(s)[i] # Sent(s)[j]
        /\ SentSet(s) \cap (OnTheWay(s) \cup lost[s]) = {}
        /\ \A e \in SentSet(s) : since[s] < e /\ e <= curID

\* Concurrent Append calls never share an ID, and each sends to subscriptions
\* made before it, which it has not already dropped the event for: the mutex
\* of Stream.Append covers the ID and the copy of the list together.  This is
\* also what makes the other properties inductive.
FanOutInv ==
    /\ \A p \in Producers :
        /\ cur[p] <= curID
        /\ todo[p] # {} => cur[p] # 0
        /\ \A q \in Producers : p # q /\ cur[p] # 0 => cur[p] # cur[q]
        /\ \A s \in todo[p] :
              phase[s] # "new" /\ since[s] < cur[p] /\ cur[p] \notin lost[s]
        /\ cur[p] # 0 => \A e \in Events : cur[p] \notin pre[e]
    /\ \A e \in Events : pre[e] \subseteq 1..curID
    /\ \A s \in Subs :
        /\ since[s] <= curID
        /\ lost[s] \subseteq 1..curID
        /\ phase[s] = "new" => buf[s] = <<>> /\ got[s] = <<>> /\ lost[s] = {}

\* Two events can reach a subscriber in the opposite order of their IDs, but
\* only when their Append calls overlapped: an event whose Append had returned
\* before another's was called is delivered first.
RealTimeOrder ==
    \A s \in Subs : \A i, j \in 1..Len(Sent(s)) :
        i < j => Sent(s)[j] \notin pre[Sent(s)[i]]

\* An Append returns whatever its subscribers do, a reader that has stopped
\* reading included: no slow client can hold up the agent loop.
AppendNeverBlocks ==
    \A p \in Producers : cur[p] # 0 ~> (cur[p] = 0 \/ crashed)

\* "a session survives client disconnects and can be tailed concurrently":
\* closing a subscription while an event is appended harms nobody.
SurvivesDisconnect == ~crashed

=============================================================================
