------------------------------ MODULE TuiTails ------------------------------
(***************************************************************************)
(* The dashboard of the TUI: Model.Update, startTailingSelected and the    *)
(* commands that read the events of the selected session (tui/internal/app *)
(* update.go, model.go, tail.go), with the windows it opens for an event:  *)
(* a permission, a question (permission.go, clarify.go).                   *)
(*                                                                         *)
(* A command runs in a goroutine of its own and ends with a message, which *)
(* Update takes, one at a time and in any order.  Messages of a tail name  *)
(* its session, not the tail.                                              *)
(*                                                                         *)
(* One list of sessions is loaded at a time.  Left out are the sessions    *)
(* that are over, which have no tail, an empty list, the panes that        *)
(* are made of the events, the window of the checkpoints, slash commands,  *)
(* the bound of the buffer and answers that fail.                          *)
(***************************************************************************)
EXTENDS Integers, Sequences, FiniteSets

CONSTANTS
    Watched,   \* the sessions
    NoSession,
    MaxTails,  \* bound: tails started
    MaxFeed    \* bound: events

ASSUME TailsAssumption == NoSession \notin Watched /\ MaxTails \in Nat /\ MaxFeed \in Nat

VARIABLES
    selected,   \* sessions[selectedIdx]
    loading,    \* a loadSessionsCmd runs
    tails,      \* the tails started: of which session, state, first and next event
    activeTail, \* 0, or the number of a tail
    reading,    \* the tails that a nextEventCmd reads from
    mail,       \* the messages on their way to Update
    feed,       \* the events of all sessions: [of, type]
    rawEvents,  \* what the panes show: <<tail, event>>
    pending,    \* pendingAsk and pendingClarify: 0, or the event
    typeBuf,    \* of each key typed, the question that was on the screen
    answered    \* the last answer sent: <<question, typed>>

tailVars == <<selected, loading, tails, activeTail, reading, mail, feed, rawEvents, pending, typeBuf, answered>>

Windows == {"permission_ask", "clarify_requested"}
NoWindow == [w \in Windows |-> 0]

TailsInit ==
    /\ selected = NoSession /\ loading = TRUE
    /\ tails = <<>> /\ activeTail = 0 /\ reading = {} /\ mail = {}
    /\ feed = <<>> /\ rawEvents = <<>>
    /\ pending = NoWindow /\ typeBuf = <<>> /\ answered = <<0, <<>>>>

Cancelled == [t \in DOMAIN tails |-> IF t = activeTail THEN [tails[t] EXCEPT !.state = "cancelled"] ELSE tails[t]]

(* The active tail is cancelled, the panes are emptied and the session has *)
(* a new tail.                                                             *)
StartTailing(session) ==
    /\ activeTail' = 0 /\ rawEvents' = <<>>
    /\ Len(tails) < MaxTails
    /\ tails' = Append(Cancelled, [of |-> session, state |-> "opening", from |-> 0, next |-> 0])

(* sessionsLoadedMsg: the list may have another session in the place.      *)
OnLoaded(session) ==
    /\ loading /\ loading' = FALSE
    /\ selected' = session
    /\ StartTailing(session)
    /\ UNCHANGED <<reading, mail, feed, pending, typeBuf, answered>>

LoadFails ==
    /\ loading /\ loading' = FALSE
    /\ UNCHANGED <<selected, tails, activeTail, reading, mail, feed, rawEvents, pending, typeBuf, answered>>

(* The keys that no window takes.                                          *)
NoWindowOpen == pending = NoWindow /\ selected # NoSession

Refresh ==
    /\ NoWindowOpen /\ ~loading /\ loading' = TRUE
    /\ StartTailing(selected)
    /\ UNCHANGED <<selected, reading, mail, feed, pending, typeBuf, answered>>

Move(session) ==
    /\ NoWindowOpen
    /\ selected' = session
    /\ StartTailing(session)
    /\ UNCHANGED <<loading, reading, mail, feed, pending, typeBuf, answered>>

(* startTail: the tail gives the events from here on.                      *)
OpenTail(t, opened) ==
    /\ tails[t].state = "opening"
    /\ tails' = [tails EXCEPT ![t].state = IF opened THEN "open" ELSE "over", ![t].from = Len(feed) + 1, ![t].next = Len(feed) + 1]
    /\ mail' = mail \cup {<<IF opened THEN "started" ELSE "over", t, 0>>}
    /\ UNCHANGED <<selected, loading, activeTail, reading, feed, rawEvents, pending, typeBuf, answered>>

Due(t) == {e \in tails[t].next..Len(feed) : feed[e].of = tails[t].of}

(* nextEventCmd: an event, also of a tail just cancelled, or the end.      *)
ReadEvent(t, ends) ==
    /\ t \in reading /\ reading' = reading \ {t}
    /\ IF ends
       THEN /\ mail' = mail \cup {<<"over", t, 0>>}
            /\ tails' = [tails EXCEPT ![t].state = "over"]
       ELSE \E e \in Due(t) :
              /\ \A d \in Due(t) : e <= d
              /\ mail' = mail \cup {<<"event", t, e>>}
              /\ tails' = [tails EXCEPT ![t].next = e + 1]
    /\ UNCHANGED <<selected, loading, activeTail, feed, rawEvents, pending, typeBuf, answered>>

Taken(msg) == msg \in mail /\ mail' = mail \ {msg}

OnTailStarted(t) ==
    /\ Taken(<<"started", t, 0>>)
    /\ activeTail' = t /\ reading' = reading \cup {t}
    /\ UNCHANGED <<selected, loading, tails, feed, rawEvents, pending, typeBuf, answered>>

OfActive(t) == activeTail # 0 /\ tails[activeTail].of = tails[t].of

(* A faulty variant: what was typed stays as the question changes.         *)
OnTailEvent_KeepsBuffer(t, e) ==
    /\ Taken(<<"event", t, e>>) /\ OfActive(t)
    /\ rawEvents' = Append(rawEvents, <<t, e>>)
    /\ pending' = [w \in Windows |-> IF feed[e].type = w THEN e ELSE pending[w]]
    /\ reading' = reading \cup {t}
    /\ UNCHANGED <<selected, loading, tails, activeTail, feed, typeBuf, answered>>

(* eventMsg: shown, with the window it asks for, and the tail read on.     *)
OnTailEvent(t, e) ==
    /\ Taken(<<"event", t, e>>) /\ OfActive(t)
    /\ rawEvents' = Append(rawEvents, <<t, e>>)
    /\ pending' = [w \in Windows |-> IF feed[e].type = w THEN e ELSE pending[w]]
    /\ typeBuf' = IF feed[e].type = "clarify_requested" THEN <<>> ELSE typeBuf
    /\ reading' = reading \cup {t}
    /\ UNCHANGED <<selected, loading, tails, activeTail, feed, answered>>

(* An event of no active subscription is dropped, and its tail not read on.*)
DropTailEvent(t, e) ==
    /\ Taken(<<"event", t, e>>) /\ ~OfActive(t)
    /\ UNCHANGED <<selected, loading, tails, activeTail, reading, feed, rawEvents, pending, typeBuf, answered>>

(* tailEndedMsg, tailErrMsg *)
OnTailOver(t) ==
    /\ Taken(<<"over", t, 0>>)
    /\ activeTail' = IF OfActive(t) THEN 0 ELSE activeTail
    /\ UNCHANGED <<selected, loading, tails, reading, feed, rawEvents, pending, typeBuf, answered>>

(* handleClarifyKey: a letter of an answer, none again, the end.           *)
TypeKey ==
    /\ pending["clarify_requested"] # 0 /\ Len(typeBuf) < 1
    /\ typeBuf' = Append(typeBuf, pending["clarify_requested"])
    /\ UNCHANGED <<selected, loading, tails, activeTail, reading, mail, feed, rawEvents, pending, answered>>

EraseKeys ==
    /\ pending["clarify_requested"] # 0 /\ typeBuf # <<>>
    /\ typeBuf' = <<>>
    /\ UNCHANGED <<selected, loading, tails, activeTail, reading, mail, feed, rawEvents, pending, answered>>

CloseClarify(sends) ==
    LET question == pending["clarify_requested"]
    IN  /\ question # 0
        /\ pending' = [pending EXCEPT !["clarify_requested"] = 0] /\ typeBuf' = <<>>
        /\ answered' = IF sends THEN <<question, typeBuf>> ELSE answered
        /\ UNCHANGED <<selected, loading, tails, activeTail, reading, mail, feed, rawEvents>>

(* A key of the permission window answers, closes it; a question hides it. *)
AnswerAsk ==
    /\ pending["permission_ask"] # 0 /\ pending["clarify_requested"] = 0
    /\ pending' = [pending EXCEPT !["permission_ask"] = 0]
    /\ UNCHANGED <<selected, loading, tails, activeTail, reading, mail, feed, rawEvents, typeBuf, answered>>

(* What a run appends to the stream of its session.                        *)
Feed(session, type) ==
    /\ Len(feed) < MaxFeed
    /\ feed' = Append(feed, [of |-> session, type |-> type])
    /\ UNCHANGED <<selected, loading, tails, activeTail, reading, mail, rawEvents, pending, typeBuf, answered>>

TailsNext ==
    \/ \E session \in Watched :
         \/ OnLoaded(session) \/ Move(session)
         \/ \E type \in Windows \cup {"tool_call"} : Feed(session, type)
    \/ Refresh \/ LoadFails
    \/ \E t \in DOMAIN tails :
         \/ OnTailStarted(t) \/ OnTailOver(t)
         \/ \E yes \in BOOLEAN : OpenTail(t, yes) \/ ReadEvent(t, yes)
         \/ \E e \in DOMAIN feed : OnTailEvent(t, e) \/ DropTailEvent(t, e)
    \/ TypeKey \/ EraseKeys \/ AnswerAsk
    \/ \E sends \in BOOLEAN : CloseClarify(sends)

TailsSpec == TailsInit /\ [][TailsNext]_tailVars

TailsTypeOK ==
    /\ selected \in Watched \cup {NoSession} /\ loading \in BOOLEAN
    /\ tails \in Seq([of : Watched, state : {"opening", "open", "cancelled", "over"}, from : Nat, next : Nat])
    /\ activeTail \in 0..Len(tails) /\ reading \subseteq DOMAIN tails
    /\ pending \in [Windows -> 0..Len(feed)]

-----------------------------------------------------------------------------

Shown(t) == {i \in DOMAIN rawEvents : rawEvents[i][1] = t}
InMail(t) == {e \in DOMAIN feed : <<"event", t, e>> \in mail}

(* The active tail, when its session has no other, is read on, and what it *)
(* has read is in the panes, whole and in order, whatever tails of other   *)
(* sessions start, end or bring events meanwhile (update.go:29-97).        *)
(* An answer was typed for the question it is sent to, also when another   *)
(* question took its place meanwhile (update.go:64-67, 230-258).           *)
ScreenIsTrue ==
    /\ TailsTypeOK
    /\ \A t \in DOMAIN tails :
          t = activeTail /\ (\A u \in DOMAIN tails : tails[u].of = tails[t].of => u = t) =>
            /\ {rawEvents[i][2] : i \in Shown(t)}
                 = {e \in tails[t].from..tails[t].next - 1 : feed[e].of = tails[t].of} \ InMail(t)
            /\ \A i, j \in Shown(t) : i < j => rawEvents[i][2] < rawEvents[j][2]
            /\ t \in reading \/ InMail(t) # {} \/ tails[t].state = "over"
    /\ \A i \in DOMAIN answered[2] : answered[2][i] = answered[1]

(* "reset the chat-tree view when the active session changes so we never   *)
(* render tool calls from a prior session" (model.go:96-97).               *)
OnlyTheSelected == \A i \in DOMAIN rawEvents : feed[rawEvents[i][2]].of = selected

=============================================================================
