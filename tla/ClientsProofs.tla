--------------------------- MODULE ClientsProofs ---------------------------
(***************************************************************************)
(* The safety of the event stream (EventStream), for every set of          *)
(* producers and subscriptions, every channel capacity and every number of *)
(* events; of the permission rules (RuleStore), for every number of        *)
(* writers, stores and rules, with failing calls; and of what is at the    *)
(* ends of streams: gil chat (ReplTurn), the chat window (ChatPump) and    *)
(* the dashboard (TuiTails), for every number of turns, parts and tails;   *)
(* and of the log on the disk (EventLog), for every number of runs,        *)
(* events, failing writes and crashes.                                     *)
(***************************************************************************)
EXTENDS MCClients, SequenceTheorems, FiniteSetTheorems, TLAPS

\* Sending is appending to what a subscription was sent ...
LEMMA SendExtends ==
    ASSUME NEW S, NEW q \in Seq(S), NEW r \in Seq(S), NEW e \in S
    PROVE  q \o Append(r, e) = Append(q \o r, e)
  OBVIOUS

\* ... and receiving leaves it as it was.
LEMMA ReceiveKeeps ==
    ASSUME NEW S, NEW q \in Seq(S), NEW r \in Seq(S), r # <<>>
    PROVE  Append(q, Head(r)) \o Tail(r) = q \o r
<1>1. Len(Append(q, Head(r)) \o Tail(r)) = Len(q \o r)
  OBVIOUS
<1>2. \A i \in 1..Len(q \o r) :
        (Append(q, Head(r)) \o Tail(r))[i] = (q \o r)[i]
  OBVIOUS
<1> QED
  BY <1>1, <1>2

\* The elements of a sequence that grew by one.
LEMMA ElemsAppend ==
    ASSUME NEW S, NEW q \in Seq(S), NEW e \in S
    PROVE  Elems(Append(q, e)) = Elems(q) \cup {e}
  BY DEF Elems

-----------------------------------------------------------------------------
LEMMA TypeInit == Init => TypeOK
<1> SUFFICES ASSUME Init PROVE TypeOK
  OBVIOUS
<1> USE StreamAssumption DEF Init, Events
<1>1. <<>> \in Seq(1..MaxEvents) /\ Len(<<>>) = 0
  OBVIOUS
<1>2. /\ buf \in [Subs -> Seq(1..MaxEvents)]
      /\ got \in [Subs -> Seq(1..MaxEvents)]
      /\ \A s \in Subs : Len(buf[s]) <= Cap
  BY <1>1
<1>3. /\ curID \in 0..MaxEvents
      /\ cur \in [Producers -> 0..MaxEvents]
      /\ since \in [Subs -> 0..MaxEvents]
  OBVIOUS
<1>4. /\ todo \in [Producers -> SUBSET Subs]
      /\ lost \in [Subs -> SUBSET (1..MaxEvents)]
      /\ pre \in [1..MaxEvents -> SUBSET (1..MaxEvents)]
      /\ phase \in [Subs -> {"new", "open", "closing", "closed"}]
      /\ crashed \in BOOLEAN
  OBVIOUS
<1> QED
  BY <1>2, <1>3, <1>4 DEF TypeOK

LEMMA TypeNext == TypeOK /\ FanOutInv /\ [Next]_vars => TypeOK'
<1> SUFFICES ASSUME TypeOK, FanOutInv, [Next]_vars
             PROVE  TypeOK'
  OBVIOUS
<1> USE StreamAssumption DEF TypeOK, Events
<1>1. ASSUME NEW p \in Producers, StartAppend(p)
      PROVE  TypeOK'
  <2>1. curID + 1 \in 1..MaxEvents
    BY <1>1 DEF StartAppend
  <2>2. Registered \subseteq Subs
    BY DEF Registered
  <2>3. 1..curID \ InFlight \subseteq 1..MaxEvents
    OBVIOUS
  <2> QED
    BY <1>1, <2>1, <2>2, <2>3 DEF StartAppend
<1>2. ASSUME NEW p \in Producers, NEW s \in Subs, SendTo(p, s)
      PROVE  TypeOK'
  <2> cur[p] \in 1..MaxEvents
    BY <1>2 DEF SendTo, FanOutInv
  <2>1. CASE phase[s] = "open" /\ Len(buf[s]) < Cap
    <3>1. buf' = [buf EXCEPT ![s] = Append(@, cur[p])]
      BY <1>2, <2>1 DEF SendTo
    <3>2. Append(buf[s], cur[p]) \in Seq(1..MaxEvents)
      OBVIOUS
    <3>3. Len(Append(buf[s], cur[p])) <= Cap
      BY <2>1
    <3>4. \A t \in Subs : buf'[t] \in Seq(1..MaxEvents) /\ Len(buf'[t]) <= Cap
      BY <3>1, <3>2, <3>3
    <3>5. buf' \in [Subs -> Seq(1..MaxEvents)]
      BY <3>1, <3>2
    <3>6. UNCHANGED <<lost, crashed>>
      BY <1>2, <2>1 DEF SendTo
    <3>7. /\ UNCHANGED <<curID, phase, cur, since, got, pre>>
          /\ todo' \in [Producers -> SUBSET Subs]
      BY <1>2 DEF SendTo
    <3> QED
      BY <3>4, <3>5, <3>6, <3>7
  <2>2. CASE phase[s] = "open" /\ Len(buf[s]) = Cap
    <3>1. lost' = [lost EXCEPT ![s] = @ \cup {cur[p]}] /\ UNCHANGED <<buf, crashed>>
      BY <1>2, <2>2 DEF SendTo
    <3>2. lost' \in [Subs -> SUBSET (1..MaxEvents)]
      BY <3>1
    <3>3. /\ UNCHANGED <<curID, phase, cur, since, got, pre>>
          /\ todo' \in [Producers -> SUBSET Subs]
      BY <1>2 DEF SendTo
    <3> QED
      BY <3>1, <3>2, <3>3
  <2>3. CASE phase[s] # "open"
    BY <1>2, <2>3 DEF SendTo
  <2> QED
    BY <1>2, <2>1, <2>2, <2>3 DEF SendTo
<1>3. ASSUME NEW p \in Producers, ReturnFromAppend(p)
      PROVE  TypeOK'
  BY <1>3 DEF ReturnFromAppend
<1>4. ASSUME NEW s \in Subs, Subscribe(s)
      PROVE  TypeOK'
  BY <1>4 DEF Subscribe
<1>5. ASSUME NEW s \in Subs, CloseChannel(s)
      PROVE  TypeOK'
  BY <1>5 DEF CloseChannel
<1>6. ASSUME NEW s \in Subs, RemoveSubscription(s)
      PROVE  TypeOK'
  BY <1>6 DEF RemoveSubscription
<1>7. ASSUME NEW s \in Subs, Receive(s)
      PROVE  TypeOK'
  BY <1>7 DEF Receive
<1>8. CASE UNCHANGED vars
  BY <1>8 DEF vars
<1> QED
  BY <1>1, <1>2, <1>3, <1>4, <1>5, <1>6, <1>7, <1>8 DEF Next


-----------------------------------------------------------------------------
LEMMA FanOutInit == Init => FanOutInv
  BY DEF Init, FanOutInv

LEMMA FanOutNext == TypeOK /\ FanOutInv /\ [Next]_vars => FanOutInv'
<1> SUFFICES ASSUME TypeOK, FanOutInv, [Next]_vars
             PROVE  FanOutInv'
  OBVIOUS
<1> USE StreamAssumption DEF TypeOK, FanOutInv, Events
<1>1. ASSUME NEW p \in Producers, StartAppend(p)
      PROVE  FanOutInv'
  BY <1>1 DEF StartAppend, Registered, InFlight
<1>2. ASSUME NEW p \in Producers, NEW s \in Subs, SendTo(p, s)
      PROVE  FanOutInv'
  <2>1. /\ UNCHANGED <<curID, phase, cur, since, got, pre>>
        /\ todo' = [todo EXCEPT ![p] = @ \ {s}]
        /\ s \in todo[p]
    BY <1>2 DEF SendTo
  <2>2. cur[p] \in 1..curID /\ phase[s] # "new"
    BY <2>1
  <2>3. /\ lost'[s] \subseteq lost[s] \cup {cur[p]}
        /\ \A t \in Subs \ {s} : lost'[t] = lost[t]
    BY <1>2 DEF SendTo
  <2>4. \A t \in Subs \ {s} : buf'[t] = buf[t]
    BY <1>2 DEF SendTo
  <2>5. \A t \in Subs :
          /\ since'[t] <= curID'
          /\ lost'[t] \subseteq 1..curID'
          /\ phase'[t] = "new" => buf'[t] = <<>> /\ got'[t] = <<>> /\ lost'[t] = {}
    BY <2>1, <2>2, <2>3, <2>4
  <2>6. \A q \in Producers : todo'[q] \subseteq todo[q]
    BY <2>1
  <2>7. \A q \in Producers : s \in todo'[q] => cur[q] # cur[p]
    BY <2>1, <2>2
  <2>8. \A q \in Producers : \A t \in todo'[q] : cur'[q] \notin lost'[t]
    BY <2>1, <2>3, <2>6, <2>7
  <2> QED
    BY <2>1, <2>5, <2>6, <2>8
<1>3. ASSUME NEW p \in Producers, ReturnFromAppend(p)
      PROVE  FanOutInv'
  BY <1>3 DEF ReturnFromAppend
<1>4. ASSUME NEW s \in Subs, Subscribe(s)
      PROVE  FanOutInv'
  BY <1>4 DEF Subscribe
<1>5. ASSUME NEW s \in Subs, CloseChannel(s)
      PROVE  FanOutInv'
  BY <1>5 DEF CloseChannel
<1>6. ASSUME NEW s \in Subs, RemoveSubscription(s)
      PROVE  FanOutInv'
  BY <1>6 DEF RemoveSubscription
<1>7. ASSUME NEW s \in Subs, Receive(s)
      PROVE  FanOutInv'
  BY <1>7 DEF Receive
<1>8. CASE UNCHANGED vars
  BY <1>8 DEF vars
<1> QED
  BY <1>1, <1>2, <1>3, <1>4, <1>5, <1>6, <1>7, <1>8 DEF Next

-----------------------------------------------------------------------------
\* A reader that receives moves an event from one half of Sent to the other.
LEMMA ReceiveStep ==
    ASSUME TypeOK, NEW s \in Subs, NEW t \in Subs, Receive(t)
    PROVE  Sent(s)' = Sent(s)
<1> USE DEF TypeOK, Events
<1>1. CASE s # t
  BY <1>1 DEF Receive, Sent
<1>2. CASE s = t
  <2>1. /\ buf[s] \in Seq(1..MaxEvents) /\ buf[s] # <<>>
        /\ got[s] \in Seq(1..MaxEvents)
    BY <1>2 DEF Receive
  <2>2. Append(got[s], Head(buf[s])) \o Tail(buf[s]) = got[s] \o buf[s]
    BY <2>1, ReceiveKeeps
  <2>3. /\ got' = [got EXCEPT ![s] = Append(@, Head(buf[s]))]
        /\ buf' = [buf EXCEPT ![s] = Tail(@)]
    BY <1>2 DEF Receive
  <2> QED
    BY <2>2, <2>3 DEF Sent
<1> QED
  BY <1>1, <1>2

\* A subscription is sent something in a step only if the step is a send to
\* it.
LEMMA SentStep ==
    ASSUME TypeOK, FanOutInv, [Next]_vars, NEW s \in Subs
    PROVE  \/ Sent(s)' = Sent(s)
           \/ \E p \in Producers :
                /\ SendTo(p, s)
                /\ UNCHANGED lost
                /\ Sent(s)' = Append(Sent(s), cur[p])
<1> USE DEF TypeOK, Events
<1>1. ASSUME NEW p \in Producers, NEW t \in Subs, SendTo(p, t), s # t \/ buf' = buf
      PROVE  Sent(s)' = Sent(s)
  BY <1>1 DEF SendTo, Sent
<1>2. ASSUME NEW p \in Producers, SendTo(p, s), buf' # buf
      PROVE  UNCHANGED lost /\ Sent(s)' = Append(Sent(s), cur[p])
  <2>1. cur[p] \in 1..MaxEvents
    BY <1>2 DEF SendTo, FanOutInv
  <2>2. /\ UNCHANGED <<lost, got>>
        /\ buf' = [buf EXCEPT ![s] = Append(@, cur[p])]
    BY <1>2 DEF SendTo
  <2>3. buf[s] \in Seq(1..MaxEvents) /\ got[s] \in Seq(1..MaxEvents)
    OBVIOUS
  <2>4. got[s] \o Append(buf[s], cur[p]) = Append(got[s] \o buf[s], cur[p])
    BY <2>1, <2>3, SendExtends
  <2> QED
    BY <2>2, <2>4 DEF Sent
<1>3. ASSUME NEW t \in Subs, Receive(t)
      PROVE  Sent(s)' = Sent(s)
  BY <1>3, ReceiveStep
<1>4. ASSUME UNCHANGED <<buf, got>>
      PROVE  Sent(s)' = Sent(s)
  BY <1>4 DEF Sent
<1> QED
  BY <1>1, <1>2, <1>3, <1>4
     DEF Next, StartAppend, ReturnFromAppend, Subscribe, CloseChannel,
         RemoveSubscription, vars

LEMMA SentType ==
    ASSUME TypeOK, NEW s \in Subs
    PROVE  Sent(s) \in Seq(Events) /\ SentSet(s) \subseteq Events
<1>1. got[s] \in Seq(Events) /\ buf[s] \in Seq(Events)
  BY DEF TypeOK
<1>2. Sent(s) \in Seq(Events)
  BY <1>1 DEF Sent
<1> QED
  BY <1>2 DEF SentSet, Elems

\* A new event is on its way to the subscriptions registered when it starts.
LEMMA OnTheWayStart ==
    ASSUME TypeOK, FanOutInv, NEW s \in Subs, NEW p \in Producers, StartAppend(p)
    PROVE  OnTheWay(s)' = OnTheWay(s) \cup (IF s \in Registered THEN {curID + 1} ELSE {})
<1> USE DEF TypeOK, FanOutInv, Events
<1>1. /\ todo[p] = {}
      /\ cur' = [cur EXCEPT ![p] = curID + 1]
      /\ todo' = [todo EXCEPT ![p] = Registered]
  BY DEF StartAppend
<1>2. \A q \in Producers : s \in todo'[q] <=> (IF q = p THEN s \in Registered ELSE s \in todo[q])
  BY <1>1
<1>3. \A q \in Producers : cur'[q] = IF q = p THEN curID + 1 ELSE cur[q]
  BY <1>1
<1> QED
  BY <1>1, <1>2, <1>3 DEF OnTheWay

\* A send takes the event it carries off the way to its subscription.
LEMMA OnTheWaySend ==
    ASSUME TypeOK, FanOutInv, NEW s \in Subs, NEW p \in Producers, SendTo(p, s)
    PROVE  cur[p] \in OnTheWay(s) /\ OnTheWay(s)' = OnTheWay(s) \ {cur[p]}
<1> USE DEF TypeOK, FanOutInv, Events
<1>1. s \in todo[p] /\ cur' = cur /\ todo' = [todo EXCEPT ![p] = @ \ {s}]
  BY DEF SendTo
<1>2. \A q \in Producers : s \in todo'[q] <=> (s \in todo[q] /\ q # p)
  BY <1>1
<1>3. \A q \in Producers : s \in todo[q] /\ q # p => cur[q] # cur[p]
  BY <1>1
<1> QED
  BY <1>1, <1>2, <1>3 DEF OnTheWay

\* What of the properties concerns everything but what was sent: a step that
\* sends nothing to s keeps the events on their way to it, unless it starts
\* an Append or drops one.
LEMMA OnTheWayStep ==
    ASSUME TypeOK, FanOutInv, [Next]_vars, NEW s \in Subs
    PROVE  \/ \E p \in Producers :
                /\ StartAppend(p)
                /\ OnTheWay(s)' = OnTheWay(s) \cup (IF s \in Registered THEN {curID + 1} ELSE {})
           \/ \E p \in Producers :
                /\ SendTo(p, s)
                /\ cur[p] \in OnTheWay(s)
                /\ OnTheWay(s)' = OnTheWay(s) \ {cur[p]}
           \/ /\ UNCHANGED <<curID, pre>>
              /\ lost'[s] = lost[s]
              /\ OnTheWay(s)' = OnTheWay(s)
<1> USE DEF TypeOK, FanOutInv, Events
<1>1. ASSUME NEW p \in Producers, StartAppend(p)
      PROVE  OnTheWay(s)' = OnTheWay(s) \cup (IF s \in Registered THEN {curID + 1} ELSE {})
  BY <1>1, OnTheWayStart
<1>2. ASSUME NEW p \in Producers, SendTo(p, s)
      PROVE  cur[p] \in OnTheWay(s) /\ OnTheWay(s)' = OnTheWay(s) \ {cur[p]}
  BY <1>2, OnTheWaySend
<1>3. ASSUME NEW p \in Producers, NEW t \in Subs, t # s, SendTo(p, t)
      PROVE  /\ UNCHANGED <<curID, pre>>
             /\ lost'[s] = lost[s]
             /\ OnTheWay(s)' = OnTheWay(s)
  <2>1. cur' = cur /\ todo' = [todo EXCEPT ![p] = @ \ {t}]
    BY <1>3 DEF SendTo
  <2>2. \A q \in Producers : s \in todo'[q] <=> s \in todo[q]
    BY <1>3, <2>1
  <2> QED
    BY <1>3, <2>1, <2>2 DEF OnTheWay, SendTo
<1>4. ASSUME NEW p \in Producers, ReturnFromAppend(p)
      PROVE  /\ UNCHANGED <<curID, pre>>
             /\ lost'[s] = lost[s]
             /\ OnTheWay(s)' = OnTheWay(s)
  BY <1>4 DEF ReturnFromAppend, OnTheWay
<1>5. ASSUME UNCHANGED <<curID, pre, lost, cur, todo>>
      PROVE  /\ UNCHANGED <<curID, pre>>
             /\ lost'[s] = lost[s]
             /\ OnTheWay(s)' = OnTheWay(s)
  BY <1>5 DEF OnTheWay
<1> QED
  BY <1>1, <1>2, <1>3, <1>4, <1>5
     DEF Next, Subscribe, CloseChannel, RemoveSubscription, Receive, vars

-----------------------------------------------------------------------------
LEMMA DeliveredOnceNext ==
    TypeOK /\ FanOutInv /\ DeliveredOnce /\ [Next]_vars => DeliveredOnce'
<1> SUFFICES ASSUME TypeOK, FanOutInv, DeliveredOnce, [Next]_vars, NEW s \in Subs
             PROVE  /\ \A i, j \in 1..Len(Sent(s)') : i # j => Sent(s)'[i] # Sent(s)'[j]
                    /\ SentSet(s)' \cap (OnTheWay(s)' \cup lost'[s]) = {}
                    /\ \A e \in SentSet(s)' : since'[s] < e /\ e <= curID'
  BY DEF DeliveredOnce, SentSet
<1>1. Sent(s) \in Seq(Events) /\ SentSet(s) \subseteq Events
  BY SentType
<1>2. /\ \A i, j \in 1..Len(Sent(s)) : i # j => Sent(s)[i] # Sent(s)[j]
      /\ SentSet(s) \cap (OnTheWay(s) \cup lost[s]) = {}
      /\ \A e \in SentSet(s) : since[s] < e /\ e <= curID
  BY DEF DeliveredOnce
<1>3. SentSet(s)' = Elems(Sent(s)') /\ SentSet(s) = Elems(Sent(s))
  BY DEF SentSet, Elems
<1>4. CASE Sent(s)' = Sent(s)
  <2>1. SentSet(s)' = SentSet(s)
    BY <1>3, <1>4
  <2>2. curID' \in Nat /\ curID <= curID'
    BY DEF TypeOK, Next, StartAppend, SendTo, ReturnFromAppend, Subscribe,
           CloseChannel, RemoveSubscription, Receive, vars
  <2>3. \A e \in SentSet(s)' : since'[s] < e /\ e <= curID'
    <3>1. CASE since'[s] = since[s]
      BY <1>1, <1>2, <2>1, <2>2, <3>1 DEF TypeOK, Events
    <3>2. CASE since'[s] # since[s]
      <4>1. phase[s] = "new"
        BY <3>2 DEF TypeOK, Next, StartAppend, SendTo, ReturnFromAppend, Subscribe,
           CloseChannel, RemoveSubscription, Receive, vars
      <4>2. Sent(s) = <<>>
        BY <4>1 DEF FanOutInv, Sent
      <4> QED
        BY <4>2, <1>3, <1>4 DEF Elems
    <3> QED
      BY <3>1, <3>2
  <2>4. SentSet(s) \cap (OnTheWay(s)' \cup lost'[s]) = {}
    <3>1. ASSUME NEW p \in Producers, StartAppend(p)
          PROVE  SentSet(s) \cap (OnTheWay(s)' \cup lost'[s]) = {}
      <4>1. OnTheWay(s)' = OnTheWay(s) \cup (IF s \in Registered THEN {curID + 1} ELSE {})
        BY <3>1, OnTheWayStart
      <4>2. /\ lost'[s] = lost[s]
            /\ curID \in Nat
            /\ OnTheWay(s)' \subseteq OnTheWay(s) \cup {curID + 1}
        BY <3>1, <4>1 DEF StartAppend, TypeOK
      <4>3. curID + 1 \notin SentSet(s)
        BY <4>2, <1>1, <1>2 DEF Events
      <4> QED
        BY <4>2, <4>3, <1>2
    <3>2. ASSUME NEW p \in Producers, SendTo(p, s), cur[p] \in OnTheWay(s),
                 OnTheWay(s)' = OnTheWay(s) \ {cur[p]}
          PROVE  SentSet(s) \cap (OnTheWay(s)' \cup lost'[s]) = {}
      <4>1. lost'[s] \subseteq lost[s] \cup {cur[p]}
        BY <3>2 DEF SendTo, TypeOK
      <4> QED
        BY <4>1, <3>2, <1>2
    <3> QED
      BY <3>1, <3>2, <1>2, OnTheWayStep
  <2> QED
    BY <1>2, <1>4, <2>1, <2>3, <2>4
<1>5. ASSUME NEW p \in Producers, SendTo(p, s), UNCHANGED lost,
             Sent(s)' = Append(Sent(s), cur[p])
      PROVE  /\ \A i, j \in 1..Len(Sent(s)') : i # j => Sent(s)'[i] # Sent(s)'[j]
             /\ SentSet(s)' \cap (OnTheWay(s)' \cup lost'[s]) = {}
             /\ \A e \in SentSet(s)' : since'[s] < e /\ e <= curID'
  <2>1. /\ cur[p] \in Events /\ since[s] < cur[p] /\ cur[p] <= curID
        /\ cur[p] \notin lost[s]
        /\ UNCHANGED <<since, curID>>
    BY <1>5 DEF SendTo, TypeOK, FanOutInv, Events
  <2>2. cur[p] \in OnTheWay(s) /\ OnTheWay(s)' = OnTheWay(s) \ {cur[p]}
    BY <1>5, OnTheWaySend
  <2>3. SentSet(s)' = SentSet(s) \cup {cur[p]}
    BY <1>1, <1>3, <1>5, <2>1, ElemsAppend
  <2>4. cur[p] \notin SentSet(s)
    BY <1>2, <2>2
  <2>5. \A i \in 1..Len(Sent(s)) : Sent(s)[i] # cur[p]
    BY <2>4, <1>3 DEF Elems
  <2>6. \A i, j \in 1..Len(Sent(s)') : i # j => Sent(s)'[i] # Sent(s)'[j]
    BY <1>1, <1>2, <1>5, <2>1, <2>5
  <2> QED
    BY <1>2, <1>5, <2>1, <2>2, <2>3, <2>6
<1> QED
  BY <1>4, <1>5, SentStep

LEMMA RealTimeOrderNext ==
    TypeOK /\ FanOutInv /\ DeliveredOnce /\ RealTimeOrder /\ [Next]_vars
        => RealTimeOrder'
<1> SUFFICES ASSUME TypeOK, FanOutInv, DeliveredOnce, RealTimeOrder, [Next]_vars, NEW s \in Subs
             PROVE  \A i, j \in 1..Len(Sent(s)') :
                        i < j => Sent(s)'[j] \notin pre'[Sent(s)'[i]]
  BY DEF RealTimeOrder
<1>1. Sent(s) \in Seq(Events)
  BY SentType
<1>2. \A i, j \in 1..Len(Sent(s)) : i < j => Sent(s)[j] \notin pre[Sent(s)[i]]
  BY DEF RealTimeOrder
<1>3. \A i \in 1..Len(Sent(s)) : Sent(s)[i] \in Events /\ Sent(s)[i] <= curID
  BY <1>1 DEF DeliveredOnce, SentSet, Elems
<1>4. \A e \in Events : e <= curID => pre'[e] = pre[e]
  <2>1. ASSUME NEW p \in Producers, StartAppend(p)
        PROVE  \A e \in Events : e <= curID => pre'[e] = pre[e]
    BY <2>1 DEF StartAppend, TypeOK, Events
  <2>2. (\E p \in Producers : StartAppend(p)) \/ pre' = pre
    BY DEF Next, SendTo, ReturnFromAppend, Subscribe, CloseChannel,
           RemoveSubscription, Receive, vars
  <2> QED
    BY <2>1, <2>2
<1>5. CASE Sent(s)' = Sent(s)
  BY <1>2, <1>3, <1>4, <1>5
<1>6. ASSUME NEW p \in Producers, SendTo(p, s), Sent(s)' = Append(Sent(s), cur[p])
      PROVE  \A i, j \in 1..Len(Sent(s)') :
                 i < j => Sent(s)'[j] \notin pre'[Sent(s)'[i]]
  <2>1. s \in todo[p] /\ pre' = pre
    BY <1>6 DEF SendTo
  <2>2. cur[p] \in Events
    BY <2>1 DEF TypeOK, FanOutInv, Events
  <2>3. \A e \in Events : cur[p] \notin pre[e]
    BY <2>1 DEF FanOutInv
  <2> QED
    BY <1>1, <1>2, <1>3, <1>6, <2>1, <2>2, <2>3
<1> QED
  BY <1>5, <1>6, SentStep

LEMMA NothingLostNext ==
    TypeOK /\ FanOutInv /\ NothingLostSilently /\ [Next]_vars
        => NothingLostSilently'
<1> SUFFICES ASSUME TypeOK, FanOutInv, NothingLostSilently, [Next]_vars, NEW s \in Subs,
                    phase'[s] = "open"
             PROVE  (since'[s] + 1)..curID' = SentSet(s)' \cup OnTheWay(s)' \cup lost'[s]
  BY DEF NothingLostSilently, SentSet
<1>1. Sent(s) \in Seq(Events)
  BY SentType
<1>2. phase[s] = "open" => (since[s] + 1)..curID = SentSet(s) \cup OnTheWay(s) \cup lost[s]
  BY DEF NothingLostSilently
<1>3. SentSet(s)' = Elems(Sent(s)') /\ SentSet(s) = Elems(Sent(s))
  BY DEF SentSet, Elems
<1>4. ASSUME NEW p \in Producers, StartAppend(p)
      PROVE  (since'[s] + 1)..curID' = SentSet(s)' \cup OnTheWay(s)' \cup lost'[s]
  <2>1. UNCHANGED <<phase, buf, since, got, lost>> /\ curID' = curID + 1
    BY <1>4 DEF StartAppend
  <2>2. OnTheWay(s)' = OnTheWay(s) \cup {curID + 1}
    BY <1>4, <2>1, OnTheWayStart DEF Registered
  <2>3. SentSet(s)' = SentSet(s)
    BY <1>3, <2>1 DEF Sent
  <2>4. since[s] \in Nat /\ curID \in Nat /\ since[s] <= curID
    BY DEF TypeOK, FanOutInv
  <2>5. (since[s] + 1)..(curID + 1) = ((since[s] + 1)..curID) \cup {curID + 1}
    BY <2>4
  <2> QED
    BY <1>2, <2>1, <2>2, <2>3, <2>5
<1>5. ASSUME NEW p \in Producers, SendTo(p, s)
      PROVE  (since'[s] + 1)..curID' = SentSet(s)' \cup OnTheWay(s)' \cup lost'[s]
  <2>1. UNCHANGED <<curID, phase, since, got>>
    BY <1>5 DEF SendTo
  <2>2. cur[p] \in OnTheWay(s) /\ OnTheWay(s)' = OnTheWay(s) \ {cur[p]}
    BY <1>5, OnTheWaySend
  <2>3. cur[p] \in Events
    BY <1>5 DEF SendTo, TypeOK, FanOutInv, Events
  <2>4. CASE Len(buf[s]) < Cap
    <3>1. lost' = lost /\ buf' = [buf EXCEPT ![s] = Append(@, cur[p])]
      BY <1>5, <2>1, <2>4 DEF SendTo, TypeOK
    <3>2. Sent(s)' = Append(Sent(s), cur[p])
      BY <2>1, <2>3, <3>1, SendExtends DEF Sent, TypeOK
    <3>3. SentSet(s)' = SentSet(s) \cup {cur[p]}
      BY <1>1, <1>3, <2>3, <3>2, ElemsAppend
    <3> QED
      BY <1>2, <2>1, <2>2, <3>1, <3>3
  <2>5. CASE ~(Len(buf[s]) < Cap)
    <3>1. buf' = buf /\ lost'[s] = lost[s] \cup {cur[p]}
      BY <1>5, <2>1, <2>5 DEF SendTo, TypeOK
    <3>2. SentSet(s)' = SentSet(s)
      BY <1>3, <2>1, <3>1 DEF Sent
    <3> QED
      BY <1>2, <2>1, <2>2, <3>1, <3>2
  <2> QED
    BY <2>4, <2>5
<1>6. ASSUME Subscribe(s)
      PROVE  (since'[s] + 1)..curID' = SentSet(s)' \cup OnTheWay(s)' \cup lost'[s]
  <2>1. since'[s] = curID /\ UNCHANGED <<curID, buf, cur, todo, got, lost>> /\ phase[s] = "new"
    BY <1>6 DEF Subscribe, TypeOK
  <2>2. OnTheWay(s)' = {} /\ lost'[s] = {} /\ Sent(s)' = <<>>
    BY <2>1 DEF FanOutInv, OnTheWay, Sent
  <2>3. SentSet(s)' = {}
    BY <1>3, <2>2 DEF Elems
  <2>4. (curID + 1)..curID = {}
    BY DEF TypeOK
  <2> QED
    BY <2>1, <2>2, <2>3, <2>4
<1>7. ASSUME UNCHANGED <<curID, lost>>, phase'[s] = phase[s], since'[s] = since[s],
             Sent(s)' = Sent(s), OnTheWay(s)' = OnTheWay(s)
      PROVE  (since'[s] + 1)..curID' = SentSet(s)' \cup OnTheWay(s)' \cup lost'[s]
  BY <1>2, <1>3, <1>7
<1>8. ASSUME NEW p \in Producers, NEW t \in Subs, t # s, SendTo(p, t)
      PROVE  (since'[s] + 1)..curID' = SentSet(s)' \cup OnTheWay(s)' \cup lost'[s]
  <2>1. /\ cur' = cur /\ todo' = [todo EXCEPT ![p] = @ \ {t}]
        /\ UNCHANGED <<curID, phase, since, got>>
    BY <1>8 DEF SendTo
  <2>2. \A q \in Producers : s \in todo'[q] <=> s \in todo[q]
    BY <1>8, <2>1 DEF TypeOK
  <2>3. OnTheWay(s)' = OnTheWay(s)
    BY <2>1, <2>2 DEF OnTheWay
  <2>4. buf'[s] = buf[s] /\ lost'[s] = lost[s]
    BY <1>8 DEF SendTo, TypeOK
  <2>5. SentSet(s)' = SentSet(s)
    BY <1>3, <2>1, <2>4 DEF Sent
  <2> QED
    BY <1>2, <2>1, <2>3, <2>4, <2>5
<1>9. ASSUME NEW p \in Producers, ReturnFromAppend(p)
      PROVE  (since'[s] + 1)..curID' = SentSet(s)' \cup OnTheWay(s)' \cup lost'[s]
  <2>1. /\ UNCHANGED <<curID, phase, since, got, buf, todo, lost>>
        /\ todo[p] = {} /\ cur' = [cur EXCEPT ![p] = 0]
    BY <1>9 DEF ReturnFromAppend
  <2>2. OnTheWay(s)' = OnTheWay(s)
    BY <2>1 DEF OnTheWay, TypeOK
  <2> QED
    BY <1>7, <2>1, <2>2 DEF Sent
<1>10. ASSUME NEW t \in Subs, Subscribe(t), t # s
      PROVE  (since'[s] + 1)..curID' = SentSet(s)' \cup OnTheWay(s)' \cup lost'[s]
  BY <1>7, <1>10 DEF Subscribe, Sent, OnTheWay, TypeOK
<1>11. ASSUME NEW t \in Subs, CloseChannel(t) \/ RemoveSubscription(t)
       PROVE  (since'[s] + 1)..curID' = SentSet(s)' \cup OnTheWay(s)' \cup lost'[s]
  <2>1. UNCHANGED <<curID, buf, cur, todo, since, got, lost>>
    BY <1>11 DEF CloseChannel, RemoveSubscription
  <2>2. phase'[s] = phase[s]
    BY <1>11 DEF CloseChannel, RemoveSubscription, TypeOK
  <2>3. Sent(s)' = Sent(s) /\ OnTheWay(s)' = OnTheWay(s)
    BY <2>1 DEF Sent, OnTheWay
  <2> QED
    BY <1>7, <2>1, <2>2, <2>3
<1>12. ASSUME NEW t \in Subs, Receive(t)
       PROVE  (since'[s] + 1)..curID' = SentSet(s)' \cup OnTheWay(s)' \cup lost'[s]
  <2>1. UNCHANGED <<curID, phase, cur, todo, since, lost>>
    BY <1>12 DEF Receive
  <2>2. Sent(s)' = Sent(s)
    BY <1>12, ReceiveStep
  <2> QED
    BY <1>7, <2>1, <2>2 DEF OnTheWay
<1>13. CASE UNCHANGED vars
  BY <1>7, <1>13 DEF vars, Sent, OnTheWay
<1> QED
  BY <1>4, <1>5, <1>6, <1>8, <1>9, <1>10, <1>11, <1>12, <1>13 DEF Next

-----------------------------------------------------------------------------
StreamInv == TypeOK /\ FanOutInv /\ NothingLostSilently /\ DeliveredOnce /\ RealTimeOrder

LEMMA StreamInit == Init => StreamInv
<1> SUFFICES ASSUME Init PROVE StreamInv
  OBVIOUS
<1>1. TypeOK /\ FanOutInv
  BY TypeInit, FanOutInit
<1>2. \A s \in Subs : phase[s] = "new" /\ Sent(s) = <<>>
  BY DEF Init, Sent
<1>3. \A s \in Subs : SentSet(s) = {} /\ Len(Sent(s)) = 0
  BY <1>2 DEF SentSet, Elems
<1>4. NothingLostSilently
  BY <1>2 DEF NothingLostSilently
<1>5. DeliveredOnce
  BY <1>3 DEF DeliveredOnce
<1>6. RealTimeOrder
  BY <1>3 DEF RealTimeOrder
<1> QED
  BY <1>1, <1>4, <1>5, <1>6 DEF StreamInv

LEMMA StreamCorrect == Spec => []StreamInv
<1>1. StreamInv /\ [Next]_vars => StreamInv'
  BY TypeNext, FanOutNext, NothingLostNext, DeliveredOnceNext, RealTimeOrderNext
     DEF StreamInv
<1> QED
  BY <1>1, StreamInit, PTL DEF Spec

\* Every reachable state is well typed; in particular no subscription's
\* channel holds more events than its capacity (Stream.Append's select).
THEOREM TypeCorrect == Spec => []TypeOK
<1>1. StreamInv => TypeOK
  BY DEF StreamInv
<1> QED
  BY <1>1, StreamCorrect, PTL

\* Whatever Append has in flight was copied for subscriptions that exist,
\* under an event number nobody else is sending.
THEOREM FanOutCorrect == Spec => []FanOutInv
<1>1. StreamInv => FanOutInv
  BY DEF StreamInv
<1> QED
  BY <1>1, StreamCorrect, PTL

\* An open subscription accounts for every event appended since it was made,
\* whatever subscriptions come and go during a fan-out (Stream.Append copies
\* the list of subscribers under the mutex).
THEOREM NothingIsLostSilently == Spec => []NothingLostSilently
<1>1. StreamInv => NothingLostSilently
  BY DEF StreamInv
<1> QED
  BY <1>1, StreamCorrect, PTL

\* No subscription gets an event twice, or one that was counted as dropped.
THEOREM EachIsDeliveredOnce == Spec => []DeliveredOnce
<1>1. StreamInv => DeliveredOnce
  BY DEF StreamInv
<1> QED
  BY <1>1, StreamCorrect, PTL

\* Events whose Append calls did not overlap arrive in the order of the calls.
THEOREM ArrivesInRealTimeOrder == Spec => []RealTimeOrder
<1>1. StreamInv => RealTimeOrder
  BY DEF StreamInv
<1> QED
  BY <1>1, StreamCorrect, PTL

-----------------------------------------------------------------------------

\* While no two stores were at work at a time: one call is in its section,
\* what it has read is the file, and its write is what it is to return.
ReadIsTheFile ==
    ~crossed =>
        /\ \A v, w \in Writers : Inside(v) /\ Inside(w) => v = w
        /\ \A w \in Writers : job[w].step = "read" => job[w].seen = onDisk
        /\ \A w \in Writers : job[w].step = "done" => onDisk = With(job[w], told)
        /\ (\A w \in Writers : job[w].step # "done") => onDisk = told

RulesInv == RulesTypeOK /\ ReadIsTheFile

LEMMA RulesInitially == RulesInit => RulesInv
<1> SUFFICES ASSUME RulesInit PROVE RulesInv
  OBVIOUS
<1>1. (CHOOSE r \in Rules : TRUE) \in Rules
  BY RulesAssumption
<1> QED
  BY <1>1 DEF RulesInit, RulesInv, RulesTypeOK, ReadIsTheFile, Jobs, Inside

LEMMA CallOrReadKeeps ==
    ASSUME RulesInv, NEW w \in Writers, NEW adds \in BOOLEAN, NEW rule \in Rules, NEW fails \in BOOLEAN,
           CallStore(w, adds, rule) \/ ReadRules(w, fails)
    PROVE  RulesInv'
<1> USE RulesAssumption DEF RulesInv, RulesTypeOK, Jobs
<1>1. CASE CallStore(w, adds, rule)
  <2>1. RulesTypeOK'
    BY <1>1 DEF CallStore
  <2>2. \A v \in Writers : (Inside(v) <=> Inside(v)') /\ (Inside(v) => job'[v] = job[v])
    BY <1>1 DEF CallStore, Inside
  <2>3. ReadIsTheFile'
    BY <1>1, <2>2 DEF CallStore, ReadIsTheFile, Inside, With
  <2> QED
    BY <2>1, <2>3
<1>2. CASE ReadRules(w, fails)
  <2>1. RulesTypeOK'
    <3>1. PICK j : job' = [job EXCEPT ![w] = j] /\ j = [job[w] EXCEPT !.step = IF fails THEN "failed" ELSE "read", !.seen = onDisk]
      BY <1>2 DEF ReadRules
    <3>2. job[w] \in Jobs
      OBVIOUS
    <3>3. j \in Jobs
      BY <3>1, <3>2
    <3> QED
      BY <1>2, <3>1, <3>3 DEF ReadRules
  <2>2. /\ job'[w].step \in {"failed", "read"} /\ job'[w].seen = onDisk
        /\ \A v \in Writers \ {w} : job'[v] = job[v]
    BY <1>2 DEF ReadRules
  <2>3. ~crossed' => ~crossed /\ \A v \in Writers : ~Inside(v)
    BY <1>2 DEF ReadRules
  <2>4. ReadIsTheFile'
    BY <1>2, <2>2, <2>3 DEF ReadRules, ReadIsTheFile, Inside, With
  <2> QED
    BY <2>1, <2>4
<1> QED
  BY <1>1, <1>2

LEMMA WriteKeeps == ASSUME RulesInv, NEW w \in Writers, NEW fails \in BOOLEAN, WriteRules(w, fails) PROVE RulesInv'
<1> USE DEF RulesInv, RulesTypeOK, Jobs
<1>1. With(job[w], job[w].seen) \subseteq Rules
  BY DEF With
<1>2. RulesTypeOK'
  BY <1>1 DEF WriteRules
<1>3. /\ job[w].step = "read" /\ job'[w] = [job[w] EXCEPT !.step = IF fails THEN "failed" ELSE "done"]
      /\ \A v \in Writers \ {w} : job'[v] = job[v]
      /\ crossed' = crossed /\ told' = told
      /\ onDisk' = IF fails THEN onDisk ELSE IF With(job[w], job[w].seen) = job[w].seen THEN onDisk
                   ELSE With(job[w], job[w].seen)
  BY DEF WriteRules
<1>4. ASSUME ~crossed PROVE job[w].seen = onDisk /\ onDisk = told /\ \A v \in Writers \ {w} : ~Inside(v)
  BY <1>3, <1>4 DEF ReadIsTheFile, Inside
<1>5. /\ job'[w].step = IF fails THEN "failed" ELSE "done"
      /\ With(job'[w], told) = With(job[w], told)
  BY <1>3 DEF With
<1>6. ASSUME ~crossed PROVE onDisk' = IF fails THEN told ELSE With(job[w], told)
  BY <1>3, <1>4, <1>6
<1>7. ASSUME ~crossed PROVE \A v \in Writers \ {w} : ~Inside(v)'
  BY <1>3, <1>4, <1>7 DEF Inside
<1>8. ReadIsTheFile'
  <2> SUFFICES ASSUME ~crossed PROVE ReadIsTheFile'
    BY <1>3 DEF ReadIsTheFile
  <2>1. \A v \in Writers : job'[v].step \in {"read", "done", "failed"} => v = w
    BY <1>7 DEF Inside
  <2>2. told' = told /\ With(job'[w], told') = With(job[w], told)
    BY <1>3, <1>5
  <2>3. CASE fails
    BY <1>5, <1>6, <2>1, <2>2, <2>3 DEF ReadIsTheFile, Inside
  <2>4. CASE ~fails
    BY <1>5, <1>6, <2>1, <2>2, <2>4 DEF ReadIsTheFile, Inside
  <2> QED
    BY <2>3, <2>4
<1> QED
  BY <1>2, <1>8

LEMMA LeaveKeeps == ASSUME RulesInv, NEW w \in Writers, LeaveStore(w) PROVE RulesInv'
<1> USE DEF RulesInv, RulesTypeOK, Jobs
<1>1. With(job[w], told) \subseteq Rules
  BY DEF With
<1>2. RulesTypeOK'
  BY <1>1 DEF LeaveStore
<1>3. /\ job[w].step \in {"done", "failed"} /\ job'[w].step = "idle"
      /\ \A v \in Writers \ {w} : job'[v] = job[v]
      /\ crossed' = crossed /\ onDisk' = onDisk
      /\ told' = IF job[w].step = "done" THEN With(job[w], told) ELSE told
  BY DEF LeaveStore
<1>4. ASSUME ~crossed PROVE \A v \in Writers \ {w} : ~Inside(v)
  BY <1>3, <1>4 DEF ReadIsTheFile, Inside
<1>5. ReadIsTheFile'
  BY <1>3, <1>4 DEF ReadIsTheFile, Inside
<1> QED
  BY <1>2, <1>5

LEMMA RulesKeep == RulesInv /\ [RulesNext]_ruleVars => RulesInv'
<1> SUFFICES ASSUME RulesInv, [RulesNext]_ruleVars PROVE RulesInv'
  OBVIOUS
<1>1. CASE RulesNext
  BY <1>1, CallOrReadKeeps, WriteKeeps, LeaveKeeps, RulesAssumption DEF RulesNext, RulesStep
<1>2. CASE UNCHANGED ruleVars
  BY <1>2 DEF ruleVars, RulesInv, RulesTypeOK, ReadIsTheFile, Inside, With
<1> QED
  BY <1>1, <1>2

\* The file is a set of rules, and so is what every call has read of it
\* (store.go:243-265).
THEOREM RulesTypeCorrect == RulesSpec => []RulesTypeOK
<1>1. RulesInv => RulesTypeOK
  BY DEF RulesInv
<1> QED
  BY <1>1, RulesInitially, RulesKeep, PTL DEF RulesSpec

\* For every number of writers and stores: as long as no two stores are at
\* work at a time, no rule is lost and none comes back, whichever calls fail
\* (store.go:133-222).
THEOREM RulesAreKept == RulesSpec => []RulesStay
<1>1. RulesInv => RulesStay
  BY DEF RulesInv, ReadIsTheFile, RulesStay
<1> QED
  BY <1>1, RulesInitially, RulesKeep, PTL DEF RulesSpec

-----------------------------------------------------------------------------

Upto(n) == [i \in 1..n |-> i]

ReplTypes ==
    /\ repl \in {"drain", "read", "pull", "over"}
    /\ replStream \in {"none", "open", "ended", "failed"}
    /\ chunkDone \in BOOLEAN /\ streamErr \in BOOLEAN /\ activeSess \in BOOLEAN
    /\ lineNo \in 0..MaxLines
    /\ chunkCh \in Seq(Nat) /\ Len(chunkCh) <= ReplRoom
    /\ eventCh \in Seq(Nat) /\ Len(eventCh) <= ReplRoom
    /\ inHand = HandEmpty \/ inHand \in {"text", "note"} \X Nat
    /\ screen \in [text : Seq(Nat), notes : Seq(Nat), error : {"none", "send failed", "stream error", "empty stream"}]
    /\ received \in [text : Nat, others : Nat, notes : Nat]

\* Text and notes are on their way once and in order.
NoneIsLost ==
    /\ screen.text \o chunkCh \o Handed("text") = Upto(received.text)
    /\ screen.notes \o eventCh \o Handed("note") = Upto(received.notes)

\* Where a turn is, in the loop and in the drainer.
TurnStands ==
    /\ inHand # HandEmpty => replStream = "open"
    /\ replStream = "open" => repl = "pull"
    /\ repl = "pull" => replStream # "none" /\ (chunkDone <=> replStream # "open")
    /\ streamErr <=> repl = "pull" /\ replStream = "failed"
    /\ repl # "pull" => chunkCh = <<>>
    /\ repl # "pull" /\ lineNo > 0 =>
         /\ replStream = "failed" <=> screen.error = "stream error"
         /\ screen.text = <<>> => screen.error # "none"

ReplInv == ReplTypes /\ NoneIsLost /\ TurnStands

LEMMA UptoIsSeq == ASSUME NEW n \in Nat PROVE Upto(n) \in Seq(Nat) /\ Len(Upto(n)) = n
<1>1. Upto(n) \in Seq(Nat)
  BY DEF Upto
<1> QED
  BY <1>1 DEF Upto

LEMMA UptoGrows == ASSUME NEW n \in Nat PROVE Upto(n + 1) = Append(Upto(n), n + 1)
<1>1. Upto(n) \in Seq(Nat) /\ Len(Upto(n)) = n /\ Upto(n + 1) \in Seq(Nat) /\ Len(Upto(n + 1)) = n + 1
  BY UptoIsSeq
<1>2. \A i \in 1..n + 1 : Upto(n + 1)[i] = Append(Upto(n), n + 1)[i]
  <2> SUFFICES ASSUME NEW i \in 1..n + 1 PROVE Upto(n + 1)[i] = Append(Upto(n), n + 1)[i]
    OBVIOUS
  <2>1. Upto(n + 1)[i] = i /\ (i <= n => Upto(n)[i] = i)
    BY DEF Upto
  <2> QED
    BY <1>1, <2>1
<1>3. Append(Upto(n), n + 1) \in Seq(Nat) /\ Len(Append(Upto(n), n + 1)) = n + 1
  BY <1>1
<1> QED
  BY <1>1, <1>2, <1>3, SeqEqual

LEMMA EmptyIsLast == ASSUME NEW a \in Seq(Nat) PROVE a \o <<>> = a
  OBVIOUS

LEMMA PassesOn ==
    ASSUME NEW a \in Seq(Nat), NEW b \in Seq(Nat), NEW x \in Nat
    PROVE  (a \o b) \o <<x>> = Append(a \o b, x) /\ (a \o Append(b, x)) \o <<>> = (a \o b) \o <<x>>
<1>1. a \o b \in Seq(Nat) /\ Append(b, x) \in Seq(Nat)
  OBVIOUS
<1>2. (a \o b) \o <<x>> = Append(a \o b, x)
  BY <1>1
<1>3. a \o Append(b, x) = Append(a \o b, x)
  BY SendExtends
<1>4. Append(a \o b, x) \in Seq(Nat)
  BY <1>1
<1>5. Append(a \o b, x) \o <<>> = Append(a \o b, x)
  BY <1>4, EmptyIsLast
<1> QED
  BY <1>2, <1>3, <1>5, Zenon

LEMMA EmptyFits == <<>> \in Seq(Nat) /\ Len(<<>>) <= ReplRoom
BY ReplAssumption

LEMMA AQueue ==
    ASSUME NEW q \in Seq(Nat), q # <<>>
    PROVE  Head(q) \in Nat /\ Tail(q) \in Seq(Nat) /\ Len(Tail(q)) = Len(q) - 1 /\ Len(q) \in Nat
  OBVIOUS

LEMMA AScreen ==
    ASSUME ReplTypes
    PROVE  /\ screen.text \in Seq(Nat) /\ screen.notes \in Seq(Nat)
           /\ screen.error \in {"none", "send failed", "stream error", "empty stream"}
           /\ screen = [text |-> screen.text, notes |-> screen.notes, error |-> screen.error]
           /\ received.text \in Nat /\ received.others \in Nat /\ received.notes \in Nat
           /\ received = [text |-> received.text, others |-> received.others, notes |-> received.notes]
BY DEF ReplTypes

LEMMA AHand ==
    ASSUME ReplTypes, inHand # HandEmpty
    PROVE  /\ inHand[1] \in {"text", "note"} /\ inHand[2] \in Nat
           /\ inHand[1] = "text" => Handed("text") = <<inHand[2]>> /\ Handed("note") = <<>>
           /\ inHand[1] = "note" => Handed("note") = <<inHand[2]>> /\ Handed("text") = <<>>
BY DEF ReplTypes, Handed

LEMMA ReplInitially == ReplInit => ReplInv
<1> SUFFICES ASSUME ReplInit PROVE ReplInv
  OBVIOUS
<1> USE ReplAssumption DEF ReplInit
<1>1. ReplTypes
  <2>1. screen \in [text : Seq(Nat), notes : Seq(Nat), error : {"none", "send failed", "stream error", "empty stream"}]
    OBVIOUS
  <2>2. chunkCh \in Seq(Nat) /\ Len(chunkCh) <= ReplRoom /\ eventCh \in Seq(Nat) /\ Len(eventCh) <= ReplRoom
    BY EmptyFits
  <2>3. lineNo \in 0..MaxLines /\ received \in [text : Nat, others : Nat, notes : Nat]
    OBVIOUS
  <2> QED
    BY <2>1, <2>2, <2>3 DEF ReplTypes
<1>2. NoneIsLost
  <2>1. Upto(0) = <<>> /\ Handed("text") = <<>> /\ Handed("note") = <<>>
    BY UptoIsSeq DEF Handed, Upto
  <2> QED
    BY <2>1 DEF NoneIsLost
<1>3. TurnStands
  BY DEF TurnStands
<1> QED
  BY <1>1, <1>2, <1>3 DEF ReplInv

\* Between two turns the loop shows notes and reads a line.
LEMMA BetweenTurns ==
    ASSUME ReplInv, ShowNote \/ Cue \/ \E leaves \in BOOLEAN : ReadNothing(leaves)
    PROVE  ReplInv'
<1> USE DEF ReplInv
<1>1. ASSUME ShowNote PROVE ReplInv'
  <2>1. eventCh' = Tail(eventCh) /\ eventCh # <<>> /\ repl = "drain"
        /\ screen' = [screen EXCEPT !.notes = Append(@, Head(eventCh))]
        /\ UNCHANGED <<repl, chunkCh, chunkDone, streamErr, inHand, replStream, activeSess, lineNo, received>>
    BY <1>1 DEF ShowNote
  <2>2. eventCh \in Seq(Nat) /\ screen.notes \in Seq(Nat) /\ screen.text \in Seq(Nat) /\ Len(eventCh) <= ReplRoom
        /\ screen.error \in {"none", "send failed", "stream error", "empty stream"}
    BY DEF ReplTypes
  <2>3. screen' = [text |-> screen.text, notes |-> Append(screen.notes, Head(eventCh)), error |-> screen.error]
    BY <2>1, AScreen
  <2>4. eventCh' \in Seq(Nat) /\ Len(eventCh') <= ReplRoom /\ Append(screen.notes, Head(eventCh)) \in Seq(Nat)
    <3>1. Head(eventCh) \in Nat /\ Tail(eventCh) \in Seq(Nat) /\ Len(Tail(eventCh)) = Len(eventCh) - 1
          /\ Len(eventCh) \in Nat
      BY <2>1, <2>2, AQueue
    <3>2. PICK h \in Nat : h = Head(eventCh)
      BY <3>1
    <3>3. PICK n \in Seq(Nat) : n = screen.notes
      BY <2>2
    <3>4. Append(n, h) \in Seq(Nat)
      OBVIOUS
    <3>5. Len(Tail(eventCh)) <= ReplRoom
      <4>1. PICK k \in Nat : k = Len(eventCh)
        BY <3>1
      <4>2. k <= ReplRoom /\ ReplRoom \in Nat
        BY <2>2, <4>1, ReplAssumption
      <4>3. k - 1 <= ReplRoom
        BY <4>2
      <4> QED
        BY <3>1, <4>1, <4>3
    <3> QED
      BY <2>1, <3>1, <3>2, <3>3, <3>4, <3>5
  <2>5. ReplTypes'
    BY <2>1, <2>2, <2>3, <2>4 DEF ReplTypes
  <2>6. screen'.notes \o eventCh' = screen.notes \o eventCh
    <3>1. Append(screen.notes, Head(eventCh)) \o Tail(eventCh) = screen.notes \o eventCh
      BY <2>1, <2>2, ReceiveKeeps
    <3> QED
      BY <2>1, <2>3, <3>1
  <2>7. NoneIsLost'
    BY <2>1, <2>3, <2>6 DEF NoneIsLost, Handed
  <2> QED
    BY <2>1, <2>3, <2>5, <2>7 DEF TurnStands
<1>2. ASSUME Cue \/ \E leaves \in BOOLEAN : ReadNothing(leaves) PROVE ReplInv'
  <2>1. repl' \in {"drain", "read", "over"} /\ repl # "pull"
        /\ UNCHANGED <<chunkCh, eventCh, chunkDone, streamErr, inHand, replStream, activeSess, lineNo, received, screen>>
    BY <1>2 DEF Cue, ReadNothing
  <2> QED
    BY <2>1 DEF ReplTypes, NoneIsLost, Handed, TurnStands
<1> QED
  BY <1>1, <1>2

LEMMA SendPromptKeeps == ASSUME ReplInv, NEW refused \in BOOLEAN, SendPrompt(refused) PROVE ReplInv'
<1> USE DEF ReplInv
<1>1. repl = "read" /\ lineNo < MaxLines /\ lineNo' = lineNo + 1 /\ chunkCh' = <<>> /\ chunkDone' = FALSE
      /\ received' = [received EXCEPT !.text = 0, !.others = 0]
      /\ screen' = [screen EXCEPT !.text = <<>>, !.error = IF refused THEN "send failed" ELSE "none"]
      /\ replStream' = (IF refused THEN "none" ELSE "open") /\ repl' = (IF refused THEN "drain" ELSE "pull")
      /\ UNCHANGED <<eventCh, streamErr, inHand, activeSess>>
  BY DEF SendPrompt
<1>2. received' = [text |-> 0, others |-> 0, notes |-> received.notes] /\ received.notes \in Nat
  BY <1>1, AScreen
<1>3. screen'.text = <<>> /\ screen'.notes = screen.notes
      /\ screen'.error = (IF refused THEN "send failed" ELSE "none")
      /\ screen' = [text |-> <<>>, notes |-> screen.notes, error |-> IF refused THEN "send failed" ELSE "none"]
  BY <1>1, AScreen
<1>4. inHand = HandEmpty /\ streamErr = FALSE
  BY <1>1 DEF TurnStands, ReplTypes
<1>5. ReplTypes'
  <2>1. received' \in [text : Nat, others : Nat, notes : Nat]
    BY <1>2
  <2>2. screen' \in [text : Seq(Nat), notes : Seq(Nat), error : {"none", "send failed", "stream error", "empty stream"}]
    <3>1. PICK e \in {"send failed", "none"} : screen' = [text |-> <<>>, notes |-> screen.notes, error |-> e]
      BY <1>3
    <3> QED
      BY <3>1, AScreen, EmptyFits
  <2>3. lineNo' \in 0..MaxLines /\ chunkCh' \in Seq(Nat) /\ Len(chunkCh') <= ReplRoom
    <3>1. lineNo' \in 0..MaxLines
      <4>1. lineNo \in 0..MaxLines /\ lineNo < MaxLines
        BY <1>1 DEF ReplTypes
      <4>2. MaxLines \in Nat
        BY ReplAssumption
      <4>3. lineNo + 1 \in 0..MaxLines
        BY <4>1, <4>2
      <4> QED
        BY <1>1, <4>3
    <3> QED
      BY <1>1, <3>1, EmptyFits
  <2> QED
    BY <1>1, <2>1, <2>2, <2>3 DEF ReplTypes
<1>6. NoneIsLost'
  <2>1. Upto(0) = <<>> /\ <<>> \o <<>> \o <<>> = <<>>
    BY UptoIsSeq DEF Upto
  <2> QED
    BY <1>1, <1>2, <1>3, <1>4, <2>1 DEF NoneIsLost, Handed
<1>7. TurnStands'
  BY <1>1, <1>3, <1>4 DEF TurnStands
<1> QED
  BY <1>5, <1>6, <1>7

LEMMA RecvKeeps == ASSUME ReplInv, RecvText \/ RecvOther PROVE ReplInv'
<1> USE DEF ReplInv
<1>1. screen.text \in Seq(Nat) /\ screen.notes \in Seq(Nat) /\ chunkCh \in Seq(Nat) /\ eventCh \in Seq(Nat)
      /\ received.text \in Nat /\ received.notes \in Nat /\ received.others \in Nat
  BY DEF ReplTypes
<1>2. inHand = HandEmpty /\ replStream = "open" /\ Handed("text") = <<>> /\ Handed("note") = <<>>
  BY DEF RecvText, RecvOther, Arrives, Handed
<1>3. screen.text \o chunkCh = Upto(received.text) /\ screen.notes \o eventCh = Upto(received.notes)
  <2>1. screen.text \o chunkCh \in Seq(Nat) /\ screen.notes \o eventCh \in Seq(Nat)
    BY <1>1
  <2> QED
    BY <1>2, <2>1, EmptyIsLast DEF NoneIsLost
<1>4. UNCHANGED <<repl, chunkCh, eventCh, chunkDone, streamErr, replStream, lineNo, screen>> /\ activeSess' \in BOOLEAN
  BY DEF RecvText, RecvOther, ReplTypes
<1>5. ASSUME RecvText PROVE ReplInv'
  <2>1. received' = [received EXCEPT !.text = @ + 1] /\ inHand' = <<"text", received.text + 1>>
    BY <1>5 DEF RecvText
  <2>2. received'.text = received.text + 1 /\ received'.notes = received.notes
        /\ received' \in [text : Nat, others : Nat, notes : Nat]
    <3>1. received' = [text |-> received.text + 1, others |-> received.others, notes |-> received.notes]
      BY <2>1, AScreen
    <3> QED
      BY <1>1, <3>1
  <2>3. ReplTypes'
    BY <1>1, <1>4, <2>1, <2>2 DEF ReplTypes, HandEmpty
  <2>4. Handed("text")' = <<received.text + 1>> /\ Handed("note")' = <<>>
    BY <2>1 DEF Handed, HandEmpty
  <2>5. (screen.text \o chunkCh) \o <<received.text + 1>> = Upto(received.text + 1)
    <3>1. PICK n \in Nat : n = received.text
      BY <1>1
    <3>2. (screen.text \o chunkCh) \o <<n + 1>> = Append(screen.text \o chunkCh, n + 1)
      BY <1>1, PassesOn
    <3> QED
      BY <1>3, <3>1, <3>2, UptoGrows
  <2>6. NoneIsLost'
    BY <1>2, <1>4, <2>2, <2>4, <2>5 DEF NoneIsLost
  <2> QED
    BY <1>2, <1>4, <2>3, <2>6 DEF TurnStands
<1>6. ASSUME RecvOther PROVE ReplInv'
  <2>1. received' = [received EXCEPT !.others = @ + 1, !.notes = @ + 1] /\ inHand' = <<"note", received.notes + 1>>
    BY <1>6 DEF RecvOther
  <2>2. received'.text = received.text /\ received'.notes = received.notes + 1
        /\ received' \in [text : Nat, others : Nat, notes : Nat]
    <3>1. received' = [text |-> received.text, others |-> received.others + 1, notes |-> received.notes + 1]
      BY <2>1, AScreen
    <3> QED
      BY <1>1, <3>1
  <2>3. ReplTypes'
    BY <1>1, <1>4, <2>1, <2>2 DEF ReplTypes, HandEmpty
  <2>4. Handed("note")' = <<received.notes + 1>> /\ Handed("text")' = <<>>
    BY <2>1 DEF Handed, HandEmpty
  <2>5. (screen.notes \o eventCh) \o <<received.notes + 1>> = Upto(received.notes + 1)
    <3>1. PICK n \in Nat : n = received.notes
      BY <1>1
    <3>2. (screen.notes \o eventCh) \o <<n + 1>> = Append(screen.notes \o eventCh, n + 1)
      BY <1>1, PassesOn
    <3> QED
      BY <1>3, <3>1, <3>2, UptoGrows
  <2>6. NoneIsLost'
    BY <1>2, <1>4, <2>2, <2>4, <2>5 DEF NoneIsLost
  <2> QED
    BY <1>2, <1>4, <2>3, <2>6 DEF TurnStands
<1> QED
  BY <1>5, <1>6

LEMMA PassKeeps == ASSUME ReplInv, PassText \/ PassNote PROVE ReplInv'
<1> USE DEF ReplInv
<1>1. screen.text \in Seq(Nat) /\ screen.notes \in Seq(Nat) /\ chunkCh \in Seq(Nat) /\ eventCh \in Seq(Nat)
  BY DEF ReplTypes
<1>2. inHand # HandEmpty /\ inHand' = HandEmpty /\ Handed("text")' = <<>> /\ Handed("note")' = <<>>
      /\ UNCHANGED <<repl, chunkDone, streamErr, replStream, activeSess, lineNo, received, screen>>
  BY DEF PassText, PassNote, Handed
<1>3. ASSUME PassText PROVE ReplInv'
  <2>1. chunkCh' = Append(chunkCh, inHand[2]) /\ eventCh' = eventCh /\ Len(chunkCh) < ReplRoom /\ inHand[1] = "text"
    BY <1>3 DEF PassText
  <2>2. inHand[2] \in Nat /\ Handed("text") = <<inHand[2]>> /\ Handed("note") = <<>>
    BY <1>2, <2>1, AHand
  <2>3. chunkCh' \in Seq(Nat) /\ Len(chunkCh') <= ReplRoom
    BY <1>1, <2>1, <2>2, ReplAssumption
  <2>4. NoneIsLost'
    <3>1. (screen.text \o Append(chunkCh, inHand[2])) \o <<>> = (screen.text \o chunkCh) \o <<inHand[2]>>
      BY <1>1, <2>2, PassesOn
    <3> QED
      BY <1>2, <2>1, <2>2, <3>1 DEF NoneIsLost
  <2> QED
    BY <1>2, <2>1, <2>3, <2>4 DEF ReplTypes, TurnStands
<1>4. ASSUME PassNote PROVE ReplInv'
  <2>1. eventCh' = Append(eventCh, inHand[2]) /\ chunkCh' = chunkCh /\ Len(eventCh) < ReplRoom /\ inHand[1] = "note"
    BY <1>4 DEF PassNote
  <2>2. inHand[2] \in Nat /\ Handed("note") = <<inHand[2]>> /\ Handed("text") = <<>>
    BY <1>2, <2>1, AHand
  <2>3. eventCh' \in Seq(Nat) /\ Len(eventCh') <= ReplRoom
    BY <1>1, <2>1, <2>2, ReplAssumption
  <2>4. NoneIsLost'
    <3>1. (screen.notes \o Append(eventCh, inHand[2])) \o <<>> = (screen.notes \o eventCh) \o <<inHand[2]>>
      BY <1>1, <2>2, PassesOn
    <3> QED
      BY <1>2, <2>1, <2>2, <3>1 DEF NoneIsLost
  <2> QED
    BY <1>2, <2>1, <2>3, <2>4 DEF ReplTypes, TurnStands
<1> QED
  BY <1>3, <1>4

LEMMA EndStreamKeeps == ASSUME ReplInv, \E fails \in BOOLEAN : EndStream(fails) PROVE ReplInv'
<1> USE DEF ReplInv
<1>1. PICK fails \in BOOLEAN : EndStream(fails)
  OBVIOUS
<1>2. replStream = "open" /\ inHand = HandEmpty /\ chunkDone' = TRUE /\ streamErr' = (fails \/ streamErr)
      /\ replStream' = (IF fails THEN "failed" ELSE "ended")
      /\ UNCHANGED <<repl, chunkCh, eventCh, inHand, activeSess, lineNo, received, screen>>
  BY <1>1 DEF EndStream
<1>3. streamErr = FALSE /\ repl = "pull"
  BY <1>2 DEF TurnStands, ReplTypes
<1>4. ReplTypes' /\ NoneIsLost'
  BY <1>2 DEF ReplTypes, NoneIsLost, Handed
<1>5. TurnStands'
  BY <1>2, <1>3 DEF TurnStands
<1> QED
  BY <1>4, <1>5

\* The loop shows what came, and tells what became of the turn at its end.
LEMMA PullKeeps == ASSUME ReplInv, ShowChunk \/ EndTurn PROVE ReplInv'
<1> USE DEF ReplInv
<1>1. screen.text \in Seq(Nat) /\ screen.notes \in Seq(Nat) /\ chunkCh \in Seq(Nat) /\ Len(chunkCh) <= ReplRoom
  BY DEF ReplTypes
<1>2. ASSUME ShowChunk PROVE ReplInv'
  <2>1. chunkCh' = Tail(chunkCh) /\ chunkCh # <<>> /\ repl = "pull"
        /\ screen' = [screen EXCEPT !.text = Append(@, Head(chunkCh))]
        /\ UNCHANGED <<repl, eventCh, chunkDone, streamErr, inHand, replStream, activeSess, lineNo, received>>
    BY <1>2 DEF ShowChunk
  <2>2. Head(chunkCh) \in Nat /\ Tail(chunkCh) \in Seq(Nat) /\ Len(Tail(chunkCh)) = Len(chunkCh) - 1 /\ Len(chunkCh) \in Nat
    BY <1>1, <2>1, AQueue
  <2>3. screen' = [text |-> Append(screen.text, Head(chunkCh)), notes |-> screen.notes, error |-> screen.error]
    BY <2>1, AScreen
  <2>4. Append(screen.text, Head(chunkCh)) \in Seq(Nat) /\ Len(chunkCh') <= ReplRoom
    BY <1>1, <2>1, <2>2, ReplAssumption
  <2>5. ReplTypes'
    BY <2>1, <2>2, <2>3, <2>4 DEF ReplTypes
  <2>6. Append(screen.text, Head(chunkCh)) \o Tail(chunkCh) = screen.text \o chunkCh
    BY <1>1, <2>1, ReceiveKeeps
  <2>7. NoneIsLost'
    BY <2>1, <2>3, <2>6 DEF NoneIsLost, Handed
  <2> QED
    BY <2>1, <2>5, <2>7 DEF TurnStands
<1>3. ASSUME EndTurn PROVE ReplInv'
  <2>1. repl = "pull" /\ chunkDone /\ chunkCh = <<>> /\ repl' = "drain" /\ streamErr' = FALSE
        /\ UNCHANGED <<chunkCh, eventCh, chunkDone, inHand, replStream, activeSess, lineNo, received>>
    BY <1>3 DEF EndTurn
  <2>2. PICK e : e = IF streamErr THEN "stream error" ELSE IF screen.text = <<>> THEN "empty stream" ELSE "none"
    OBVIOUS
  <2>3. screen' = [text |-> screen.text, notes |-> screen.notes, error |-> e]
    <3>1. screen' = [screen EXCEPT !.error = e]
      BY <1>3, <2>2 DEF EndTurn
    <3> QED
      BY <3>1, AScreen
  <2>4. ReplTypes'
    <3>1. screen' \in [text : Seq(Nat), notes : Seq(Nat), error : {"none", "send failed", "stream error", "empty stream"}]
      BY <1>1, <2>2, <2>3
    <3> QED
      BY <2>1, <3>1 DEF ReplTypes
  <2>5. NoneIsLost'
    BY <2>1, <2>3 DEF NoneIsLost, Handed
  <2>6. replStream # "open" /\ inHand = HandEmpty /\ (streamErr <=> replStream = "failed")
    BY <2>1 DEF TurnStands
  <2>7. TurnStands'
    BY <2>1, <2>2, <2>3, <2>6 DEF TurnStands
  <2> QED
    BY <2>4, <2>5, <2>7
<1> QED
  BY <1>2, <1>3

LEMMA ReplKeeps == ReplInv /\ [ReplNext]_replVars => ReplInv'
<1> SUFFICES ASSUME ReplInv, [ReplNext]_replVars PROVE ReplInv'
  OBVIOUS
<1>1. CASE ReplNext
  BY <1>1, BetweenTurns, SendPromptKeeps, RecvKeeps, PassKeeps, EndStreamKeeps, PullKeeps
     DEF ReplNext, ReplLoop, Drainer
<1>2. CASE UNCHANGED replVars
  BY <1>2 DEF replVars, ReplInv, ReplTypes, NoneIsLost, Handed, TurnStands
<1> QED
  BY <1>1, <1>2

LEMMA ReplShows == ReplInv => ReplShowsTheTurn
<1> SUFFICES ASSUME ReplInv PROVE ReplShowsTheTurn
  OBVIOUS
<1> USE DEF ReplInv
<1>1. ReplTypeOK
  BY DEF ReplTypes, ReplTypeOK
<1>2. ASSUME repl # "pull", lineNo > 0 PROVE Len(screen.text) = received.text
  <2>1. chunkCh = <<>> /\ Handed("text") = <<>>
    BY <1>2 DEF TurnStands, Handed
  <2>2. screen.text \o chunkCh \o Handed("text") = screen.text
    BY <2>1, AScreen, EmptyIsLast
  <2> QED
    BY <2>2, AScreen, UptoIsSeq DEF NoneIsLost
<1> QED
  BY <1>1, <1>2 DEF ReplShowsTheTurn, NoneIsLost, TurnStands, Upto

(***************************************************************************)
(* gil chat: what drainPromptStream received of a reply is shown whole,    *)
(* once and in its order, and a turn that is over has told its error       *)
(* (loop.go:132-197, grpc_client.go:197-266), for channels of any number   *)
(* of places and any number of turns and parts.                            *)
(***************************************************************************)
THEOREM TheLoopShowsTheTurn == ReplInit /\ [][ReplNext]_replVars => []ReplShowsTheTurn
BY ReplInitially, ReplKeeps, ReplShows, PTL

-----------------------------------------------------------------------------

AgentTurns == [closed : BOOLEAN, calls : SUBSET (Submitted \X Nat)]

PumpTypes ==
    /\ PumpTypeOK
    /\ transcript \in Seq(Submitted \X Nat)
    /\ agentTurns \in Seq(AgentTurns)
    /\ overlapped \in BOOLEAN

\* Where the newest reply is, between Enter and the end of its last command.
Parts == {"session", "text", "call"}
Reading == promptStream = submits /\ reply[submits] = "open" /\ pumps[submits] = 1 /\ inbox = {}
HasPart ==
    /\ promptStream = submits /\ reply[submits] = "open" /\ pumps[submits] = 0
    /\ \E what \in Parts : inbox = {<<what, submits, taken[submits]>>}
HasEnd ==
    /\ reply[submits] = "ended" /\ pumps[submits] = 0
    /\ \E what \in {"done", "err"} : inbox = {<<what, submits, taken[submits]>>}
NotRead ==
    /\ promptStream = 0 /\ pumps[submits] = 0
    /\ \/ reply[submits] = "opening" /\ taken[submits] = 0 /\ inbox = {}
       \/ reply[submits] = "open" /\ taken[submits] = 0 /\ inbox = {<<"started", submits, 0>>}
       \/ reply[submits] = "ended" /\ inbox = {}

OneIsRead ==
    /\ \A n \in Submitted : n < submits => reply[n] = "ended" /\ pumps[n] = 0
    /\ \A n \in Submitted : n > submits => reply[n] = "none" /\ pumps[n] = 0 /\ taken[n] = 0
    /\ submits = 0 => inbox = {} /\ promptStream = 0
    /\ submits > 0 => Reading \/ HasPart \/ HasEnd \/ NotRead

\* What is shown comes before what will be.
Before(x, y) == x[1] < y[1] \/ (x[1] = y[1] /\ x[2] < y[2])
ShownInOrder ==
    /\ \A i, j \in 1..Len(transcript) : i < j => Before(transcript[i], transcript[j])
    /\ \A i \in 1..Len(transcript) :
         \/ transcript[i][1] < submits
         \/ transcript[i][1] = submits /\ transcript[i][2] <= taken[submits] /\ (HasPart => transcript[i][2] < taken[submits])

\* A turn of the tree has the calls of one prompt, the last those of the newest.
Apart(turns) == \A t \in 1..Len(turns) : \A c, d \in turns[t].calls : c[1] = d[1]
LastIsOf(turns, n) == turns # <<>> /\ \A c \in turns[Len(turns)].calls : c[1] = n
TurnsAreApart ==
    /\ Apart(agentTurns)
    /\ submits > 0 /\ (Reading \/ HasPart) => LastIsOf(agentTurns, submits)

SentToTheSession == \A n \in activeID+1..submits : activeID > 0 => askedOf[n] = activeID

InTurn == OneIsRead /\ ShownInOrder /\ TurnsAreApart /\ SentToTheSession

PumpInv == PumpTypes /\ (~overlapped => InTurn)

LEMMA TurnsGrow ==
    ASSUME NEW ts \in Seq(AgentTurns), NEW n \in Submitted, NEW k \in Nat
    PROVE  /\ Opened(ts) \in Seq(AgentTurns) /\ WithCall(ts, <<n, k>>) \in Seq(AgentTurns)
           /\ Apart(ts) => Apart(Opened(ts))
           /\ LastIsOf(Opened(ts), n)
           /\ Apart(ts) /\ LastIsOf(ts, n) => Apart(WithCall(ts, <<n, k>>)) /\ LastIsOf(WithCall(ts, <<n, k>>), n)
<1>1. \A us \in Seq(AgentTurns) :
         /\ Opened(us) \in Seq(AgentTurns) /\ Len(Opened(us)) = Len(us) + 1 /\ Len(us) \in Nat
         /\ Opened(us)[Len(us) + 1].calls = {}
         /\ \A t \in 1..Len(us) : Opened(us)[t] = us[t]
  <2> SUFFICES ASSUME NEW us \in Seq(AgentTurns)
               PROVE  /\ Opened(us) \in Seq(AgentTurns) /\ Len(Opened(us)) = Len(us) + 1 /\ Len(us) \in Nat
                      /\ Opened(us)[Len(us) + 1].calls = {}
                      /\ \A t \in 1..Len(us) : Opened(us)[t] = us[t]
    OBVIOUS
  <2>1. PICK turn \in AgentTurns : turn = [closed |-> FALSE, calls |-> {}]
    BY DEF AgentTurns
  <2>2. turn.calls = {}
    BY <2>1
  <2>3. Opened(us) = Append(us, turn)
    BY <2>1 DEF Opened
  <2> QED
    BY <2>2, <2>3
<1>2. Apart(ts) => Apart(Opened(ts))
  <2> SUFFICES ASSUME Apart(ts), NEW t \in 1..Len(Opened(ts)), NEW c \in Opened(ts)[t].calls, NEW d \in Opened(ts)[t].calls
               PROVE  c[1] = d[1]
    BY DEF Apart
  <2>1. t \in 1..Len(ts)
    BY <1>1
  <2> QED
    BY <1>1, <2>1 DEF Apart
<1>3. LastIsOf(Opened(ts), n)
  <2>1. Opened(ts) # <<>> /\ Opened(ts)[Len(Opened(ts))].calls = {}
    BY <1>1
  <2> QED
    BY <2>1 DEF LastIsOf
<1>4. PICK us \in Seq(AgentTurns) :
         /\ us = IF ts = <<>> \/ ts[Len(ts)].closed THEN Opened(ts) ELSE ts
         /\ us # <<>> /\ (Apart(ts) => Apart(us)) /\ (LastIsOf(ts, n) => LastIsOf(us, n))
  BY <1>1, <1>2, <1>3 DEF LastIsOf
<1>5. PICK last : last = Len(us)
  OBVIOUS
<1>6. last \in 1..Len(us) /\ us[last] \in AgentTurns
  BY <1>4, <1>5
<1>7. PICK turn : turn = [us[last] EXCEPT !.calls = @ \cup {<<n, k>>}]
  OBVIOUS
<1>8. turn \in AgentTurns /\ turn.calls = us[last].calls \cup {<<n, k>>}
  <2>1. us[last].calls \cup {<<n, k>>} \in SUBSET (Submitted \X Nat)
    BY <1>6 DEF AgentTurns
  <2> QED
    BY <1>6, <1>7, <2>1 DEF AgentTurns
<1>9. WithCall(ts, <<n, k>>) = [us EXCEPT ![last] = turn]
  BY <1>4, <1>5, <1>7 DEF WithCall
<1>10. PICK vs : vs = [us EXCEPT ![last] = turn]
  OBVIOUS
<1>11. vs \in Seq(AgentTurns) /\ Len(vs) = Len(us) /\ \A t \in 1..Len(us) : vs[t] = IF t = last THEN turn ELSE us[t]
  BY <1>6, <1>8, <1>10
<1>12. ASSUME Apart(us), LastIsOf(us, n) PROVE Apart(vs) /\ LastIsOf(vs, n)
  <2>1. \A c \in turn.calls : c[1] = n
    BY <1>5, <1>8, <1>12 DEF LastIsOf
  <2>2. LastIsOf(vs, n)
    <3>1. vs[Len(vs)] = turn /\ vs # <<>>
      BY <1>4, <1>5, <1>6, <1>11
    <3> QED
      BY <2>1, <3>1 DEF LastIsOf
  <2>3. Apart(vs)
    BY <1>11, <1>12, <2>1 DEF Apart
  <2> QED
    BY <2>2, <2>3
<1> QED
  BY <1>1, <1>2, <1>3, <1>4, <1>9, <1>10, <1>11, <1>12

LEMMA PumpInitially == PumpInit => PumpInv
<1> SUFFICES ASSUME PumpInit PROVE PumpInv
  OBVIOUS
<1> USE PumpAssumption DEF PumpInit
<1>1. PumpTypes
  <2>1. 0 \in 0..MaxSubmits
    OBVIOUS
  <2>2. /\ reply \in [Submitted -> {"none", "opening", "open", "cancelled", "ended"}]
        /\ askedOf \in [Submitted -> 0..MaxSubmits] /\ pumps \in [Submitted -> Nat] /\ taken \in [Submitted -> Nat]
    BY <2>1
  <2>3. {promptStream, promptCancel, activeID} \subseteq 0..MaxSubmits /\ submits \in 0..MaxSubmits
    BY <2>1
  <2>4. transcript \in Seq(Submitted \X Nat) /\ agentTurns \in Seq(AgentTurns) /\ overlapped \in BOOLEAN
    <3>1. \A S : <<>> \in Seq(S)
      OBVIOUS
    <3> QED
      BY <3>1
  <2> QED
    BY <2>2, <2>3, <2>4 DEF PumpTypes, PumpTypeOK
<1>2. InTurn
  BY DEF InTurn, OneIsRead, ShownInOrder, TurnsAreApart, Apart, SentToTheSession, Submitted
<1> QED
  BY <1>1, <1>2 DEF PumpInv

Kinds == {"started", "session", "text", "call", "done", "err"}

\* A step keeps the types when what it writes has them.
LEMMA PumpedTypes ==
    ASSUME PumpTypes, NEW n \in 0..MaxSubmits
    PROVE  Pumped(n) \in [Submitted -> Nat]
<1>1. pumps \in [Submitted -> Nat]
  BY DEF PumpTypes, PumpTypeOK
<1>2. CASE n = 0
  BY <1>1, <1>2 DEF Pumped
<1>3. CASE n # 0
  <2>1. n \in Submitted
    BY <1>3, PumpAssumption DEF Submitted
  <2>2. pumps[n] + 1 \in Nat
    BY <1>1, <2>1
  <2> QED
    BY <1>1, <1>3, <2>2 DEF Pumped
<1> QED
  BY <1>2, <1>3

LEMMA SubmitTypes == ASSUME PumpTypes, Submit PROVE PumpTypes'
<1>1. PICK n : n = submits + 1
  OBVIOUS
<1>2. n \in Submitted /\ n \in 1..MaxSubmits /\ submits < MaxSubmits
  BY <1>1, PumpAssumption DEF Submit, PumpTypes, PumpTypeOK, Submitted
<1>3. /\ submits' = n /\ transcript' = Append(transcript, <<n, 0>>)
      /\ reply' = [s \in Submitted |-> IF s = n THEN "opening"
                                       ELSE IF s = promptCancel /\ reply[s] = "open" THEN "cancelled"
                                       ELSE reply[s]]
      /\ promptStream' = (IF promptCancel = 0 THEN promptStream ELSE 0) /\ promptCancel' = 0
      /\ askedOf' = [askedOf EXCEPT ![n] = activeID] /\ overlapped' = (overlapped \/ ~Quiet)
      /\ UNCHANGED <<activeID, pumps, taken, inbox, agentTurns>>
  BY <1>1 DEF Submit
<1>4. reply' \in [Submitted -> {"none", "opening", "open", "cancelled", "ended"}]
  BY <1>3 DEF PumpTypes, PumpTypeOK
<1>5. transcript' \in Seq(Submitted \X Nat)
  <2>1. PICK line \in Submitted \X Nat : line = <<n, 0>>
    BY <1>2
  <2> QED
    BY <1>3, <2>1 DEF PumpTypes
<1>6. {promptStream', promptCancel', activeID'} \subseteq 0..MaxSubmits /\ askedOf' \in [Submitted -> 0..MaxSubmits]
  <2>1. {promptStream, activeID, 0} \subseteq 0..MaxSubmits
    BY PumpAssumption DEF PumpTypes, PumpTypeOK
  <2>2. promptStream' \in {promptStream, 0} /\ promptCancel' = 0 /\ activeID' = activeID
    BY <1>3
  <2>3. askedOf' \in [Submitted -> 0..MaxSubmits]
    BY <1>3, <2>1 DEF PumpTypes, PumpTypeOK
  <2> QED
    BY <2>1, <2>2, <2>3
<1>7. submits' \in 0..MaxSubmits /\ overlapped' \in BOOLEAN
  BY <1>2, <1>3, PumpAssumption DEF PumpTypes
<1> QED
  BY <1>3, <1>4, <1>5, <1>6, <1>7 DEF PumpTypes, PumpTypeOK

LEMMA OpenTypes == ASSUME PumpTypes, NEW n \in Submitted, NEW opened \in BOOLEAN, OpenPrompt(n, opened) PROVE PumpTypes'
<1>1. inbox' \subseteq Kinds \X Submitted \X Nat
  BY DEF OpenPrompt, Post, PumpTypes, PumpTypeOK, Kinds
<1>2. reply' \in [Submitted -> {"none", "opening", "open", "cancelled", "ended"}]
  BY DEF OpenPrompt, PumpTypes, PumpTypeOK
<1> QED
  BY <1>1, <1>2 DEF OpenPrompt, PumpTypes, PumpTypeOK, Kinds

LEMMA ReadTypes == ASSUME PumpTypes, NEW n \in Submitted, ReadPart(n) PROVE PumpTypes'
<1>1. pumps[n] > 0 /\ pumps[n] \in Nat /\ taken[n] \in Nat
  BY DEF ReadPart, PumpTypes, PumpTypeOK
<1>2. PICK msg \in Received(n) :
        inbox' = inbox \cup {msg} /\ reply' = [reply EXCEPT ![n] = IF msg[1] \in {"done", "err"} THEN "ended" ELSE @]
  BY DEF ReadPart, Post
<1>3. msg \in Kinds \X Submitted \X Nat
  BY <1>1 DEF Received, Kinds
<1>4. inbox' \subseteq Kinds \X Submitted \X Nat
  BY <1>2, <1>3 DEF PumpTypes, PumpTypeOK, Kinds
<1>5. reply' \in [Submitted -> {"none", "opening", "open", "cancelled", "ended"}]
  BY <1>2 DEF PumpTypes, PumpTypeOK
<1>6. pumps' \in [Submitted -> Nat] /\ taken' \in [Submitted -> Nat]
  BY <1>1 DEF ReadPart, PumpTypes, PumpTypeOK
<1> QED
  BY <1>4, <1>5, <1>6 DEF ReadPart, PumpTypes, PumpTypeOK, Kinds

LEMMA StartedTypes == ASSUME PumpTypes, NEW n \in Submitted, OnStarted(n) PROVE PumpTypes'
<1>1. n \in 0..MaxSubmits /\ n \in 1..MaxSubmits
  BY PumpAssumption DEF Submitted
<1>2. pumps' \in [Submitted -> Nat]
  BY <1>1, PumpedTypes DEF OnStarted
<1>3. agentTurns' \in Seq(AgentTurns)
  BY TurnsGrow DEF OnStarted, PumpTypes
<1>4. inbox' \subseteq inbox /\ {promptStream', promptCancel'} \subseteq 0..MaxSubmits
  BY <1>1 DEF OnStarted
<1> QED
  BY <1>2, <1>3, <1>4 DEF OnStarted, PumpTypes, PumpTypeOK

LEMMA PartTypes == ASSUME PumpTypes, NEW msg \in inbox, OnPart(msg) PROVE PumpTypes'
<1>1. msg[1] \in Parts /\ msg[2] \in Submitted /\ msg[3] \in Nat
  BY DEF OnPart, PumpTypes, PumpTypeOK, Parts
<1>2. promptStream \in 0..MaxSubmits /\ activeID \in 0..MaxSubmits /\ msg[2] \in 0..MaxSubmits
  BY <1>1, PumpAssumption DEF PumpTypes, PumpTypeOK, Submitted
<1>3. pumps' \in [Submitted -> Nat]
  BY <1>2, PumpedTypes DEF OnPart
<1>4. agentTurns' \in Seq(AgentTurns)
  BY <1>1, TurnsGrow DEF OnPart, PumpTypes
<1>5. transcript' \in Seq(Submitted \X Nat)
  <2>1. PICK line \in Submitted \X Nat : line = <<msg[2], msg[3]>>
    BY <1>1
  <2>2. Append(transcript, line) \in Seq(Submitted \X Nat)
    BY DEF PumpTypes
  <2> QED
    BY <2>1, <2>2 DEF OnPart, PumpTypes
<1>6. activeID' \in 0..MaxSubmits /\ inbox' \subseteq inbox
  BY <1>2 DEF OnPart
<1> QED
  BY <1>3, <1>4, <1>5, <1>6 DEF OnPart, PumpTypes, PumpTypeOK

\* Closing the last turn of the tree leaves its calls.
LEMMA TurnsClose ==
    ASSUME NEW ts \in Seq(AgentTurns), ts # <<>>
    PROVE  /\ [ts EXCEPT ![Len(ts)].closed = TRUE] \in Seq(AgentTurns)
           /\ Apart(ts) => Apart([ts EXCEPT ![Len(ts)].closed = TRUE])
<1>1. PICK last : last = Len(ts)
  OBVIOUS
<1>2. last \in 1..Len(ts) /\ ts[last] \in AgentTurns
  BY <1>1
<1>3. PICK turn : turn = [ts[last] EXCEPT !.closed = TRUE]
  OBVIOUS
<1>4. turn \in AgentTurns /\ turn.calls = ts[last].calls
  BY <1>2, <1>3 DEF AgentTurns
<1>5. PICK us : us = [ts EXCEPT ![last] = turn]
  OBVIOUS
<1>6. us \in Seq(AgentTurns) /\ Len(us) = Len(ts) /\ \A t \in 1..Len(ts) : us[t].calls = ts[t].calls
  BY <1>2, <1>4, <1>5
<1>7. [ts EXCEPT ![Len(ts)].closed = TRUE] = us
  BY <1>1, <1>3, <1>5
<1>8. Apart(ts) => Apart(us)
  BY <1>6 DEF Apart
<1> QED
  BY <1>6, <1>7, <1>8

LEMMA EndTypes == ASSUME PumpTypes, NEW msg \in inbox, OnEnd(msg) PROVE PumpTypes'
<1>1. agentTurns' \in Seq(AgentTurns)
  BY TurnsClose DEF OnEnd, PumpTypes
<1>2. inbox' \subseteq inbox /\ promptStream' \in 0..MaxSubmits
  BY PumpAssumption DEF OnEnd
<1> QED
  BY <1>1, <1>2 DEF OnEnd, PumpTypes, PumpTypeOK

\* The phases exclude each other.
LEMMA Newest ==
    ASSUME PumpTypes, OneIsRead, submits > 0
    PROVE  submits \in Submitted /\ taken[submits] \in Nat /\ pumps[submits] \in Nat /\ submits \in Nat
BY PumpAssumption DEF PumpTypes, PumpTypeOK, Submitted

\* When all is quiet the newest reply has ended.
LEMMA QuietIsEnded ==
    ASSUME PumpTypes, InTurn, Quiet, submits > 0
    PROVE  NotRead /\ reply[submits] = "ended"
<1>1. submits \in Submitted
  BY Newest DEF InTurn
<1>2. pumps[submits] = 0 /\ reply[submits] # "opening" /\ inbox = {}
  BY <1>1 DEF Quiet
<1>3. Reading \/ HasPart \/ HasEnd \/ NotRead
  BY DEF InTurn, OneIsRead
<1>4. ~Reading
  BY <1>2 DEF Reading
<1>5. ~HasPart /\ ~HasEnd
  BY <1>2 DEF HasPart, HasEnd
<1>6. NotRead
  BY <1>3, <1>4, <1>5
<1> QED
  BY <1>2, <1>6 DEF NotRead

LEMMA LastOrBefore ==
    ASSUME NEW n \in Nat, NEW i \in 1..n + 1, NEW j \in 1..n + 1, i < j
    PROVE  i \in 1..n /\ (j \in 1..n \/ j = n + 1)
OBVIOUS

LEMMA SubmitInTurn == ASSUME PumpTypes, InTurn, Quiet, Submit PROVE InTurn'
<1>1. PICK n : n = submits + 1
  OBVIOUS
<1>2. n \in Submitted /\ submits \in Nat /\ n \in Nat /\ submits < n /\ n > 0
      /\ \A m \in Submitted : m \in Nat /\ (m < n <=> m < submits \/ m = submits) /\ (m > n => m > submits)
  BY <1>1, PumpAssumption, SMTT(30) DEF Submit, PumpTypes, PumpTypeOK, Submitted
<1>3. /\ submits' = n /\ transcript' = Append(transcript, <<n, 0>>)
      /\ reply' = [s \in Submitted |-> IF s = n THEN "opening"
                                       ELSE IF s = promptCancel /\ reply[s] = "open" THEN "cancelled"
                                       ELSE reply[s]]
      /\ promptStream' = (IF promptCancel = 0 THEN promptStream ELSE 0)
      /\ askedOf' = [askedOf EXCEPT ![n] = activeID]
      /\ UNCHANGED <<activeID, pumps, taken, inbox, agentTurns>>
  BY <1>1 DEF Submit
<1>4. submits > 0 => NotRead /\ reply[submits] = "ended"
  BY QuietIsEnded
<1>5. \A m \in Submitted : m < n => reply[m] = "ended"
  BY <1>2, <1>4 DEF InTurn, OneIsRead, Submitted
<1>6. \A m \in Submitted : pumps[m] = 0 /\ (m > submits => reply[m] = "none" /\ taken[m] = 0)
  BY DEF InTurn, OneIsRead, Quiet
<1>7. promptStream' = 0 /\ inbox' = {}
  BY <1>2, <1>3, <1>4 DEF InTurn, OneIsRead, Quiet, NotRead
<1>8. NotRead'
  BY <1>2, <1>3, <1>6, <1>7 DEF NotRead
<1>9. OneIsRead'
  <2>1. \A m \in Submitted : m < n => reply'[m] = "ended" /\ pumps'[m] = 0
    BY <1>2, <1>3, <1>5, <1>6
  <2>2. \A m \in Submitted : m > n => reply'[m] = "none" /\ pumps'[m] = 0 /\ taken'[m] = 0
    BY <1>2, <1>3, <1>6
  <2> QED
    BY <1>2, <1>3, <1>8, <2>1, <2>2 DEF OneIsRead
<1>10. ~Reading' /\ ~HasPart'
  BY <1>2, <1>3, <1>7 DEF Reading, HasPart
<1>11. ShownInOrder'
  <2>1. transcript \in Seq(Submitted \X Nat) /\ Len(transcript) \in Nat /\ taken'[n] = 0
    BY <1>2, <1>3, <1>6 DEF PumpTypes
  <2>2. Len(transcript') = Len(transcript) + 1 /\ transcript'[Len(transcript) + 1] = <<n, 0>>
        /\ \A i \in 1..Len(transcript) : transcript'[i] = transcript[i]
    BY <1>3, <2>1
  <2>3. \A i \in 1..Len(transcript) : transcript[i][1] \in Nat /\ transcript[i][2] \in Nat /\ transcript[i][1] < n
    <3> SUFFICES ASSUME NEW i \in 1..Len(transcript)
                 PROVE  transcript[i][1] \in Nat /\ transcript[i][2] \in Nat /\ transcript[i][1] < n
      OBVIOUS
    <3>1. transcript[i] \in Submitted \X Nat
      BY <2>1
    <3>2. transcript[i][1] \in Nat /\ transcript[i][2] \in Nat
      BY <3>1 DEF Submitted
    <3>3. transcript[i][1] < submits \/ transcript[i][1] = submits
      BY DEF InTurn, ShownInOrder
    <3> QED
      BY <1>1, <1>2, <3>2, <3>3
  <2>4. ASSUME NEW i \in 1..Len(transcript'), NEW j \in 1..Len(transcript'), i < j PROVE Before(transcript'[i], transcript'[j])
    <3>1. i \in 1..Len(transcript) /\ (j \in 1..Len(transcript) \/ j = Len(transcript) + 1)
      BY <2>1, <2>2, <2>4, LastOrBefore
    <3>2. CASE j \in 1..Len(transcript)
      BY <2>2, <2>4, <3>1, <3>2 DEF InTurn, ShownInOrder
    <3>3. CASE j = Len(transcript) + 1
      BY <2>2, <2>3, <3>1, <3>3 DEF Before
    <3> QED
      BY <3>1, <3>2, <3>3
  <2>5. ASSUME NEW i \in 1..Len(transcript')
        PROVE  \/ transcript'[i][1] < n
               \/ transcript'[i][1] = n /\ transcript'[i][2] <= taken'[n]
    <3>1. i \in 1..Len(transcript) \/ i = Len(transcript) + 1
      BY <2>1, <2>2
    <3> QED
      BY <2>1, <2>2, <2>3, <3>1
  <2> QED
    BY <1>3, <1>10, <2>4, <2>5 DEF ShownInOrder
<1>12. TurnsAreApart'
  BY <1>3, <1>10 DEF InTurn, TurnsAreApart, Apart
<1>13. SentToTheSession'
  <2> SUFFICES ASSUME NEW m \in activeID + 1..n, activeID > 0 PROVE askedOf'[m] = activeID
    BY <1>3 DEF SentToTheSession
  <2>1. activeID \in Nat
    BY PumpAssumption DEF PumpTypes, PumpTypeOK
  <2>2. CASE m = n
    BY <1>2, <1>3, <2>2 DEF PumpTypes, PumpTypeOK
  <2>3. CASE m # n
    <3>1. m \in activeID + 1..submits
      BY <1>1, <1>2, <2>1, <2>3
    <3> QED
      BY <1>3, <2>3, <3>1 DEF InTurn, SentToTheSession, PumpTypes, PumpTypeOK
  <2> QED
    BY <2>2, <2>3
<1> QED
  BY <1>9, <1>11, <1>12, <1>13 DEF InTurn

\* What leaves the transcript and the tree as they are keeps them in order.
LEMMA NothingShown ==
    ASSUME PumpTypes, InTurn, submits > 0, OneIsRead', UNCHANGED <<submits, transcript, agentTurns, activeID, askedOf>>,
           taken[submits] <= taken'[submits] /\ taken'[submits] \in Nat,
           HasPart' => HasPart \/ taken[submits] < taken'[submits],
           Reading' \/ HasPart' => LastIsOf(agentTurns, submits)
    PROVE  InTurn'
<1>1. submits \in Submitted /\ taken[submits] \in Nat /\ submits \in Nat
  BY Newest DEF InTurn
<1>2. ShownInOrder'
  <2>1. ASSUME NEW i \in 1..Len(transcript)
        PROVE  \/ transcript[i][1] < submits
               \/ transcript[i][1] = submits /\ transcript[i][2] <= taken'[submits] /\ (HasPart' => transcript[i][2] < taken'[submits])
    <3>1. transcript[i] \in Submitted \X Nat
      BY DEF PumpTypes
    <3>2. transcript[i][2] \in Nat
      BY <3>1
    <3> QED
      BY <1>1, <3>2 DEF InTurn, ShownInOrder
  <2> QED
    BY <2>1 DEF InTurn, ShownInOrder
<1>3. TurnsAreApart' /\ SentToTheSession'
  BY DEF InTurn, TurnsAreApart, SentToTheSession
<1> QED
  BY <1>2, <1>3 DEF InTurn

LEMMA OpenInTurn ==
    ASSUME PumpTypes, InTurn, NEW n \in Submitted, NEW opened \in BOOLEAN, OpenPrompt(n, opened)
    PROVE  InTurn'
<1>1. n = submits /\ submits > 0 /\ submits \in Nat
  BY PumpAssumption, SMTT(30) DEF InTurn, OneIsRead, OpenPrompt, PumpTypes, PumpTypeOK, Submitted
<1>2. NotRead /\ inbox = {} /\ taken[submits] = 0
  BY <1>1 DEF InTurn, OneIsRead, OpenPrompt, Reading, HasPart, HasEnd, NotRead
<1>3. /\ inbox' = {<<IF opened THEN "started" ELSE "err", submits, 0>>}
      /\ reply'[submits] = (IF opened THEN "open" ELSE "ended")
      /\ \A m \in Submitted : m # submits => reply'[m] = reply[m]
      /\ UNCHANGED <<submits, promptStream, promptCancel, activeID, askedOf, pumps, taken, transcript, agentTurns>>
  BY <1>1, <1>2 DEF OpenPrompt, Post, PumpTypes, PumpTypeOK
<1>4. promptStream' = 0 /\ pumps'[submits] = 0
  BY <1>2, <1>3 DEF NotRead
<1>5. (opened => NotRead') /\ (~opened => HasEnd')
  BY <1>2, <1>3, <1>4 DEF NotRead, HasEnd
<1>6. ~Reading' /\ ~HasPart'
  BY <1>1, <1>3, <1>4 DEF Reading, HasPart
<1>7. OneIsRead'
  BY <1>1, <1>3, <1>5 DEF InTurn, OneIsRead, Submitted
<1> QED
  BY <1>1, <1>2, <1>3, <1>6, <1>7, NothingShown

LEMMA ReadInTurn == ASSUME PumpTypes, InTurn, NEW n \in Submitted, ReadPart(n) PROVE InTurn'
<1>1. n = submits /\ submits > 0 /\ submits \in Nat /\ taken[n] \in Nat /\ pumps[n] > 0
  <2>1. pumps[n] > 0
    BY DEF ReadPart
  <2>2. ~(n < submits) /\ ~(n > submits)
    BY <2>1 DEF InTurn, OneIsRead
  <2>3. n \in Nat /\ n > 0 /\ submits \in Nat
    BY PumpAssumption DEF PumpTypes, PumpTypeOK, Submitted
  <2>4. n = submits
    BY <2>2, <2>3
  <2>5. taken[n] \in Nat
    BY DEF PumpTypes, PumpTypeOK
  <2> QED
    BY <2>1, <2>3, <2>4, <2>5
<1>2. Reading
  BY <1>1 DEF InTurn, OneIsRead, HasPart, HasEnd, NotRead
<1>3. PICK msg \in Received(n) :
        inbox' = inbox \cup {msg} /\ reply' = [reply EXCEPT ![n] = IF msg[1] \in {"done", "err"} THEN "ended" ELSE @]
  BY DEF ReadPart, Post
<1>4. PICK place : place = taken[n] + 1
  OBVIOUS
<1>5. place \in Nat /\ taken[n] < place
  BY <1>1, <1>4
<1>6. msg[1] \in Parts \cup {"done", "err"} /\ msg = <<msg[1], n, place>>
  BY <1>3, <1>4 DEF Received, Parts
<1>7. /\ inbox' = {<<msg[1], submits, place>>} /\ taken'[submits] = place /\ pumps'[submits] = 0
      /\ \A m \in Submitted : m # submits => pumps'[m] = pumps[m] /\ taken'[m] = taken[m] /\ reply'[m] = reply[m]
      /\ reply'[submits] = IF msg[1] \in {"done", "err"} THEN "ended" ELSE "open"
      /\ UNCHANGED <<submits, promptStream, promptCancel, activeID, askedOf, transcript, agentTurns>>
  <2>1. pumps' = [pumps EXCEPT ![submits] = @ - 1] /\ taken' = [taken EXCEPT ![submits] = @ + 1]
        /\ UNCHANGED <<submits, promptStream, promptCancel, activeID, askedOf, transcript, agentTurns>>
    BY <1>1 DEF ReadPart
  <2>2. inbox = {} /\ pumps[submits] = 1 /\ reply[submits] = "open"
    BY <1>2 DEF Reading
  <2>3. submits \in Submitted /\ pumps \in [Submitted -> Nat] /\ taken \in [Submitted -> Nat]
        /\ reply \in [Submitted -> {"none", "opening", "open", "cancelled", "ended"}]
    BY <1>1 DEF PumpTypes, PumpTypeOK
  <2>4. inbox' = {<<msg[1], submits, place>>}
    BY <1>1, <1>3, <1>6, <2>2
  <2>5. taken'[submits] = place /\ pumps'[submits] = 0
        /\ \A m \in Submitted : m # submits => pumps'[m] = pumps[m] /\ taken'[m] = taken[m]
    BY <1>1, <1>4, <2>1, <2>2, <2>3
  <2>6. reply'[submits] = (IF msg[1] \in {"done", "err"} THEN "ended" ELSE "open")
        /\ \A m \in Submitted : m # submits => reply'[m] = reply[m]
    BY <1>1, <1>3, <2>2, <2>3
  <2> QED
    BY <2>1, <2>4, <2>5, <2>6
<1>8. (msg[1] \in Parts => HasPart') /\ (msg[1] \in {"done", "err"} => HasEnd')
  BY <1>2, <1>7 DEF HasPart, HasEnd, Reading, Parts
<1>9. OneIsRead'
  BY <1>1, <1>6, <1>7, <1>8 DEF InTurn, OneIsRead, Submitted
<1>10. LastIsOf(agentTurns, submits) /\ taken[submits] < taken'[submits] /\ taken[submits] <= taken'[submits] /\ taken'[submits] \in Nat
  BY <1>1, <1>2, <1>5, <1>7 DEF InTurn, TurnsAreApart
<1> QED
  BY <1>1, <1>7, <1>9, <1>10, NothingShown

LEMMA StartedInTurn == ASSUME PumpTypes, InTurn, NEW n \in Submitted, OnStarted(n) PROVE InTurn'
<1>1. submits > 0
  BY PumpAssumption DEF InTurn, OneIsRead, OnStarted, PumpTypes, PumpTypeOK
<1>2. submits \in Submitted /\ taken[submits] \in Nat /\ submits \in Nat /\ submits # 0
  BY <1>1, Newest DEF InTurn
<1>3. <<"started", n, 0>> \in inbox
  BY DEF OnStarted
<1>4. n = submits /\ NotRead /\ reply[submits] = "open" /\ taken[submits] = 0 /\ inbox = {<<"started", submits, 0>>}
  BY <1>1, <1>3 DEF InTurn, OneIsRead, Reading, HasPart, HasEnd, NotRead, Parts
<1>5. /\ inbox' = {} /\ promptStream' = submits
      /\ pumps' = [pumps EXCEPT ![submits] = @ + 1] /\ agentTurns' = Opened(agentTurns)
      /\ UNCHANGED <<submits, reply, activeID, askedOf, taken, transcript>>
  BY <1>2, <1>4 DEF OnStarted, Pumped
<1>6. pumps'[submits] = 1 /\ \A m \in Submitted : m # submits => pumps'[m] = pumps[m]
  BY <1>2, <1>4, <1>5 DEF NotRead, PumpTypes, PumpTypeOK
<1>7. Reading' /\ ~HasPart'
  BY <1>4, <1>5, <1>6 DEF Reading, HasPart
<1>8. OneIsRead'
  BY <1>1, <1>2, <1>5, <1>6, <1>7 DEF InTurn, OneIsRead
<1>9. ShownInOrder'
  BY <1>5, <1>7 DEF InTurn, ShownInOrder
<1>10. TurnsAreApart'
  BY <1>2, <1>5, TurnsGrow DEF InTurn, TurnsAreApart, PumpTypes
<1> QED
  BY <1>5, <1>8, <1>9, <1>10 DEF InTurn, SentToTheSession

LEMMA PartInTurn == ASSUME PumpTypes, InTurn, NEW msg \in inbox, OnPart(msg) PROVE InTurn'
<1>1. submits > 0
  BY PumpAssumption DEF InTurn, OneIsRead, PumpTypes, PumpTypeOK
<1>2. submits \in Submitted /\ taken[submits] \in Nat /\ submits \in Nat /\ submits # 0
  BY <1>1, Newest DEF InTurn
<1>3. HasPart
  BY <1>1 DEF OnPart, InTurn, OneIsRead, Reading, HasEnd, NotRead
<1>4. msg[1] \in Parts /\ msg[2] = submits /\ msg[3] = taken[submits] /\ inbox = {msg}
  BY <1>3 DEF OnPart, HasPart, Parts
<1>5. /\ inbox' = {} /\ pumps' = [pumps EXCEPT ![submits] = @ + 1]
      /\ activeID' = (IF msg[1] = "session" THEN submits ELSE activeID)
      /\ transcript' = IF msg[1] = "session" THEN transcript ELSE Append(transcript, <<submits, taken[submits]>>)
      /\ agentTurns' = IF msg[1] = "call" THEN WithCall(agentTurns, <<submits, taken[submits]>>) ELSE agentTurns
      /\ UNCHANGED <<submits, reply, promptStream, askedOf, taken>>
  BY <1>2, <1>3, <1>4 DEF OnPart, Pumped, HasPart
<1>6. pumps'[submits] = 1 /\ \A m \in Submitted : m # submits => pumps'[m] = pumps[m]
  BY <1>2, <1>3, <1>5 DEF HasPart, PumpTypes, PumpTypeOK
<1>7. Reading' /\ ~HasPart'
  BY <1>3, <1>5, <1>6 DEF Reading, HasPart
<1>8. OneIsRead'
  BY <1>1, <1>2, <1>5, <1>6, <1>7 DEF InTurn, OneIsRead
<1>9. ShownInOrder'
  <2>1. CASE msg[1] = "session"
    BY <1>2, <1>5, <1>7, <2>1 DEF InTurn, ShownInOrder
  <2>2. CASE msg[1] # "session"
    <3>1. transcript \in Seq(Submitted \X Nat) /\ Len(transcript) \in Nat
      BY DEF PumpTypes
    <3>2. /\ Len(transcript') = Len(transcript) + 1
          /\ transcript'[Len(transcript) + 1] = <<submits, taken[submits]>>
          /\ \A i \in 1..Len(transcript) : transcript'[i] = transcript[i]
      BY <1>5, <2>2, <3>1
    <3>3. \A i \in 1..Len(transcript) :
             transcript[i][1] < submits \/ (transcript[i][1] = submits /\ transcript[i][2] < taken[submits])
      BY <1>3 DEF InTurn, ShownInOrder
    <3>4. ASSUME NEW i \in 1..Len(transcript'), NEW j \in 1..Len(transcript'), i < j PROVE Before(transcript'[i], transcript'[j])
      <4>1. i \in 1..Len(transcript) /\ (j \in 1..Len(transcript) \/ j = Len(transcript) + 1)
        BY <3>1, <3>2, <3>4, LastOrBefore
      <4>2. CASE j \in 1..Len(transcript)
        BY <3>2, <3>4, <4>1, <4>2 DEF InTurn, ShownInOrder
      <4>3. CASE j = Len(transcript) + 1
        BY <3>2, <3>3, <4>1, <4>3 DEF Before
      <4> QED
        BY <4>1, <4>2, <4>3
    <3>5. ASSUME NEW i \in 1..Len(transcript')
          PROVE  transcript'[i][1] < submits \/ (transcript'[i][1] = submits /\ transcript'[i][2] <= taken[submits])
      <4>1. CASE i = Len(transcript) + 1
        BY <1>2, <3>2, <4>1
      <4>2. CASE i \in 1..Len(transcript)
        <5>1. transcript[i] \in Submitted \X Nat /\ transcript'[i] = transcript[i]
          BY <3>1, <3>2, <4>2
        <5>2. transcript[i][2] \in Nat
          BY <5>1
        <5> QED
          BY <1>2, <3>3, <4>2, <5>1, <5>2
      <4> QED
        BY <3>1, <3>2, <4>1, <4>2
    <3> QED
      BY <1>5, <1>7, <3>4, <3>5 DEF ShownInOrder
  <2> QED
    BY <2>1, <2>2
<1>10. TurnsAreApart'
  <2>1. Apart(agentTurns) /\ LastIsOf(agentTurns, submits)
    BY <1>1, <1>3 DEF InTurn, TurnsAreApart
  <2>2. Apart(agentTurns') /\ LastIsOf(agentTurns', submits)
    <3>1. CASE msg[1] = "call"
      BY <1>2, <1>5, <2>1, <3>1, TurnsGrow DEF PumpTypes
    <3>2. CASE msg[1] # "call"
      BY <1>5, <2>1, <3>2
    <3> QED
      BY <3>1, <3>2
  <2> QED
    BY <1>5, <2>2 DEF TurnsAreApart
<1>11. SentToTheSession'
  <2>1. CASE msg[1] = "session"
    <3>1. ~\E n \in submits + 1..submits : TRUE
      BY <1>2
    <3> QED
      BY <1>5, <2>1, <3>1 DEF SentToTheSession
  <2>2. CASE msg[1] # "session"
    BY <1>5, <2>2 DEF InTurn, SentToTheSession
  <2> QED
    BY <2>1, <2>2
<1> QED
  BY <1>8, <1>9, <1>10, <1>11 DEF InTurn

LEMMA EndInTurn == ASSUME PumpTypes, InTurn, NEW msg \in inbox, OnEnd(msg) PROVE InTurn'
<1>1. submits > 0
  BY PumpAssumption DEF InTurn, OneIsRead, PumpTypes, PumpTypeOK
<1>2. submits \in Submitted /\ taken[submits] \in Nat /\ submits \in Nat /\ submits # 0
  BY <1>1, Newest DEF InTurn
<1>3. HasEnd
  BY <1>1 DEF OnEnd, InTurn, OneIsRead, Reading, HasPart, NotRead, Parts
<1>4. inbox = {msg}
  BY <1>3 DEF HasEnd
<1>5. /\ inbox' = {} /\ promptStream' = 0
      /\ agentTurns' = IF msg[1] = "done" /\ agentTurns # <<>>
                       THEN [agentTurns EXCEPT ![Len(agentTurns)].closed = TRUE] ELSE agentTurns
      /\ UNCHANGED <<submits, reply, activeID, askedOf, pumps, taken, transcript>>
  BY <1>4 DEF OnEnd
<1>6. NotRead'
  BY <1>3, <1>5 DEF HasEnd, NotRead
<1>7. ~Reading' /\ ~HasPart'
  BY <1>2, <1>5 DEF Reading, HasPart
<1>8. OneIsRead'
  BY <1>1, <1>5, <1>6 DEF InTurn, OneIsRead
<1>9. ShownInOrder'
  BY <1>5, <1>7 DEF InTurn, ShownInOrder
<1>10. TurnsAreApart'
  BY <1>5, <1>7, TurnsClose DEF InTurn, TurnsAreApart, PumpTypes
<1> QED
  BY <1>5, <1>8, <1>9, <1>10 DEF InTurn, SentToTheSession

LEMMA PumpKeeps == PumpInv /\ [PumpNext]_pumpVars => PumpInv'
<1> SUFFICES ASSUME PumpInv, [PumpNext]_pumpVars PROVE PumpInv'
  OBVIOUS
<1>1. PumpTypes /\ (~overlapped => InTurn)
  BY DEF PumpInv
<1>2. CASE Submit
  <2>1. ~overlapped' => ~overlapped /\ Quiet
    BY <1>2 DEF Submit
  <2> QED
    BY <1>1, <1>2, <2>1, SubmitTypes, SubmitInTurn DEF PumpInv
<1>3. ASSUME NEW n \in Submitted, NEW opened \in BOOLEAN, OpenPrompt(n, opened) PROVE PumpInv'
  <2>1. overlapped' = overlapped
    BY <1>3 DEF OpenPrompt
  <2> QED
    BY <1>1, <1>3, <2>1, OpenTypes, OpenInTurn DEF PumpInv
<1>4. ASSUME NEW n \in Submitted, ReadPart(n) PROVE PumpInv'
  <2>1. overlapped' = overlapped
    BY <1>4 DEF ReadPart
  <2> QED
    BY <1>1, <1>4, <2>1, ReadTypes, ReadInTurn DEF PumpInv
<1>5. ASSUME NEW n \in Submitted, OnStarted(n) PROVE PumpInv'
  <2>1. overlapped' = overlapped
    BY <1>5 DEF OnStarted
  <2> QED
    BY <1>1, <1>5, <2>1, StartedTypes, StartedInTurn DEF PumpInv
<1>6. ASSUME NEW msg \in inbox, OnPart(msg) PROVE PumpInv'
  <2>1. overlapped' = overlapped
    BY <1>6 DEF OnPart
  <2> QED
    BY <1>1, <1>6, <2>1, PartTypes, PartInTurn DEF PumpInv
<1>7. ASSUME NEW msg \in inbox, OnEnd(msg) PROVE PumpInv'
  <2>1. overlapped' = overlapped
    BY <1>7 DEF OnEnd
  <2> QED
    BY <1>1, <1>7, <2>1, EndTypes, EndInTurn DEF PumpInv
<1>8. CASE UNCHANGED pumpVars
  <2>1. PumpTypes'
    BY <1>1, <1>8 DEF PumpTypes, PumpTypeOK, pumpVars
  <2>2. InTurn' = InTurn /\ overlapped' = overlapped
    BY <1>8 DEF pumpVars, InTurn, OneIsRead, Reading, HasPart, HasEnd, NotRead, ShownInOrder, TurnsAreApart, SentToTheSession
  <2> QED
    BY <1>1, <2>1, <2>2 DEF PumpInv
<1> QED
  BY <1>2, <1>3, <1>4, <1>5, <1>6, <1>7, <1>8 DEF PumpNext

LEMMA PumpShows == PumpInv => ChatShowsTheTurn
<1> SUFFICES ASSUME PumpInv PROVE ChatShowsTheTurn
  OBVIOUS
<1>1. PumpTypeOK
  BY DEF PumpInv, PumpTypes
<1> SUFFICES ASSUME ~overlapped, InTurn
             PROVE  /\ Cardinality(inbox) <= 1
                    /\ Quiet /\ submits > 0 => reply[submits] = "ended"
  BY <1>1 DEF PumpInv, ChatShowsTheTurn, InTurn, ShownInOrder, Before, TurnsAreApart, Apart, SentToTheSession
<1>2. inbox = {} \/ \E msg : inbox = {msg}
  <2>1. CASE submits > 0
    <3>1. Reading \/ HasPart \/ HasEnd \/ NotRead
      BY <2>1 DEF InTurn, OneIsRead
    <3>2. CASE Reading
      BY <3>2 DEF Reading
    <3>3. CASE HasPart
      BY <3>3 DEF HasPart
    <3>4. CASE HasEnd
      BY <3>4 DEF HasEnd
    <3>5. CASE NotRead
      BY <3>5 DEF NotRead
    <3> QED
      BY <3>1, <3>2, <3>3, <3>4, <3>5
  <2>2. CASE submits = 0
    BY <2>2 DEF InTurn, OneIsRead
  <2>3. submits > 0 \/ submits = 0
    BY <1>1, PumpAssumption DEF PumpTypeOK
  <2> QED
    BY <2>1, <2>2, <2>3
<1>3. Cardinality(inbox) <= 1
  <2>1. CASE inbox = {}
    <3>1. Cardinality(inbox) = 0
      BY <2>1, FS_EmptySet
    <3> QED
      BY <3>1
  <2>2. ASSUME NEW msg, inbox = {msg} PROVE Cardinality(inbox) <= 1
    <3>1. Cardinality(inbox) = 1
      BY <2>2, FS_Singleton
    <3> QED
      BY <3>1
  <2> QED
    BY <1>2, <2>1, <2>2
<1>4. ASSUME Quiet, submits > 0 PROVE reply[submits] = "ended"
  BY <1>4, QuietIsEnded DEF PumpInv
<1> QED
  BY <1>3, <1>4

(***************************************************************************)
(* The chat window: while no prompt is submitted before the last reply is  *)
(* over, a reply is shown in its order, under its line and in a turn of    *)
(* its own, read by one command at most, and to its end (chat_model.go:    *)
(* 128-271), for any number of prompts and parts.                          *)
(***************************************************************************)
THEOREM TheWindowShowsTheTurn == PumpSpec => []ChatShowsTheTurn
BY PumpInitially, PumpKeeps, PumpShows, PTL DEF PumpSpec

-----------------------------------------------------------------------------

Mails == {"started", "over", "event"} \X (DOMAIN tails) \X Nat

TailTypes ==
    /\ TailsTypeOK
    /\ mail \subseteq Mails
    /\ feed \in Seq([of : Watched, type : Windows \cup {"tool_call"}])
    /\ rawEvents \in Seq(Nat \X Nat)
    /\ typeBuf \in Seq(Nat) /\ answered \in Nat \X Seq(Nat)

\* A tail that Update has not heard of yet has brought nothing.
Fresh(t) == tails[t].state = "opening" \/ <<"started", t, 0>> \in mail
FreshIsNew(t) ==
    Fresh(t) =>
      /\ t \notin reading /\ t # activeTail
      /\ \A e \in Nat : <<"event", t, e>> \notin mail
      /\ Shown(t) = {}
      /\ <<"started", t, 0>> \in mail => tails[t].state = "open" /\ tails[t].from = tails[t].next

\* What a tail has read last, and not what it reads next, is on its way.
OneOnItsWay(t) ==
    /\ tails[t].from <= tails[t].next /\ tails[t].next <= Len(feed) + 1
    /\ tails[t].state # "opening" => tails[t].from > 0
    /\ \A e \in Nat : <<"event", t, e>> \in mail =>
         /\ t \notin reading /\ tails[t].from <= e /\ e = tails[t].next - 1
         /\ feed[e].of = tails[t].of

Alone(t) == \A u \in DOMAIN tails : tails[u].of = tails[t].of => u = t
IsShown(t) ==
    t = activeTail /\ Alone(t) =>
      /\ {rawEvents[i][2] : i \in Shown(t)} = {e \in tails[t].from..tails[t].next - 1 : feed[e].of = tails[t].of} \ InMail(t)
      /\ \A i, j \in Shown(t) : i < j => rawEvents[i][2] < rawEvents[j][2]
      /\ t \in reading \/ InMail(t) # {} \/ tails[t].state = "over"

TypedForIt ==
    /\ \A i \in DOMAIN typeBuf : typeBuf[i] = pending["clarify_requested"]
    /\ \A i \in DOMAIN answered[2] : answered[2][i] = answered[1]

TailsAreTrue == \A t \in DOMAIN tails : FreshIsNew(t) /\ OneOnItsWay(t) /\ IsShown(t)

TailsInv == TailTypes /\ TailsAreTrue /\ TypedForIt

States == {"opening", "open", "cancelled", "over"}
TailRecord == [of : Watched, state : States, from : Nat, next : Nat]

LEMMA ATail ==
    ASSUME TailTypes
    PROVE  /\ tails \in Seq(TailRecord) /\ Len(tails) \in Nat /\ DOMAIN tails = 1..Len(tails)
           /\ feed \in Seq([of : Watched, type : Windows \cup {"tool_call"}]) /\ Len(feed) \in Nat /\ DOMAIN feed = 1..Len(feed)
           /\ rawEvents \in Seq(Nat \X Nat) /\ Len(rawEvents) \in Nat /\ DOMAIN rawEvents = 1..Len(rawEvents)
           /\ \A t \in DOMAIN tails :
                /\ t \in Nat /\ t # 0 /\ tails[t] \in TailRecord
                /\ tails[t].of \in Watched /\ tails[t].state \in States
                /\ tails[t].from \in Nat /\ tails[t].next \in Nat
<1>1. tails \in Seq(TailRecord)
  BY DEF TailTypes, TailsTypeOK, TailRecord, States
<1>2. Len(tails) \in Nat /\ DOMAIN tails = 1..Len(tails)
  BY <1>1
<1>3. ASSUME NEW t \in DOMAIN tails
      PROVE  /\ t \in Nat /\ t # 0 /\ tails[t] \in TailRecord
             /\ tails[t].of \in Watched /\ tails[t].state \in States
             /\ tails[t].from \in Nat /\ tails[t].next \in Nat
  <2>1. tails[t] \in TailRecord
    BY <1>1, <1>2
  <2>2. t \in Nat /\ t # 0
    BY <1>2
  <2> QED
    BY <2>1, <2>2 DEF TailRecord
<1>4. feed \in Seq([of : Watched, type : Windows \cup {"tool_call"}]) /\ rawEvents \in Seq(Nat \X Nat)
  BY DEF TailTypes
<1>5. Len(feed) \in Nat /\ DOMAIN feed = 1..Len(feed)
  BY <1>4
<1>6. Len(rawEvents) \in Nat /\ DOMAIN rawEvents = 1..Len(rawEvents)
  BY <1>4
<1> QED
  BY <1>1, <1>2, <1>3, <1>4, <1>5, <1>6

LEMMA TailsInitially == TailsInit => TailsInv
<1> SUFFICES ASSUME TailsInit PROVE TailsInv
  OBVIOUS
<1> USE DEF TailsInit
<1>1. TailTypes
  <2>1. pending \in [Windows -> 0..Len(feed)]
    <3>1. 0 \in 0..Len(feed)
      OBVIOUS
    <3> QED
      BY <3>1 DEF NoWindow
  <2>2. activeTail \in 0..Len(tails) /\ reading \subseteq DOMAIN tails
    OBVIOUS
  <2>3. answered \in Nat \X Seq(Nat)
    <3>1. <<>> \in Seq(Nat) /\ 0 \in Nat
      OBVIOUS
    <3>2. answered = <<0, <<>>>>
      OBVIOUS
    <3> HIDE DEF TailsInit
    <3> QED
      BY <3>1, <3>2
  <2> QED
    BY <2>1, <2>2, <2>3 DEF TailTypes, TailsTypeOK, Mails
<1>2. TailsAreTrue /\ TypedForIt
  BY DEF TailsAreTrue, TypedForIt
<1> QED
  BY <1>1, <1>2 DEF TailsInv

\* A tail that a step is not about stays as it is.
LEMMA TailStays ==
    ASSUME TailTypes, NEW t \in DOMAIN tails, FreshIsNew(t) /\ OneOnItsWay(t) /\ IsShown(t),
           DOMAIN tails \subseteq DOMAIN tails', \A u \in DOMAIN tails : tails'[u].of = tails[u].of,
           tails'[t] = tails[t], activeTail' = activeTail \/ activeTail' # t, t \in reading' <=> t \in reading,
           \A e \in Nat : \A k \in {"started", "event"} : <<k, t, e>> \in mail' <=> <<k, t, e>> \in mail,
           Shown(t)' = Shown(t), \A i \in Shown(t) : rawEvents'[i] = rawEvents[i], feed' = feed
    PROVE  FreshIsNew(t)' /\ OneOnItsWay(t)' /\ IsShown(t)'
<1>1. t \in Nat /\ t # 0 /\ DOMAIN feed \subseteq Nat
  BY ATail
<1>2. Fresh(t)' <=> Fresh(t)
  BY DEF Fresh
<1>3. FreshIsNew(t)'
  BY <1>2 DEF FreshIsNew
<1>4. OneOnItsWay(t)'
  BY DEF OneOnItsWay
<1>5. InMail(t)' = InMail(t)
  BY <1>1 DEF InMail
<1>6. Alone(t)' => Alone(t)
  BY DEF Alone
<1>7. IsShown(t)'
  <2> SUFFICES ASSUME t = activeTail', Alone(t)'
               PROVE  /\ {rawEvents'[i][2] : i \in Shown(t)'} = {e \in tails'[t].from..tails'[t].next - 1 : feed'[e].of = tails'[t].of} \ InMail(t)'
                      /\ \A i, j \in Shown(t)' : i < j => rawEvents'[i][2] < rawEvents'[j][2]
                      /\ t \in reading' \/ InMail(t)' # {} \/ tails'[t].state = "over"
    BY DEF IsShown
  <2>1. t = activeTail /\ Alone(t)
    BY <1>6
  <2>2. {rawEvents'[i][2] : i \in Shown(t)'} = {rawEvents[i][2] : i \in Shown(t)}
    OBVIOUS
  <2> QED
    BY <1>5, <2>1, <2>2 DEF IsShown
<1> QED
  BY <1>3, <1>4, <1>7

LEMMA CancelledTails ==
    ASSUME TailTypes
    PROVE  /\ Cancelled \in Seq(TailRecord) /\ Len(Cancelled) = Len(tails)
           /\ \A t \in DOMAIN tails :
                /\ Cancelled[t].of = tails[t].of /\ Cancelled[t].from = tails[t].from /\ Cancelled[t].next = tails[t].next
                /\ t # activeTail => Cancelled[t].state = tails[t].state
                /\ t = activeTail => Cancelled[t].state = "cancelled"
<1>1. \A t \in DOMAIN tails : [tails[t] EXCEPT !.state = "cancelled"] \in TailRecord
  BY ATail DEF TailRecord, States
<1>2. \A t \in DOMAIN tails : Cancelled[t] \in TailRecord
  BY <1>1, ATail DEF Cancelled
<1>3. DOMAIN Cancelled = 1..Len(tails) /\ Cancelled = [t \in 1..Len(tails) |-> Cancelled[t]]
  BY ATail DEF Cancelled
<1>4. Cancelled \in Seq(TailRecord) /\ Len(Cancelled) = Len(tails)
  <2>1. PICK n \in Nat : n = Len(tails)
    BY ATail
  <2>2. \A t \in 1..n : Cancelled[t] \in TailRecord
    BY <1>2, <2>1, ATail
  <2>3. [t \in 1..n |-> Cancelled[t]] \in Seq(TailRecord) /\ Len([t \in 1..n |-> Cancelled[t]]) = n
    BY <2>2
  <2> QED
    BY <1>3, <2>1, <2>3
<1>5. \A t \in DOMAIN tails : Cancelled[t] = IF t = activeTail THEN [tails[t] EXCEPT !.state = "cancelled"] ELSE tails[t]
  BY DEF Cancelled
<1>6. \A t \in DOMAIN tails :
         /\ [tails[t] EXCEPT !.state = "cancelled"].of = tails[t].of
         /\ [tails[t] EXCEPT !.state = "cancelled"].from = tails[t].from
         /\ [tails[t] EXCEPT !.state = "cancelled"].next = tails[t].next
         /\ [tails[t] EXCEPT !.state = "cancelled"].state = "cancelled"
  BY ATail DEF TailRecord
<1> QED
  BY <1>4, <1>5, <1>6

LEMMA StartKeeps ==
    ASSUME TailsInv, NEW session \in Watched, StartTailing(session), selected' \in Watched, loading' \in BOOLEAN,
           UNCHANGED <<reading, mail, feed, pending, typeBuf, answered>>
    PROVE  TailsInv'
<1> USE DEF TailsInv
<1>1. PICK fresh \in TailRecord : fresh = [of |-> session, state |-> "opening", from |-> 0, next |-> 0]
  BY DEF TailRecord, States
<1>2. tails' = Append(Cancelled, fresh) /\ activeTail' = 0 /\ rawEvents' = <<>>
  BY <1>1 DEF StartTailing
<1>3. /\ tails' \in Seq(TailRecord) /\ Len(tails') = Len(tails) + 1 /\ tails'[Len(tails) + 1] = fresh
      /\ \A t \in DOMAIN tails : tails'[t] = Cancelled[t]
      /\ DOMAIN tails' = DOMAIN tails \cup {Len(tails) + 1} /\ Len(tails) + 1 \notin DOMAIN tails
  BY <1>2, ATail, CancelledTails
<1>4. TailTypes'
  <2>1. activeTail' \in 0..Len(tails') /\ reading' \subseteq DOMAIN tails' /\ mail' \subseteq Mails'
    <3>1. activeTail' \in 0..Len(tails')
      BY <1>2, <1>3, ATail
    <3> QED
      BY <1>3, <3>1 DEF TailTypes, TailsTypeOK, Mails
  <2>2. rawEvents' \in Seq(Nat \X Nat)
    BY <1>2
  <2>3. tails' \in Seq([of : Watched, state : {"opening", "open", "cancelled", "over"}, from : Nat, next : Nat])
    BY <1>3 DEF TailRecord, States
  <2> QED
    BY <2>1, <2>2, <2>3 DEF TailTypes, TailsTypeOK
<1>5. ASSUME NEW t \in DOMAIN tails' PROVE FreshIsNew(t)' /\ OneOnItsWay(t)' /\ IsShown(t)'
  <2>1. Shown(t)' = {} /\ t # 0
    BY <1>2, <1>3, ATail DEF Shown
  <2>2. IsShown(t)'
    BY <1>2, <2>1 DEF IsShown
  <2>3. CASE t = Len(tails) + 1
    <3>1. t \notin reading /\ \A k \in {"started", "event"}, e \in Nat : <<k, t, e>> \notin mail
      BY <1>3, <2>3 DEF TailTypes, TailsTypeOK, Mails
    <3>2. tails'[t].from = 0 /\ tails'[t].next = 0 /\ 0 <= Len(feed) + 1 /\ tails'[t].state = "opening"
      BY <1>1, <1>3, <2>3, ATail
    <3> QED
      BY <1>2, <2>1, <2>2, <3>1, <3>2 DEF FreshIsNew, OneOnItsWay
  <2>4. CASE t \in DOMAIN tails
    <3>1. /\ tails'[t].of = tails[t].of /\ tails'[t].from = tails[t].from /\ tails'[t].next = tails[t].next
          /\ t # activeTail => tails'[t].state = tails[t].state
          /\ t = activeTail => tails'[t].state = "cancelled"
      BY <1>3, <2>4, CancelledTails
    <3>2. FreshIsNew(t) /\ OneOnItsWay(t)
      BY <2>4 DEF TailsAreTrue
    <3>3. Fresh(t)' => Fresh(t)
      BY <3>1 DEF Fresh
    <3>4. FreshIsNew(t)'
      BY <1>2, <2>1, <3>1, <3>2, <3>3 DEF FreshIsNew
    <3>5. OneOnItsWay(t)'
      <4>1. tails'[t].state # "opening" => tails[t].state # "opening"
        BY <3>1, <3>2 DEF FreshIsNew, Fresh
      <4> QED
        BY <3>1, <3>2, <4>1 DEF OneOnItsWay
    <3> QED
      BY <2>2, <3>4, <3>5
  <2> QED
    BY <1>3, <2>3, <2>4
<1> QED
  BY <1>4, <1>5 DEF TailsAreTrue, TypedForIt

\* One tail changes, and the messages of it.
LEMMA TailTypesChange ==
    ASSUME TailTypes, NEW t \in DOMAIN tails, NEW r \in TailRecord, tails' = [tails EXCEPT ![t] = r],
           mail' \subseteq Mails, reading' \subseteq DOMAIN tails, activeTail' = activeTail,
           UNCHANGED <<selected, loading, feed, rawEvents, pending, typeBuf, answered>>
    PROVE  /\ TailTypes' /\ DOMAIN tails' = DOMAIN tails
           /\ tails'[t] = r /\ \A u \in DOMAIN tails : u # t => tails'[u] = tails[u]
<1>1. tails' \in Seq(TailRecord) /\ Len(tails') = Len(tails) /\ DOMAIN tails' = DOMAIN tails
      /\ tails'[t] = r /\ \A u \in DOMAIN tails : u # t => tails'[u] = tails[u]
  BY ATail
<1>2. tails' \in Seq([of : Watched, state : {"opening", "open", "cancelled", "over"}, from : Nat, next : Nat])
  BY <1>1 DEF TailRecord, States
<1>3. mail' \subseteq Mails' /\ reading' \subseteq DOMAIN tails'
  BY <1>1 DEF Mails
<1> QED
  BY <1>1, <1>2, <1>3 DEF TailTypes, TailsTypeOK

LEMMA OpenKeeps ==
    ASSUME TailsInv, NEW t \in DOMAIN tails, NEW opened \in BOOLEAN, OpenTail(t, opened)
    PROVE  TailsInv'
<1> USE DEF TailsInv
<1>1. PICK here \in Nat : here = Len(feed) + 1
  BY ATail
<1>2. PICK r \in TailRecord :
        r = [of |-> tails[t].of, state |-> IF opened THEN "open" ELSE "over", from |-> here, next |-> here]
  BY ATail DEF TailRecord, States
<1>3. tails[t].state = "opening" /\ tails' = [tails EXCEPT ![t] = r]
      /\ mail' = mail \cup {<<IF opened THEN "started" ELSE "over", t, 0>>}
      /\ UNCHANGED <<selected, loading, activeTail, reading, feed, rawEvents, pending, typeBuf, answered>>
  <2>1. tails[t] = [of |-> tails[t].of, state |-> tails[t].state, from |-> tails[t].from, next |-> tails[t].next]
    BY ATail DEF TailRecord
  <2>2. [tails EXCEPT ![t].state = IF opened THEN "open" ELSE "over", ![t].from = here, ![t].next = here] = [tails EXCEPT ![t] = r]
    <3>1. PICK s : s = IF opened THEN "open" ELSE "over"
      OBVIOUS
    <3>2. PICK one : one = [tails[t] EXCEPT !.state = s]
      OBVIOUS
    <3>3. PICK two : two = [one EXCEPT !.from = here]
      OBVIOUS
    <3>4. PICK x : x = tails[t].of
      OBVIOUS
    <3>5. PICK y, m, n : tails[t] = [of |-> x, state |-> y, from |-> m, next |-> n]
      BY <2>1, <3>4
    <3>6. one = [of |-> x, state |-> s, from |-> m, next |-> n]
      BY <3>2, <3>5
    <3>7. two = [of |-> x, state |-> s, from |-> here, next |-> n]
      BY <3>3, <3>6
    <3>8. [two EXCEPT !.next = here] = [of |-> x, state |-> s, from |-> here, next |-> here]
      BY <3>7
    <3>9. r = [of |-> x, state |-> s, from |-> here, next |-> here]
      BY <1>2, <3>1, <3>4
    <3>10. [tails EXCEPT ![t].state = s, ![t].from = here, ![t].next = here] = [tails EXCEPT ![t] = [two EXCEPT !.next = here]]
      BY <3>2, <3>3, ATail
    <3> QED
      BY <3>1, <3>8, <3>9, <3>10
  <2> QED
    BY <1>1, <2>2 DEF OpenTail
<1>4. Fresh(t) /\ FreshIsNew(t)
  BY <1>3 DEF Fresh, TailsAreTrue
<1>5. t \notin reading /\ t # activeTail /\ Shown(t) = {} /\ <<"started", t, 0>> \notin mail
      /\ \A e \in Nat : <<"event", t, e>> \notin mail
  BY <1>3, <1>4 DEF FreshIsNew
<1>6. mail' \subseteq Mails
  BY <1>3 DEF TailTypes, Mails
<1>7. TailTypes' /\ DOMAIN tails' = DOMAIN tails /\ tails'[t] = r /\ \A u \in DOMAIN tails : u # t => tails'[u] = tails[u]
  BY <1>2, <1>3, <1>6, TailTypesChange DEF TailTypes, TailsTypeOK
<1>8. r.of = tails[t].of /\ r.from = here /\ r.next = here /\ r.state = IF opened THEN "open" ELSE "over"
  BY <1>2
<1>9. Shown(t)' = {} /\ \A u \in DOMAIN tails : Shown(u)' = Shown(u)
  BY <1>3, <1>5 DEF Shown
<1>10. ASSUME NEW u \in DOMAIN tails, u # t PROVE FreshIsNew(u)' /\ OneOnItsWay(u)' /\ IsShown(u)'
  <2>1. FreshIsNew(u) /\ OneOnItsWay(u) /\ IsShown(u)
    BY DEF TailsAreTrue
  <2>2. \A v \in DOMAIN tails : tails'[v].of = tails[v].of
    BY <1>7, <1>8
  <2>3. \A k \in {"started", "event"}, e \in Nat : <<k, u, e>> \in mail' <=> <<k, u, e>> \in mail
    BY <1>3, <1>10
  <2> QED
    BY <1>3, <1>7, <1>9, <1>10, <2>1, <2>2, <2>3, TailStays
<1>11. FreshIsNew(t)' /\ OneOnItsWay(t)' /\ IsShown(t)'
  <2>1. \A e \in Nat : <<"event", t, e>> \notin mail'
    BY <1>3, <1>5
  <2>2. opened \/ <<"started", t, 0>> \notin mail'
    BY <1>3, <1>5
  <2>3. FreshIsNew(t)'
    BY <1>3, <1>5, <1>7, <1>8, <1>9, <2>1, <2>2 DEF FreshIsNew, Fresh
  <2>4. OneOnItsWay(t)'
    BY <1>1, <1>3, <1>7, <1>8, <2>1 DEF OneOnItsWay
  <2>5. IsShown(t)'
    BY <1>3, <1>5 DEF IsShown
  <2> QED
    BY <2>3, <2>4, <2>5
<1>12. TailsAreTrue'
  BY <1>7, <1>10, <1>11 DEF TailsAreTrue
<1> QED
  BY <1>3, <1>7, <1>12 DEF TypedForIt

LEMMA EndKeeps == ASSUME TailsInv, NEW t \in DOMAIN tails, ReadEvent(t, TRUE) PROVE TailsInv'
<1> USE DEF TailsInv
<1>1. PICK r \in TailRecord : r = [tails[t] EXCEPT !.state = "over"]
  BY ATail DEF TailRecord, States
<1>2. t \in reading /\ reading' = reading \ {t} /\ tails' = [tails EXCEPT ![t] = r]
      /\ mail' = mail \cup {<<"over", t, 0>>}
      /\ UNCHANGED <<selected, loading, activeTail, feed, rawEvents, pending, typeBuf, answered>>
  BY <1>1, ATail DEF ReadEvent
<1>3. mail' \subseteq Mails
  BY <1>2 DEF TailTypes, Mails
<1>4. TailTypes' /\ DOMAIN tails' = DOMAIN tails /\ tails'[t] = r /\ \A u \in DOMAIN tails : u # t => tails'[u] = tails[u]
  BY <1>2, <1>3, TailTypesChange DEF TailTypes, TailsTypeOK
<1>5. r.of = tails[t].of /\ r.from = tails[t].from /\ r.next = tails[t].next /\ r.state = "over"
  BY <1>1, ATail DEF TailRecord
<1>6. FreshIsNew(t) /\ OneOnItsWay(t) /\ IsShown(t) /\ ~Fresh(t)
  BY <1>2 DEF TailsAreTrue, FreshIsNew
<1>7. \A u \in DOMAIN tails : Shown(u)' = Shown(u)
  BY <1>2 DEF Shown
<1>8. \A u \in DOMAIN tails : tails'[u].of = tails[u].of
  BY <1>4, <1>5
<1>9. ASSUME NEW u \in DOMAIN tails, u # t PROVE FreshIsNew(u)' /\ OneOnItsWay(u)' /\ IsShown(u)'
  <2>1. FreshIsNew(u) /\ OneOnItsWay(u) /\ IsShown(u)
    BY DEF TailsAreTrue
  <2>2. \A k \in {"started", "event"}, e \in Nat : <<k, u, e>> \in mail' <=> <<k, u, e>> \in mail
    BY <1>2
  <2>3. u \in reading' <=> u \in reading
    BY <1>2, <1>9
  <2> QED
    BY <1>2, <1>4, <1>7, <1>8, <1>9, <2>1, <2>2, <2>3, TailStays
<1>10. FreshIsNew(t)' /\ OneOnItsWay(t)' /\ IsShown(t)'
  <2>1. \A k \in {"started", "event"}, e \in Nat : <<k, t, e>> \in mail' <=> <<k, t, e>> \in mail
    BY <1>2
  <2>2. ~Fresh(t)'
    BY <1>4, <1>5, <1>6, <2>1 DEF Fresh
  <2>3. OneOnItsWay(t)'
    <3>1. tails[t].state # "opening"
      BY <1>6 DEF Fresh
    <3> QED
      BY <1>2, <1>4, <1>5, <1>6, <2>1, <3>1 DEF OneOnItsWay
  <2>4. InMail(t)' = InMail(t) /\ (Alone(t)' => Alone(t))
    <3>1. InMail(t)' = InMail(t)
      BY <1>2, <2>1, ATail DEF InMail
    <3>2. Alone(t)' => Alone(t)
      BY <1>4, <1>8 DEF Alone
    <3> QED
      BY <3>1, <3>2
  <2>5. IsShown(t)'
    BY <1>2, <1>4, <1>5, <1>6, <1>7, <2>4 DEF IsShown
  <2> QED
    BY <2>2, <2>3, <2>5 DEF FreshIsNew
<1>11. TailsAreTrue'
  BY <1>4, <1>9, <1>10 DEF TailsAreTrue
<1> QED
  BY <1>2, <1>4, <1>11 DEF TypedForIt

LEMMA EventKeeps == ASSUME TailsInv, NEW t \in DOMAIN tails, ReadEvent(t, FALSE) PROVE TailsInv'
<1> USE DEF TailsInv
<1>1. PICK e \in Due(t) :
        /\ \A d \in Due(t) : e <= d
        /\ mail' = mail \cup {<<"event", t, e>>} /\ tails' = [tails EXCEPT ![t].next = e + 1]
  BY DEF ReadEvent
<1>2. e \in Nat /\ e \in DOMAIN feed /\ tails[t].next <= e /\ e <= Len(feed) /\ feed[e].of = tails[t].of
      /\ \A d \in tails[t].next..Len(feed) : feed[d].of = tails[t].of => e <= d
  <2>1. FreshIsNew(t) /\ OneOnItsWay(t) /\ t \in reading
    BY DEF TailsAreTrue, ReadEvent
  <2>2. tails[t].from > 0 /\ tails[t].from <= tails[t].next
    BY <2>1 DEF FreshIsNew, Fresh, OneOnItsWay
  <2>3. PICK next \in Nat : next = tails[t].next
    BY ATail
  <2>4. next > 0
    BY <2>2, <2>3, ATail
  <2>5. e \in next..Len(feed) /\ feed[e].of = tails[t].of
    BY <1>1, <2>3 DEF Due
  <2>6. e \in Nat /\ e \in 1..Len(feed) /\ next <= e /\ e <= Len(feed)
    BY <2>4, <2>5, ATail
  <2>7. \A d \in next..Len(feed) : feed[d].of = tails[t].of => e <= d
    BY <1>1, <2>3 DEF Due
  <2> QED
    BY <2>3, <2>5, <2>6, <2>7, ATail
<1>3. PICK r \in TailRecord : r = [tails[t] EXCEPT !.next = e + 1]
  <2>1. e + 1 \in Nat /\ tails[t] \in TailRecord
    BY <1>2, ATail
  <2> QED
    BY <2>1 DEF TailRecord
<1>4. t \in reading /\ reading' = reading \ {t} /\ tails' = [tails EXCEPT ![t] = r]
      /\ UNCHANGED <<selected, loading, activeTail, feed, rawEvents, pending, typeBuf, answered>>
  BY <1>1, <1>3, ATail DEF ReadEvent
<1>5. mail' \subseteq Mails
  BY <1>1, <1>2 DEF TailTypes, Mails
<1>6. TailTypes' /\ DOMAIN tails' = DOMAIN tails /\ tails'[t] = r /\ \A u \in DOMAIN tails : u # t => tails'[u] = tails[u]
  BY <1>4, <1>5, TailTypesChange DEF TailTypes, TailsTypeOK
<1>7. r.of = tails[t].of /\ r.from = tails[t].from /\ r.next = e + 1 /\ r.state = tails[t].state
  BY <1>3, ATail DEF TailRecord
<1>8. FreshIsNew(t) /\ OneOnItsWay(t) /\ IsShown(t) /\ ~Fresh(t)
  BY <1>4 DEF TailsAreTrue, FreshIsNew
<1>9. \A u \in DOMAIN tails : Shown(u)' = Shown(u)
  BY <1>4 DEF Shown
<1>10. \A u \in DOMAIN tails : tails'[u].of = tails[u].of
  BY <1>6, <1>7
<1>11. ASSUME NEW u \in DOMAIN tails, u # t PROVE FreshIsNew(u)' /\ OneOnItsWay(u)' /\ IsShown(u)'
  <2>1. FreshIsNew(u) /\ OneOnItsWay(u) /\ IsShown(u)
    BY DEF TailsAreTrue
  <2>2. \A k \in {"started", "event"}, d \in Nat : <<k, u, d>> \in mail' <=> <<k, u, d>> \in mail
    BY <1>1, <1>11
  <2>3. u \in reading' <=> u \in reading
    BY <1>4, <1>11
  <2> QED
    BY <1>4, <1>6, <1>9, <1>10, <1>11, <2>1, <2>2, <2>3, TailStays
<1>12. \A d \in Nat : <<"event", t, d>> \notin mail
  BY <1>4, <1>8 DEF OneOnItsWay
<1>13. InMail(t) = {} /\ InMail(t)' = {e}
  BY <1>1, <1>2, <1>4, <1>12, ATail DEF InMail
<1>14. FreshIsNew(t)' /\ OneOnItsWay(t)'
  <2>1. ~Fresh(t)'
    BY <1>1, <1>6, <1>7, <1>8 DEF Fresh
  <2>2. tails'[t].from <= tails'[t].next /\ tails'[t].next <= Len(feed) + 1 /\ tails[t].from <= e
    <3>1. tails[t].from <= tails[t].next /\ tails[t].from \in Nat /\ tails[t].next \in Nat
      BY <1>8, ATail DEF OneOnItsWay
    <3>2. tails[t].from <= e /\ tails[t].from <= e + 1 /\ e + 1 <= Len(feed) + 1
      BY <1>2, <3>1, ATail
    <3> QED
      BY <1>6, <1>7, <3>2
  <2>3. \A d \in Nat : <<"event", t, d>> \in mail' => d = e
    BY <1>1, <1>12
  <2>4. e = tails'[t].next - 1 /\ t \notin reading'
    BY <1>2, <1>4, <1>6, <1>7
  <2>5. tails'[t].from > 0
    BY <1>6, <1>7, <1>8 DEF Fresh, OneOnItsWay
  <2>6. OneOnItsWay(t)'
    <3>1. tails'[t].from = tails[t].from /\ tails'[t].of = tails[t].of /\ feed' = feed
      BY <1>4, <1>6, <1>7
    <3> QED
      BY <1>2, <2>2, <2>3, <2>4, <2>5, <3>1 DEF OneOnItsWay
  <2> QED
    BY <2>1, <2>6 DEF FreshIsNew
<1>15. IsShown(t)'
  <2> SUFFICES ASSUME t = activeTail, Alone(t)
               PROVE  /\ {rawEvents[i][2] : i \in Shown(t)} = {d \in tails'[t].from..tails'[t].next - 1 : feed[d].of = tails'[t].of} \ {e}
                      /\ \A i, j \in Shown(t) : i < j => rawEvents[i][2] < rawEvents[j][2]
    <3>1. Alone(t)' => Alone(t)
      BY <1>6, <1>10 DEF Alone
    <3> QED
      BY <1>4, <1>9, <1>13, <3>1 DEF IsShown
  <2>1. PICK from \in Nat : from = tails[t].from
    BY ATail
  <2>2. PICK next \in Nat : next = tails[t].next
    BY ATail
  <2>3. from <= next /\ next <= e
    BY <1>2, <1>8, <2>1, <2>2 DEF OneOnItsWay
  <2>4. {d \in from..e : feed[d].of = tails[t].of} \ {e} = {d \in from..next - 1 : feed[d].of = tails[t].of}
    <3>1. ASSUME NEW d \in from..e, feed[d].of = tails[t].of, d # e PROVE d \in from..next - 1
      <4>1. d \in next..Len(feed) => e <= d
        BY <1>2, <2>2, <3>1
      <4> QED
        BY <1>2, <2>3, <3>1, <4>1, ATail
    <3>2. \A d \in from..next - 1 : d \in from..e /\ d # e
      BY <1>2, <2>3
    <3> QED
      BY <3>1, <3>2
  <2>5. tails'[t].from = from /\ tails'[t].next - 1 = e /\ tails'[t].of = tails[t].of
    BY <1>2, <1>6, <1>7, <2>1
  <2> QED
    BY <1>8, <1>13, <2>1, <2>2, <2>4, <2>5 DEF IsShown
<1>16. TailsAreTrue'
  BY <1>6, <1>11, <1>14, <1>15 DEF TailsAreTrue
<1> QED
  BY <1>4, <1>6, <1>16 DEF TypedForIt

LEMMA HearKeeps == ASSUME TailsInv, NEW t \in DOMAIN tails, OnTailStarted(t) PROVE TailsInv'
<1> USE DEF TailsInv
<1>1. <<"started", t, 0>> \in mail /\ mail' = mail \ {<<"started", t, 0>>}
      /\ activeTail' = t /\ reading' = reading \cup {t}
      /\ UNCHANGED <<selected, loading, tails, feed, rawEvents, pending, typeBuf, answered>>
  BY DEF OnTailStarted, Taken
<1>2. Fresh(t) /\ FreshIsNew(t) /\ OneOnItsWay(t)
  BY <1>1 DEF Fresh, TailsAreTrue
<1>3. tails[t].state = "open" /\ tails[t].from = tails[t].next /\ Shown(t) = {} /\ \A e \in Nat : <<"event", t, e>> \notin mail
  BY <1>1, <1>2 DEF FreshIsNew
<1>4. \A u \in DOMAIN tails : Shown(u)' = Shown(u)
  BY <1>1 DEF Shown
<1>5. ASSUME NEW u \in DOMAIN tails, u # t PROVE FreshIsNew(u)' /\ OneOnItsWay(u)' /\ IsShown(u)'
  <2>1. FreshIsNew(u) /\ OneOnItsWay(u) /\ IsShown(u)
    BY DEF TailsAreTrue
  <2>2. \A k \in {"started", "event"}, e \in Nat : <<k, u, e>> \in mail' <=> <<k, u, e>> \in mail
    BY <1>1, <1>5
  <2>3. (u \in reading' <=> u \in reading) /\ activeTail' # u
    BY <1>1, <1>5
  <2> QED
    BY <1>1, <1>4, <2>1, <2>2, <2>3, TailStays
<1>6. FreshIsNew(t)' /\ OneOnItsWay(t)' /\ IsShown(t)'
  <2>1. ~Fresh(t)' /\ \A e \in Nat : <<"event", t, e>> \notin mail'
    BY <1>1, <1>3 DEF Fresh
  <2>2. OneOnItsWay(t)'
    BY <1>1, <1>2, <2>1 DEF OneOnItsWay
  <2>3. InMail(t)' = {} /\ tails[t].from..tails[t].next - 1 = {}
    <3>1. InMail(t)' = {}
      BY <1>1, <2>1, ATail DEF InMail
    <3> QED
      BY <1>3, <3>1, ATail
  <2>4. IsShown(t)'
    BY <1>1, <1>3, <1>4, <2>3 DEF IsShown
  <2> QED
    BY <2>1, <2>2, <2>4 DEF FreshIsNew
<1>7. TailTypes'
  <2>1. activeTail' \in 0..Len(tails')
    BY <1>1, ATail
  <2> QED
    BY <1>1, <2>1 DEF TailTypes, TailsTypeOK, Mails
<1> QED
  BY <1>1, <1>5, <1>6, <1>7 DEF TailsAreTrue, TypedForIt

LEMMA ShowKeeps == ASSUME TailsInv, NEW t \in DOMAIN tails, NEW e \in DOMAIN feed, OnTailEvent(t, e) PROVE TailsInv'
<1> USE DEF TailsInv
<1>1. /\ <<"event", t, e>> \in mail /\ mail' = mail \ {<<"event", t, e>>}
      /\ rawEvents' = Append(rawEvents, <<t, e>>) /\ reading' = reading \cup {t}
      /\ pending' = [w \in Windows |-> IF feed[e].type = w THEN e ELSE pending[w]]
      /\ typeBuf' = (IF feed[e].type = "clarify_requested" THEN <<>> ELSE typeBuf)
      /\ UNCHANGED <<selected, loading, tails, activeTail, feed, answered>>
  BY DEF OnTailEvent, Taken
<1>2. e \in Nat /\ e \in 0..Len(feed) /\ t \in Nat
  BY ATail
<1>3. FreshIsNew(t) /\ OneOnItsWay(t) /\ IsShown(t)
  BY DEF TailsAreTrue
<1>4. ~Fresh(t) /\ t \notin reading /\ tails[t].from <= e /\ e = tails[t].next - 1 /\ feed[e].of = tails[t].of
      /\ \A d \in Nat : <<"event", t, d>> \in mail => d = e
  BY <1>1, <1>2, <1>3 DEF FreshIsNew, OneOnItsWay
<1>5. /\ Len(rawEvents') = Len(rawEvents) + 1 /\ rawEvents'[Len(rawEvents) + 1] = <<t, e>> /\ rawEvents' \in Seq(Nat \X Nat)
      /\ DOMAIN rawEvents' = DOMAIN rawEvents \cup {Len(rawEvents) + 1} /\ Len(rawEvents) + 1 \notin DOMAIN rawEvents
      /\ \A i \in DOMAIN rawEvents : rawEvents'[i] = rawEvents[i]
  <2>1. PICK entry \in Nat \X Nat : entry = <<t, e>>
    BY <1>2
  <2> QED
    BY <1>1, <2>1, ATail
<1>6. Shown(t)' = Shown(t) \cup {Len(rawEvents) + 1} /\ \A u \in DOMAIN tails : u # t => Shown(u)' = Shown(u)
  BY <1>5 DEF Shown
<1>7. ASSUME NEW u \in DOMAIN tails, u # t PROVE FreshIsNew(u)' /\ OneOnItsWay(u)' /\ IsShown(u)'
  <2>1. FreshIsNew(u) /\ OneOnItsWay(u) /\ IsShown(u)
    BY DEF TailsAreTrue
  <2>2. \A k \in {"started", "event"}, d \in Nat : <<k, u, d>> \in mail' <=> <<k, u, d>> \in mail
    BY <1>1, <1>7
  <2>3. (u \in reading' <=> u \in reading) /\ \A i \in Shown(u) : rawEvents'[i] = rawEvents[i]
    BY <1>1, <1>5, <1>7 DEF Shown
  <2> QED
    BY <1>1, <1>6, <1>7, <2>1, <2>2, <2>3, TailStays
<1>8. \A d \in Nat : <<"event", t, d>> \notin mail'
  BY <1>1, <1>4
<1>9. FreshIsNew(t)' /\ OneOnItsWay(t)'
  <2>1. ~Fresh(t)'
    BY <1>1, <1>4 DEF Fresh
  <2> QED
    BY <1>1, <1>3, <1>8, <2>1 DEF FreshIsNew, OneOnItsWay
<1>10. InMail(t)' = {} /\ InMail(t) = {e}
  <2>1. \A d \in DOMAIN feed : d \in Nat
    BY ATail
  <2>2. feed' = feed
    BY <1>1
  <2>3. InMail(t)' = {}
    BY <1>8, <2>1, <2>2 DEF InMail
  <2>4. InMail(t) = {e}
    BY <1>1, <1>4, <2>1 DEF InMail
  <2> QED
    BY <2>3, <2>4
<1>11. IsShown(t)'
  <2> SUFFICES ASSUME t = activeTail, Alone(t)
               PROVE  /\ {rawEvents'[i][2] : i \in Shown(t)'} = {d \in tails[t].from..tails[t].next - 1 : feed[d].of = tails[t].of}
                      /\ \A i, j \in Shown(t)' : i < j => rawEvents'[i][2] < rawEvents'[j][2]
    <3>1. Alone(t)' = Alone(t) /\ t \in reading'
      BY <1>1 DEF Alone
    <3> QED
      BY <1>1, <1>10, <3>1 DEF IsShown
  <2>1. PICK events : events = {d \in tails[t].from..tails[t].next - 1 : feed[d].of = tails[t].of}
    OBVIOUS
  <2>2. {rawEvents[i][2] : i \in Shown(t)} = events \ {e} /\ \A i, j \in Shown(t) : i < j => rawEvents[i][2] < rawEvents[j][2]
    BY <1>3, <1>10, <2>1 DEF IsShown
  <2>3. e \in events
    BY <1>2, <1>4, <2>1, ATail
  <2>4. PICK last \in Nat : last = Len(rawEvents) + 1
    BY ATail
  <2>5. rawEvents'[last][2] = e /\ last \notin Shown(t) /\ \A i \in Shown(t) : rawEvents'[i] = rawEvents[i]
    BY <1>5, <2>4 DEF Shown
  <2>6. {rawEvents'[i][2] : i \in Shown(t) \cup {last}} = (events \ {e}) \cup {e}
    <3>1. {rawEvents'[i][2] : i \in Shown(t) \cup {last}} = {rawEvents[i][2] : i \in Shown(t)} \cup {e}
      BY <2>5
    <3> QED
      BY <2>2, <3>1
  <2>7. ASSUME NEW i \in Shown(t) \cup {last}, NEW j \in Shown(t) \cup {last}, i < j PROVE rawEvents'[i][2] < rawEvents'[j][2]
    <3>1. \A k \in Shown(t) : k \in Nat /\ k < last
      BY <2>4, ATail DEF Shown
    <3>2. i \in Shown(t)
      BY <2>4, <2>7, <3>1
    <3>3. CASE j \in Shown(t)
      BY <2>2, <2>5, <2>7, <3>2, <3>3
    <3>4. CASE j = last
      <4>1. rawEvents[i][2] \in events \ {e}
        BY <2>2, <3>2
      <4>2. rawEvents[i][2] < e
        BY <1>2, <1>4, <2>1, <4>1, ATail, SMTT(30)
      <4> QED
        BY <2>5, <3>2, <3>4, <4>2
    <3> QED
      BY <3>3, <3>4
  <2> QED
    BY <1>6, <2>1, <2>3, <2>4, <2>6, <2>7
<1>12. TailTypes'
  <2>1. pending' \in [Windows -> 0..Len(feed)]
    BY <1>1, <1>2 DEF TailTypes, TailsTypeOK
  <2>2. typeBuf' \in Seq(Nat)
    BY <1>1 DEF TailTypes
  <2> QED
    BY <1>1, <1>5, <2>1, <2>2 DEF TailTypes, TailsTypeOK, Mails
<1>13. TypedForIt'
  <2>1. feed[e].type # "clarify_requested" => pending'["clarify_requested"] = pending["clarify_requested"]
    BY <1>1 DEF Windows
  <2> QED
    BY <1>1, <2>1 DEF TypedForIt
<1> QED
  BY <1>1, <1>7, <1>9, <1>11, <1>12, <1>13 DEF TailsAreTrue

LEMMA DropKeeps == ASSUME TailsInv, NEW t \in DOMAIN tails, NEW e \in DOMAIN feed, DropTailEvent(t, e) PROVE TailsInv'
<1> USE DEF TailsInv
<1>1. <<"event", t, e>> \in mail /\ mail' = mail \ {<<"event", t, e>>} /\ ~OfActive(t)
      /\ UNCHANGED <<selected, loading, tails, activeTail, reading, feed, rawEvents, pending, typeBuf, answered>>
  BY DEF DropTailEvent, Taken
<1>2. t # activeTail
  BY <1>1, ATail DEF OfActive
<1>3. ASSUME NEW u \in DOMAIN tails PROVE FreshIsNew(u)' /\ OneOnItsWay(u)' /\ IsShown(u)'
  <2>1. FreshIsNew(u) /\ OneOnItsWay(u) /\ IsShown(u) /\ Shown(u)' = Shown(u)
    BY <1>1 DEF TailsAreTrue, Shown
  <2>2. CASE u = t
    <3>1. Fresh(u)' => Fresh(u)
      BY <1>1 DEF Fresh
    <3> QED
      BY <1>1, <1>2, <2>1, <2>2, <3>1 DEF FreshIsNew, OneOnItsWay, IsShown
  <2>3. CASE u # t
    <3>1. \A k \in {"started", "event"}, d \in Nat : <<k, u, d>> \in mail' <=> <<k, u, d>> \in mail
      BY <1>1, <2>3
    <3> QED
      BY <1>1, <2>1, <3>1, TailStays
  <2> QED
    BY <2>2, <2>3
<1>4. TailTypes'
  BY <1>1 DEF TailTypes, TailsTypeOK, Mails
<1> QED
  BY <1>1, <1>3, <1>4 DEF TailsAreTrue, TypedForIt

LEMMA OverKeeps == ASSUME TailsInv, NEW t \in DOMAIN tails, OnTailOver(t) PROVE TailsInv'
<1> USE DEF TailsInv
<1>1. mail' = mail \ {<<"over", t, 0>>} /\ activeTail' \in {activeTail, 0}
      /\ UNCHANGED <<selected, loading, tails, reading, feed, rawEvents, pending, typeBuf, answered>>
  BY DEF OnTailOver, Taken
<1>2. ASSUME NEW u \in DOMAIN tails PROVE FreshIsNew(u)' /\ OneOnItsWay(u)' /\ IsShown(u)'
  <2>1. FreshIsNew(u) /\ OneOnItsWay(u) /\ IsShown(u) /\ Shown(u)' = Shown(u)
    BY <1>1 DEF TailsAreTrue, Shown
  <2>2. \A k \in {"started", "event"}, d \in Nat : <<k, u, d>> \in mail' <=> <<k, u, d>> \in mail
    BY <1>1
  <2>3. activeTail' = activeTail \/ activeTail' # u
    BY <1>1, ATail
  <2> QED
    BY <1>1, <2>1, <2>2, <2>3, TailStays
<1>3. TailTypes'
  <2>1. activeTail' \in 0..Len(tails)
    BY <1>1, ATail, SMTT(30) DEF TailTypes, TailsTypeOK
  <2> QED
    BY <1>1, <2>1 DEF TailTypes, TailsTypeOK, Mails
<1> QED
  BY <1>1, <1>2, <1>3 DEF TailsAreTrue, TypedForIt

LEMMA FeedKeeps ==
    ASSUME TailsInv, NEW session \in Watched, NEW type \in Windows \cup {"tool_call"}, Feed(session, type)
    PROVE  TailsInv'
<1> USE DEF TailsInv
<1>1. PICK new \in [of : Watched, type : Windows \cup {"tool_call"}] : new = [of |-> session, type |-> type]
  OBVIOUS
<1>2. feed' = Append(feed, new)
      /\ UNCHANGED <<selected, loading, tails, activeTail, reading, mail, rawEvents, pending, typeBuf, answered>>
  BY <1>1 DEF Feed
<1>3. feed' \in Seq([of : Watched, type : Windows \cup {"tool_call"}]) /\ Len(feed') = Len(feed) + 1
      /\ DOMAIN feed' = DOMAIN feed \cup {Len(feed) + 1} /\ \A e \in DOMAIN feed : feed'[e] = feed[e]
  BY <1>2, ATail
<1>4. ASSUME NEW t \in DOMAIN tails PROVE FreshIsNew(t)' /\ OneOnItsWay(t)' /\ IsShown(t)'
  <2>1. FreshIsNew(t) /\ OneOnItsWay(t) /\ IsShown(t) /\ Shown(t)' = Shown(t)
    BY <1>2 DEF TailsAreTrue, Shown
  <2>2. FreshIsNew(t)'
    BY <1>2, <2>1 DEF FreshIsNew, Fresh
  <2>3. ASSUME NEW e \in Nat, <<"event", t, e>> \in mail PROVE e \in DOMAIN feed
    <3>1. e = tails[t].next - 1 /\ tails[t].next <= Len(feed) + 1 /\ tails[t].from <= e
      BY <2>1, <2>3 DEF OneOnItsWay
    <3>2. ~Fresh(t)
      BY <2>1, <2>3 DEF FreshIsNew
    <3>3. tails[t].from > 0
      BY <2>1, <3>2 DEF OneOnItsWay, Fresh
    <3>4. PICK from \in Nat : from = tails[t].from
      BY ATail
    <3>5. PICK next \in Nat : next = tails[t].next
      BY ATail
    <3>6. PICK n \in Nat : n = Len(feed)
      BY ATail
    <3>7. e \in 1..n
      BY <3>1, <3>3, <3>4, <3>5, <3>6
    <3> QED
      BY <3>6, <3>7, ATail
  <2>4. OneOnItsWay(t)'
    <3>1. tails[t].from <= tails[t].next /\ tails[t].next <= Len(feed') + 1
      <4>1. PICK next \in Nat : next = tails[t].next
        BY ATail
      <4>2. PICK n \in Nat : n = Len(feed)
        BY ATail
      <4>3. next <= n + 1 /\ tails[t].from <= tails[t].next
        BY <2>1, <4>1, <4>2 DEF OneOnItsWay
      <4>4. next <= n + 1 + 1
        BY <4>3
      <4> QED
        BY <1>3, <4>1, <4>2, <4>3, <4>4
    <3>2. \A e \in Nat : <<"event", t, e>> \in mail => feed'[e] = feed[e]
      BY <1>3, <2>3
    <3> QED
      BY <1>2, <2>1, <3>1, <3>2 DEF OneOnItsWay
  <2>5. InMail(t)' = InMail(t)
    BY <1>2, <1>3, <2>3, ATail DEF InMail
  <2>6. ASSUME t = activeTail, Alone(t)
        PROVE  {e \in tails[t].from..tails[t].next - 1 : feed'[e].of = tails[t].of}
                 = {e \in tails[t].from..tails[t].next - 1 : feed[e].of = tails[t].of}
    <3>1. tails[t].state # "opening"
      BY <2>1, <2>6 DEF FreshIsNew, Fresh
    <3>2. PICK from \in Nat : from = tails[t].from
      BY ATail
    <3>3. PICK next \in Nat : next = tails[t].next
      BY ATail
    <3>4. PICK n \in Nat : n = Len(feed)
      BY ATail
    <3>5. from > 0 /\ next <= n + 1
      BY <2>1, <3>1, <3>2, <3>3, <3>4 DEF OneOnItsWay
    <3>6. \A e \in from..next - 1 : e \in 1..n
      BY <3>5
    <3>7. \A e \in from..next - 1 : feed'[e] = feed[e]
      BY <1>3, <3>4, <3>6, ATail
    <3> QED
      BY <3>2, <3>3, <3>7
  <2>7. IsShown(t)'
    <3>1. Alone(t)' <=> Alone(t)
      BY <1>2 DEF Alone
    <3>2. CASE ~(t = activeTail /\ Alone(t))
      BY <1>2, <3>1, <3>2 DEF IsShown
    <3>3. CASE t = activeTail /\ Alone(t)
      <4>1. {rawEvents'[i][2] : i \in Shown(t)'} = {e \in tails'[t].from..tails'[t].next - 1 : feed'[e].of = tails'[t].of} \ InMail(t)'
        <5>1. {rawEvents'[i][2] : i \in Shown(t)'} = {rawEvents[i][2] : i \in Shown(t)}
          BY <1>2, <2>1
        <5>2. {rawEvents[i][2] : i \in Shown(t)} = {e \in tails[t].from..tails[t].next - 1 : feed[e].of = tails[t].of} \ InMail(t)
          BY <2>1, <3>3 DEF IsShown
        <5>3. tails' = tails
          BY <1>2
        <5> QED
          BY <2>5, <2>6, <3>3, <5>1, <5>2, <5>3
      <4>2. \A i, j \in Shown(t)' : i < j => rawEvents'[i][2] < rawEvents'[j][2]
        BY <1>2, <2>1, <3>3 DEF IsShown
      <4>3. t \in reading' \/ InMail(t)' # {} \/ tails'[t].state = "over"
        BY <1>2, <2>1, <2>5, <3>3 DEF IsShown
      <4> QED
        BY <4>1, <4>2, <4>3 DEF IsShown
    <3> QED
      BY <3>2, <3>3
  <2> QED
    BY <2>2, <2>4, <2>7
<1>5. TailTypes'
  <2>1. pending' \in [Windows -> 0..Len(feed')]
    <3>1. PICK n \in Nat : n = Len(feed)
      BY ATail
    <3>2. 0..n \subseteq 0..n + 1
      OBVIOUS
    <3>3. pending \in [Windows -> 0..n]
      BY <3>1 DEF TailTypes, TailsTypeOK
    <3>4. pending \in [Windows -> 0..n + 1]
      BY <3>2, <3>3
    <3> QED
      BY <1>2, <1>3, <3>1, <3>4
  <2> QED
    BY <1>2, <1>3, <2>1 DEF TailTypes, TailsTypeOK, Mails
<1> QED
  BY <1>2, <1>4, <1>5 DEF TailsAreTrue, TypedForIt

\* What speaks of tails and panes stays with them.
LEMMA TailsStay ==
    ASSUME TailsAreTrue, UNCHANGED <<tails, activeTail, reading, mail, feed, rawEvents>>
    PROVE  TailsAreTrue'
<1> SUFFICES ASSUME NEW t \in DOMAIN tails PROVE FreshIsNew(t)' /\ OneOnItsWay(t)' /\ IsShown(t)'
  BY DEF TailsAreTrue
<1>1. FreshIsNew(t) /\ OneOnItsWay(t) /\ IsShown(t)
  BY DEF TailsAreTrue
<1>2. Shown(t)' = Shown(t) /\ InMail(t)' = InMail(t) /\ (Alone(t)' <=> Alone(t)) /\ (Fresh(t)' <=> Fresh(t))
  BY DEF Shown, InMail, Alone, Fresh
<1>3. FreshIsNew(t)'
  BY <1>1, <1>2 DEF FreshIsNew
<1>4. OneOnItsWay(t)'
  BY <1>1 DEF OneOnItsWay
<1>5. {rawEvents'[i][2] : i \in Shown(t)'} = {rawEvents[i][2] : i \in Shown(t)}
  BY <1>2
<1>6. IsShown(t)'
  BY <1>1, <1>2, <1>5 DEF IsShown
<1> QED
  BY <1>3, <1>4, <1>6

\* The keys of the windows touch neither tails nor panes.
LEMMA KeysKeep ==
    ASSUME TailsInv, TypeKey \/ EraseKeys \/ AnswerAsk \/ \E sends \in BOOLEAN : CloseClarify(sends)
    PROVE  TailsInv'
<1> USE DEF TailsInv
<1>1. UNCHANGED <<selected, loading, tails, activeTail, reading, mail, feed, rawEvents>>
  BY DEF TypeKey, EraseKeys, AnswerAsk, CloseClarify
<1>2. TailsAreTrue'
  BY <1>1, TailsStay
<1>3. PICK question : question = pending["clarify_requested"]
  OBVIOUS
<1>4. question \in Nat /\ pending \in [Windows -> 0..Len(feed)] /\ typeBuf \in Seq(Nat) /\ answered \in Nat \X Seq(Nat)
  <2>1. pending \in [Windows -> 0..Len(feed)] /\ typeBuf \in Seq(Nat) /\ answered \in Nat \X Seq(Nat)
    BY DEF TailTypes, TailsTypeOK
  <2>2. question \in 0..Len(feed)
    BY <1>3, <2>1 DEF Windows
  <2> QED
    BY <2>1, <2>2, ATail
<1>5. /\ pending' \in [Windows -> 0..Len(feed)] /\ typeBuf' \in Seq(Nat) /\ answered' \in Nat \X Seq(Nat)
      /\ TypedForIt'
  <2>1. CASE TypeKey
    <3>1. typeBuf' = Append(typeBuf, question) /\ UNCHANGED <<pending, answered>>
      BY <1>3, <2>1 DEF TypeKey
    <3>2. typeBuf' \in Seq(Nat) /\ \A i \in DOMAIN typeBuf' : typeBuf'[i] = question
      BY <1>3, <1>4, <3>1 DEF TypedForIt
    <3> QED
      BY <1>3, <1>4, <3>1, <3>2 DEF TypedForIt
  <2>2. CASE EraseKeys
    <3>1. typeBuf' = <<>> /\ UNCHANGED <<pending, answered>>
      BY <2>2 DEF EraseKeys
    <3> QED
      BY <1>4, <3>1 DEF TypedForIt
  <2>3. CASE AnswerAsk
    <3>1. UNCHANGED <<typeBuf, answered>> /\ pending' = [pending EXCEPT !["permission_ask"] = 0]
      BY <2>3 DEF AnswerAsk
    <3>2. pending' \in [Windows -> 0..Len(feed)] /\ pending'["clarify_requested"] = pending["clarify_requested"]
      <4>1. 0 \in 0..Len(feed)
        BY ATail
      <4> QED
        BY <1>4, <3>1, <4>1 DEF Windows
    <3> QED
      BY <1>4, <3>1, <3>2 DEF TypedForIt
  <2>4. ASSUME NEW sends \in BOOLEAN, CloseClarify(sends)
        PROVE  /\ pending' \in [Windows -> 0..Len(feed)] /\ typeBuf' \in Seq(Nat) /\ answered' \in Nat \X Seq(Nat)
               /\ TypedForIt'
    <3>1. typeBuf' = <<>> /\ pending' = [pending EXCEPT !["clarify_requested"] = 0]
          /\ answered' = IF sends THEN <<question, typeBuf>> ELSE answered
      BY <1>3, <2>4 DEF CloseClarify
    <3>2. pending' \in [Windows -> 0..Len(feed)]
      <4>1. 0 \in 0..Len(feed)
        BY ATail
      <4> QED
        BY <1>4, <3>1, <4>1
    <3>3. answered' \in Nat \X Seq(Nat) /\ \A i \in DOMAIN answered'[2] : answered'[2][i] = answered'[1]
      <4>1. CASE sends
        <5>1. answered' = <<question, typeBuf>> /\ answered'[1] = question /\ answered'[2] = typeBuf
          BY <3>1, <4>1
        <5> QED
          BY <1>3, <1>4, <5>1 DEF TypedForIt
      <4>2. CASE ~sends
        BY <1>4, <3>1, <4>2 DEF TypedForIt
      <4> QED
        BY <4>1, <4>2
    <3> QED
      BY <3>1, <3>2, <3>3 DEF TypedForIt
  <2> QED
    BY <2>1, <2>2, <2>3, <2>4
<1>6. TailTypes'
  BY <1>1, <1>5 DEF TailTypes, TailsTypeOK, Mails
<1> QED
  BY <1>2, <1>5, <1>6

LEMMA TailsKeep == TailsInv /\ [TailsNext]_tailVars => TailsInv'
<1> SUFFICES ASSUME TailsInv, [TailsNext]_tailVars PROVE TailsInv'
  OBVIOUS
<1>1. ASSUME NEW session \in Watched, OnLoaded(session) \/ Move(session) PROVE TailsInv'
  <2>1. CASE OnLoaded(session)
    <3>1. StartTailing(session) /\ selected' = session /\ loading' = FALSE
          /\ UNCHANGED <<reading, mail, feed, pending, typeBuf, answered>>
      BY <2>1 DEF OnLoaded
    <3> QED
      BY <3>1, StartKeeps
  <2>2. CASE Move(session)
    <3>1. StartTailing(session) /\ selected' = session /\ loading' = loading
          /\ UNCHANGED <<reading, mail, feed, pending, typeBuf, answered>>
      BY <2>2 DEF Move
    <3>2. loading' \in BOOLEAN
      BY <3>1 DEF TailsInv, TailTypes, TailsTypeOK
    <3> QED
      BY <3>1, <3>2, StartKeeps
  <2> QED
    BY <1>1, <2>1, <2>2
<1>2. ASSUME Refresh PROVE TailsInv'
  <2>1. StartTailing(selected) /\ selected' = selected /\ loading' = TRUE /\ selected # NoSession
        /\ UNCHANGED <<reading, mail, feed, pending, typeBuf, answered>>
    BY <1>2 DEF Refresh, NoWindowOpen
  <2>2. selected \in Watched
    BY <2>1 DEF TailsInv, TailTypes, TailsTypeOK
  <2> QED
    BY <2>1, <2>2, StartKeeps
<1>3. ASSUME LoadFails \/ UNCHANGED tailVars PROVE TailsInv'
  <2>1. loading' \in BOOLEAN /\ UNCHANGED <<selected, tails, activeTail, reading, mail, feed, rawEvents, pending, typeBuf, answered>>
    BY <1>3 DEF LoadFails, tailVars, TailsInv, TailTypes, TailsTypeOK
  <2>2. TailTypes'
    BY <2>1 DEF TailsInv, TailTypes, TailsTypeOK, Mails
  <2>3. TailsAreTrue'
    BY <2>1, TailsStay DEF TailsInv
  <2> QED
    BY <2>1, <2>2, <2>3 DEF TailsInv, TypedForIt
<1>4. ASSUME NEW t \in DOMAIN tails, OnTailStarted(t) \/ OnTailOver(t) PROVE TailsInv'
  BY <1>4, HearKeeps, OverKeeps
<1>5. ASSUME NEW t \in DOMAIN tails, NEW yes \in BOOLEAN, OpenTail(t, yes) \/ ReadEvent(t, yes) PROVE TailsInv'
  <2>1. yes = TRUE \/ yes = FALSE
    OBVIOUS
  <2> QED
    BY <1>5, <2>1, OpenKeeps, EndKeeps, EventKeeps
<1>6. ASSUME NEW t \in DOMAIN tails, NEW e \in DOMAIN feed, OnTailEvent(t, e) \/ DropTailEvent(t, e) PROVE TailsInv'
  BY <1>6, ShowKeeps, DropKeeps
<1>7. ASSUME NEW session \in Watched, NEW type \in Windows \cup {"tool_call"}, Feed(session, type) PROVE TailsInv'
  BY <1>7, FeedKeeps
<1> QED
  BY <1>1, <1>2, <1>3, <1>4, <1>5, <1>6, <1>7, KeysKeep DEF TailsNext

LEMMA TailsShow == TailsInv => ScreenIsTrue
BY DEF TailsInv, TailTypes, TailsAreTrue, IsShown, Alone, TypedForIt, ScreenIsTrue

(***************************************************************************)
(* The dashboard: the active tail of a session that has no other is read   *)
(* on, what it has read is in the panes, whole and in order, and an answer *)
(* was typed for the question it is sent to (update.go:19-97, 230-284),    *)
(* for any number of sessions, tails and events.                           *)
(***************************************************************************)
THEOREM TheDashboardIsTrue == TailsSpec => []ScreenIsTrue
BY TailsInitially, TailsKeep, TailsShow, PTL DEF TailsSpec

(***************************************************************************)
(* The three together, as the run checks them.                             *)
(***************************************************************************)
THEOREM TheClientsShowWhatTheyRead == ClientsSpec => []ClientsShowWhatTheyRead
<1>1. ClientsInit => ReplInv /\ PumpInv /\ TailsInv
  BY ReplInitially, PumpInitially, TailsInitially DEF ClientsInit
<1>2. [ClientsNext]_clientsVars => [ReplNext]_replVars /\ [PumpNext]_pumpVars /\ [TailsNext]_tailVars
  BY DEF ClientsNext, clientsVars
<1>3. ReplInv /\ PumpInv /\ TailsInv /\ [ClientsNext]_clientsVars => (ReplInv /\ PumpInv /\ TailsInv)'
  BY <1>2, ReplKeeps, PumpKeeps, TailsKeep
<1>4. ReplInv /\ PumpInv /\ TailsInv => ClientsShowWhatTheyRead
  BY ReplShows, PumpShows, TailsShow DEF ClientsShowWhatTheyRead
<1> QED
  BY <1>1, <1>3, <1>4, PTL DEF ClientsSpec

-----------------------------------------------------------------------------
(***************************************************************************)
(* The log.                                                                *)
(***************************************************************************)
LinePieces == Nat \X {"head", "tail", "newline"}
Logged == 1..Len(questions)

LogTypes ==
    /\ LogTypeOK
    /\ queue \in [LogRuns -> Seq(Logged)]
    /\ buffer \in [LogRuns -> Seq(LinePieces)]

\* A run that has not begun, or is over, has nothing to write.
Resting ==
    /\ \A r \in LogRuns : logStage[r] \in {"new", "over"} => queue[r] = <<>> /\ pen[r] # "question"
    /\ \A r \in LogRuns : logStage[r] = "new" => r \notin jammed /\ buffer[r] = <<>> /\ pen[r] = "idle"
    /\ \A r \in LogRuns : logStage[r] = "left" => r \in jammed

\* What a run holds back is the rest of what was written, and nothing at all
\* behind a Sync; what was promised is in the file.
LogIsKept ==
    /\ file \in Seq(LinePieces) /\ due \in Seq(Logged) /\ promised \in Seq(Logged)
    /\ \A r \in Active :
         /\ r \notin jammed /\ Active = {r}
         /\ file \o buffer[r] = Lines(due)
         /\ pen[r] = "synced" => buffer[r] = <<>>
    /\ Active = {} => file = Lines(due)
    /\ Len(promised) <= Len(due) /\ \A i \in 1..Len(promised) : promised[i] = due[i]
    /\ 3 * Len(promised) <= Len(file)

LogInv == LogTypes /\ Resting /\ (~spoiled => LogIsKept)

-----------------------------------------------------------------------------
(***************************************************************************)
(* What a reader makes of the first lines of a log.                        *)
(***************************************************************************)
Unread == [ok |-> TRUE, events |-> <<>>, line |-> <<>>]
ReadOff(pieces) == FoldLeft(ReadPiece, Unread, pieces)

\* The pieces of a line that does not end.
Half(e, j) == IF j = 0 THEN <<>> ELSE IF j = 1 THEN << <<e, "head">> >> ELSE << <<e, "head">>, <<e, "tail">> >>

\* Of the lines of events, cut anywhere: what a reader gets, how they end, and
\* that whole lines are the lines of the first events.
ReadsTo(events) ==
    /\ Len(Lines(events)) = 3 * Len(events) /\ Lines(events) \in Seq(LinePieces)
    /\ \A k \in 0..Len(events) : Lines(SubSeq(events, 1, k)) = SubSeq(Lines(events), 1, 3 * k)
    /\ \A k \in 0..Len(events), j \in 0..2 : 3 * k + j <= 3 * Len(events) =>
         /\ ReadOff(SubSeq(Lines(events), 1, 3 * k + j))
              = [ok |-> TRUE, events |-> SubSeq(events, 1, k), line |-> Half(events[k + 1], j)]
         /\ j # 0 => Lines(events)[3 * k + j][2] # "newline"

LineReader == INSTANCE Inductions WITH Op <- ReadPiece, Claim <- ReadsTo
LineWriter == INSTANCE Inductions WITH Op <- WithLine, Claim <- ReadsTo

LEMMA ReadingFolds == ASSUME NEW pieces PROVE ReadOff(pieces) = LineReader!Fold(Unread, pieces)
BY DEF ReadOff, LineReader!Fold, FoldLeft, LineReader!FoldLeft, MapThenFoldSet, LineReader!MapThenFoldSet, Max, LineReader!Max

LEMMA LinesFold == ASSUME NEW events PROVE Lines(events) = LineWriter!Fold(<<>>, events)
BY DEF Lines, LineWriter!Fold, FoldLeft, LineWriter!FoldLeft, MapThenFoldSet, LineWriter!MapThenFoldSet, Max, LineWriter!Max

LEMMA LinesAre ==
    /\ Lines(<<>>) = <<>>
    /\ \A d \in Seq(Logged), x \in Logged : Lines(Append(d, x)) = Lines(d) \o Pieces(x)
<1>1. Lines(<<>>) = <<>>
  BY LinesFold, LineWriter!FoldOfNothing
<1>2. ASSUME NEW d \in Seq(Logged), NEW x \in Logged PROVE Lines(Append(d, x)) = Lines(d) \o Pieces(x)
  <2>1. LineWriter!Fold(<<>>, Append(d, x)) = WithLine(LineWriter!Fold(<<>>, d), x)
    BY LineWriter!FoldOfOneMore
  <2> QED
    BY <2>1, LinesFold DEF WithLine
<1> QED
  BY <1>1, <1>2

LEMMA ReadingIs ==
    /\ ReadOff(<<>>) = Unread
    /\ \A s \in Seq(LinePieces), x \in LinePieces : ReadOff(Append(s, x)) = ReadPiece(ReadOff(s), x)
<1>1. ReadOff(<<>>) = Unread
  BY ReadingFolds, LineReader!FoldOfNothing
<1>2. ASSUME NEW s \in Seq(LinePieces), NEW x \in LinePieces PROVE ReadOff(Append(s, x)) = ReadPiece(ReadOff(s), x)
  <2>1. LineReader!Fold(Unread, Append(s, x)) = ReadPiece(LineReader!Fold(Unread, s), x)
    BY LineReader!FoldOfOneMore
  <2> QED
    BY <2>1, ReadingFolds
<1> QED
  BY <1>1, <1>2

\* A sequence with an element more, cut.
LEMMA CutOfMore ==
    ASSUME NEW T, NEW s \in Seq(T), NEW x \in T, NEW n \in Nat
    PROVE  /\ n <= Len(s) => SubSeq(Append(s, x), 1, n) = SubSeq(s, 1, n)
           /\ n = Len(s) + 1 => SubSeq(Append(s, x), 1, n) = Append(s, x)
<1>1. ASSUME n <= Len(s) PROVE SubSeq(Append(s, x), 1, n) = SubSeq(s, 1, n)
  <2>1. /\ SubSeq(Append(s, x), 1, n) \in Seq(T) /\ Len(SubSeq(Append(s, x), 1, n)) = n
        /\ SubSeq(s, 1, n) \in Seq(T) /\ Len(SubSeq(s, 1, n)) = n
    BY <1>1
  <2>2. \A i \in 1..n : SubSeq(Append(s, x), 1, n)[i] = SubSeq(s, 1, n)[i]
    BY <1>1
  <2> QED
    BY <2>1, <2>2, SeqEqual
<1>2. ASSUME n = Len(s) + 1 PROVE SubSeq(Append(s, x), 1, n) = Append(s, x)
  <2>1. Append(s, x) \in Seq(T) /\ Len(Append(s, x)) = n
    BY <1>2
  <2> QED
    BY <2>1, SubSeqFull
<1> QED
  BY <1>1, <1>2

LEMMA ThePieces ==
    ASSUME NEW e \in Logged
    PROVE  <<e, "head">> \in LinePieces /\ <<e, "tail">> \in LinePieces /\ <<e, "newline">> \in LinePieces
BY e \in Nat DEF Logged, LinePieces

LEMMA Three ==
    ASSUME NEW T, NEW x \in T, NEW y \in T, NEW z \in T
    PROVE  /\ <<x, y, z>> \in Seq(T) /\ Len(<<x, y, z>>) = 3
           /\ SubSeq(<<x, y, z>>, 1, 2) = <<x, y>>
           /\ \A q \in Seq(T) : q \o <<x, y, z>> = Append(Append(Append(q, x), y), z)
<1>1. <<x, y, z>> \in Seq(T) /\ Len(<<x, y, z>>) = 3 /\ <<x, y>> \in Seq(T) /\ Len(<<x, y>>) = 2
  OBVIOUS
<1>2. SubSeq(<<x, y, z>>, 1, 2) = <<x, y>>
  <2>1. SubSeq(<<x, y, z>>, 1, 2) \in Seq(T) /\ Len(SubSeq(<<x, y, z>>, 1, 2)) = 2
    BY <1>1, \A i \in 1..2 : <<x, y, z>>[i] \in T, SubSeqProperties
  <2>2. \A i \in 1..2 : SubSeq(<<x, y, z>>, 1, 2)[i] = <<x, y>>[i]
    BY \A i \in 1..2 : <<x, y, z>>[i] \in T, SubSeqProperties
  <2> QED
    BY <1>1, <2>1, <2>2, SeqEqual
<1>3. ASSUME NEW q \in Seq(T) PROVE q \o <<x, y, z>> = Append(Append(Append(q, x), y), z)
  OBVIOUS
<1> QED
  BY <1>1, <1>2, <1>3

LEMMA ALine ==
    ASSUME NEW e \in Logged
    PROVE  Pieces(e) \in Seq(LinePieces) /\ Len(Pieces(e)) = 3 /\ SubSeq(Pieces(e), 1, 2) = Half(e, 2)
<1>1. Half(e, 2) = << <<e, "head">>, <<e, "tail">> >>
  BY DEF Half
<1> QED
  BY <1>1, ThePieces, Three DEF Pieces

LEMMA ThreePieces ==
    ASSUME NEW s \in Seq(LinePieces), NEW e \in Logged
    PROVE  s \o Pieces(e) = Append(Append(Append(s, <<e, "head">>), <<e, "tail">>), <<e, "newline">>)
<1>1. PICK h \in LinePieces : h = <<e, "head">>
  BY ThePieces
<1>2. PICK t \in LinePieces : t = <<e, "tail">>
  BY ThePieces
<1>3. PICK n \in LinePieces : n = <<e, "newline">>
  BY ThePieces
<1>4. Pieces(e) = <<h, t, n>>
  BY <1>1, <1>2, <1>3 DEF Pieces
<1>5. s \o <<h, t, n>> = Append(Append(Append(s, h), t), n)
  BY Three
<1> QED
  BY <1>1, <1>2, <1>3, <1>4, <1>5

\* A whole line is read as its event.
LEMMA AWholeLine ==
    ASSUME NEW e \in Logged, NEW d, NEW acc, acc = [ok |-> TRUE, events |-> d, line |-> Half(e, 2)], LogTypeOK
    PROVE  EndLine(acc) = [ok |-> TRUE, events |-> Append(d, e), line |-> <<>>]
<1>1. e \in DOMAIN questions
  BY DEF Logged, LogTypeOK
<1>2. acc.line = SubSeq(Pieces(e), 1, 2)
  BY ALine
<1>3. acc.line[1][1] = e
  BY DEF Half
<1> QED
  BY <1>1, <1>2, <1>3 DEF EndLine

LEMMA OneAndTwo == ASSUME NEW x, NEW y PROVE Append(<<>>, x) = <<x>> /\ Append(<<x>>, y) = <<x, y>>
<1> DEFINE T == {x, y}
<1>1. /\ <<>> \in Seq(T) /\ Len(<<>>) = 0 /\ <<x>> \in Seq(T) /\ Len(<<x>>) = 1 /\ <<x>>[1] = x
      /\ <<x, y>> \in Seq(T) /\ Len(<<x, y>>) = 2 /\ <<x, y>>[1] = x /\ <<x, y>>[2] = y
  OBVIOUS
<1>2. x \in T /\ y \in T
  OBVIOUS
<1> HIDE DEF T
<1>3. Append(<<>>, x) \in Seq(T) /\ Len(Append(<<>>, x)) = 1 /\ Append(<<>>, x)[1] = x
  BY <1>1, <1>2, AppendProperties
<1>4. Append(<<x>>, y) \in Seq(T) /\ Len(Append(<<x>>, y)) = 2 /\ Append(<<x>>, y)[1] = x /\ Append(<<x>>, y)[2] = y
  BY <1>1, <1>2, AppendProperties
<1>5. Append(<<>>, x) = <<x>>
  BY <1>1, <1>3, SeqEqual
<1>6. Append(<<x>>, y) = <<x, y>>
  <2>1. \A i \in 1..2 : i = 1 \/ i = 2
    OBVIOUS
  <2>2. \A i \in 1..2 : Append(<<x>>, y)[i] = <<x, y>>[i]
    BY <1>1, <1>4, <2>1, Zenon
  <2> QED
    BY <1>1, <1>4, <2>2, SeqEqual
<1> QED
  BY <1>5, <1>6

LEMMA APieceIsRead ==
    ASSUME NEW d, NEW l, NEW p, p[2] # "newline"
    PROVE  ReadPiece([ok |-> TRUE, events |-> d, line |-> l], p) = [ok |-> TRUE, events |-> d, line |-> Append(l, p)]
BY DEF ReadPiece

LEMMA ReadALine ==
    ASSUME NEW s \in Seq(LinePieces), NEW e \in Logged, NEW d \in Seq(Logged), LogTypeOK,
           ReadOff(s) = [ok |-> TRUE, events |-> d, line |-> <<>>]
    PROVE  LET one == Append(s, <<e, "head">>)
               two == Append(one, <<e, "tail">>)
               three == Append(two, <<e, "newline">>)
           IN  /\ ReadOff(one) = [ok |-> TRUE, events |-> d, line |-> Half(e, 1)]
               /\ ReadOff(two) = [ok |-> TRUE, events |-> d, line |-> Half(e, 2)]
               /\ ReadOff(three) = [ok |-> TRUE, events |-> Append(d, e), line |-> <<>>]
<1>a. PICK h \in LinePieces : h = <<e, "head">>
  BY ThePieces
<1>b. PICK t \in LinePieces : t = <<e, "tail">>
  BY ThePieces
<1>c. PICK n \in LinePieces : n = <<e, "newline">>
  BY ThePieces
<1> DEFINE one == Append(s, h)
           two == Append(one, t)
           three == Append(two, n)
<1> SUFFICES /\ ReadOff(one) = [ok |-> TRUE, events |-> d, line |-> Half(e, 1)]
             /\ ReadOff(two) = [ok |-> TRUE, events |-> d, line |-> Half(e, 2)]
             /\ ReadOff(three) = [ok |-> TRUE, events |-> Append(d, e), line |-> <<>>]
  BY <1>a, <1>b, <1>c
<1>1. one \in Seq(LinePieces) /\ two \in Seq(LinePieces)
  BY AppendProperties
<1>2. h[2] = "head" /\ t[2] = "tail" /\ n[2] = "newline"
  BY <1>a, <1>b, <1>c
<1>3. Append(<<>>, h) = Half(e, 1) /\ Append(Half(e, 1), t) = Half(e, 2)
  <2>1. Half(e, 1) = <<h>> /\ Half(e, 2) = <<h, t>>
    BY <1>a, <1>b DEF Half
  <2>2. Append(<<>>, h) = <<h>> /\ Append(<<h>>, t) = <<h, t>>
    BY OneAndTwo
  <2> QED
    BY <2>1, <2>2
<1>4. ReadOff(one) = ReadPiece(ReadOff(s), h) /\ ReadOff(two) = ReadPiece(ReadOff(one), t) /\ ReadOff(three) = ReadPiece(ReadOff(two), n)
  BY <1>1, ReadingIs
<1>5. ReadOff(one) = [ok |-> TRUE, events |-> d, line |-> Half(e, 1)]
  <2>1. h[2] # "newline"
    BY <1>2
  <2>2. ReadPiece(ReadOff(s), h) = [ok |-> TRUE, events |-> d, line |-> Append(<<>>, h)]
    BY <2>1, APieceIsRead, Zenon
  <2> QED
    BY <1>3, <1>4, <2>2, Zenon
<1>6. ReadOff(two) = [ok |-> TRUE, events |-> d, line |-> Half(e, 2)]
  <2>1. t[2] # "newline"
    BY <1>2
  <2>2. ReadPiece(ReadOff(one), t) = [ok |-> TRUE, events |-> d, line |-> Append(Half(e, 1), t)]
    BY <1>5, <2>1, APieceIsRead, Zenon
  <2> QED
    BY <1>3, <1>4, <2>2, Zenon
<1>7. ReadOff(three) = EndLine(ReadOff(two))
  BY <1>2, <1>4 DEF ReadPiece
<1> QED
  BY <1>5, <1>6, <1>7, AWholeLine

\* The cuts of lines, and of the same lines with one more.
LEMMA CutsGrow ==
    ASSUME NEW d \in Seq(Logged), NEW e \in Logged, NEW k \in 0..Len(d)
    PROVE  SubSeq(Append(d, e), 1, k) = SubSeq(d, 1, k)
BY CutOfMore

LEMMA Thirds ==
    ASSUME NEW n \in Nat, NEW k \in Nat, NEW j \in 0..2, j # 0, 3 * k + j > 3 * n, 3 * k + j <= 3 * (n + 1)
    PROVE  k = n /\ (j = 1 \/ j = 2)
  OBVIOUS

LEMMA ReadsOneMore ==
    ASSUME LogTypeOK, NEW d \in Seq(Logged), NEW e \in Logged, ReadsTo(d)
    PROVE  ReadsTo(Append(d, e))
<1> DEFINE s == Lines(d)
           c == Append(d, e)
<1>1. PICK h \in LinePieces : h = <<e, "head">>
  BY ThePieces
<1>2. PICK t \in LinePieces : t = <<e, "tail">>
  BY ThePieces
<1>3. PICK n \in LinePieces : n = <<e, "newline">>
  BY ThePieces
<1>4. PICK one : one = Append(s, h)
  OBVIOUS
<1>5. PICK two : two = Append(one, t)
  OBVIOUS
<1>6. PICK three : three = Append(two, n)
  OBVIOUS
<1>7. Lines(c) = three
  BY <1>1, <1>2, <1>3, <1>4, <1>5, <1>6, LinesAre, ThreePieces DEF ReadsTo
<1>8. Len(d) \in Nat /\ c \in Seq(Logged) /\ Len(c) = Len(d) + 1 /\ c[Len(d) + 1] = e /\ \A i \in 1..Len(d) : c[i] = d[i]
  BY AppendProperties
<1>9. s \in Seq(LinePieces) /\ Len(s) = 3 * Len(d)
  BY DEF ReadsTo
<1> HIDE DEF s
<1>10. /\ one \in Seq(LinePieces) /\ two \in Seq(LinePieces) /\ three \in Seq(LinePieces)
       /\ Len(one) = Len(s) + 1 /\ Len(two) = Len(s) + 2 /\ Len(three) = Len(s) + 3
       /\ two[Len(s) + 1] = h /\ two[Len(s) + 2] = t
       /\ \A i \in 1..Len(s) : three[i] = s[i]
       /\ \A i \in 1..Len(s) + 2 : three[i] = two[i]
  <2>1. Len(s) \in Nat
    BY <1>9
  <2>2. one \in Seq(LinePieces) /\ Len(one) = Len(s) + 1 /\ one[Len(s) + 1] = h /\ \A i \in 1..Len(s) : one[i] = s[i]
    BY <1>4, <1>9, AppendProperties
  <2>3. two \in Seq(LinePieces) /\ Len(two) = Len(one) + 1 /\ two[Len(one) + 1] = t /\ \A i \in 1..Len(one) : two[i] = one[i]
    BY <1>5, <2>2, AppendProperties
  <2>4. three \in Seq(LinePieces) /\ Len(three) = Len(two) + 1 /\ \A i \in 1..Len(two) : three[i] = two[i]
    BY <1>6, <2>3, AppendProperties
  <2>5. Len(one) = Len(s) + 1 /\ Len(two) = Len(s) + 2 /\ Len(three) = Len(s) + 3
    BY <2>1, <2>2, <2>3, <2>4
  <2> QED
    BY <2>1, <2>2, <2>3, <2>4, <2>5
<1>11. ReadOff(s) = [ok |-> TRUE, events |-> d, line |-> <<>>]
  <2>1. Len(d) \in 0..Len(d) /\ 0 \in 0..2 /\ 3 * Len(d) + 0 = 3 * Len(d) /\ 3 * Len(d) + 0 <= 3 * Len(d)
    BY <1>8
  <2>2. ReadOff(SubSeq(s, 1, 3 * Len(d) + 0)) = [ok |-> TRUE, events |-> SubSeq(d, 1, Len(d)), line |-> Half(d[Len(d) + 1], 0)]
    BY <2>1 DEF ReadsTo, s
  <2>3. SubSeq(s, 1, 3 * Len(d) + 0) = s /\ SubSeq(d, 1, Len(d)) = d
    BY <1>8, <1>9, SubSeqFull
  <2> QED
    BY <2>2, <2>3 DEF Half
<1>12. /\ ReadOff(one) = [ok |-> TRUE, events |-> d, line |-> Half(e, 1)]
       /\ ReadOff(two) = [ok |-> TRUE, events |-> d, line |-> Half(e, 2)]
       /\ ReadOff(three) = [ok |-> TRUE, events |-> c, line |-> <<>>]
  BY <1>1, <1>2, <1>3, <1>4, <1>5, <1>6, <1>9, <1>11, ReadALine DEF c
<1>13. \A i \in 0..Len(s) : SubSeq(three, 1, i) = SubSeq(s, 1, i)
  BY <1>4, <1>5, <1>6, <1>9, <1>10, CutOfMore
<1>14. SubSeq(three, 1, Len(s) + 1) = one /\ SubSeq(three, 1, Len(s) + 2) = two /\ SubSeq(three, 1, Len(s) + 3) = three
  BY <1>4, <1>5, <1>6, <1>9, <1>10, CutOfMore, SubSeqFull, SMTT(30)
<1>15. h[2] # "newline" /\ t[2] # "newline"
  BY <1>1, <1>2
<1> HIDE DEF c
<1>16. ASSUME NEW k \in 0..Len(c) PROVE Lines(SubSeq(c, 1, k)) = SubSeq(three, 1, 3 * k)
  <2>1. CASE k <= Len(d)
    <3>1. k \in 0..Len(d) /\ 3 * k \in 0..Len(s)
      BY <1>8, <1>9, <2>1
    <3>2. SubSeq(c, 1, k) = SubSeq(d, 1, k)
      BY <3>1, CutsGrow DEF c
    <3>3. Lines(SubSeq(d, 1, k)) = SubSeq(s, 1, 3 * k)
      BY <3>1 DEF ReadsTo, s
    <3> QED
      BY <1>13, <3>1, <3>2, <3>3
  <2>2. CASE k > Len(d)
    <3>1. k = Len(c)
      BY <1>8, <2>2
    <3>2. 3 * k = Len(three)
      BY <1>8, <1>9, <1>10, <3>1
    <3>3. SubSeq(c, 1, k) = c /\ SubSeq(three, 1, 3 * k) = three
      BY <1>8, <1>10, <3>1, <3>2, SubSeqFull
    <3> QED
      BY <1>7, <3>3
  <2> QED
    BY <1>8, <2>1, <2>2
<1>17. ASSUME NEW k \in 0..Len(c), NEW j \in 0..2, 3 * k + j <= 3 * Len(c)
       PROVE  /\ ReadOff(SubSeq(three, 1, 3 * k + j)) = [ok |-> TRUE, events |-> SubSeq(c, 1, k), line |-> Half(c[k + 1], j)]
              /\ j # 0 => three[3 * k + j][2] # "newline"
  <2>1. CASE 3 * k + j <= 3 * Len(d)
    <3>1. k \in 0..Len(d) /\ 3 * k + j \in 0..Len(s)
      BY <1>8, <1>9, <2>1
    <3>2. SubSeq(c, 1, k) = SubSeq(d, 1, k)
      BY <3>1, CutsGrow DEF c
    <3>3. ReadOff(SubSeq(s, 1, 3 * k + j)) = [ok |-> TRUE, events |-> SubSeq(d, 1, k), line |-> Half(d[k + 1], j)]
          /\ (j # 0 => s[3 * k + j][2] # "newline")
      BY <2>1, <3>1 DEF ReadsTo, s
    <3>4. j # 0 => k + 1 \in 1..Len(d) /\ 3 * k + j \in 1..Len(s)
      BY <1>8, <1>9, <2>1
    <3>5. Half(c[k + 1], j) = Half(d[k + 1], j)
      BY <1>8, <3>4 DEF Half
    <3>6. j # 0 => three[3 * k + j] = s[3 * k + j]
      BY <1>10, <3>4
    <3> QED
      BY <1>13, <3>1, <3>2, <3>3, <3>5, <3>6
  <2>2. CASE 3 * k + j > 3 * Len(d) /\ j # 0
    <3>1. k = Len(d) /\ (j = 1 \/ j = 2) /\ 3 * k + j = Len(s) + j
      <4>1. k \in Nat /\ 3 * k + j <= 3 * (Len(d) + 1)
        BY <1>8, <1>17
      <4>2. k = Len(d) /\ (j = 1 \/ j = 2)
        BY <1>8, <2>2, <4>1, Thirds
      <4> QED
        BY <1>9, <4>2
    <3>2. SubSeq(c, 1, k) = d /\ c[k + 1] = e
      <4>1. SubSeq(c, 1, Len(d)) = SubSeq(d, 1, Len(d))
        BY <1>8, CutsGrow DEF c
      <4> QED
        BY <1>8, <3>1, <4>1, SubSeqFull
    <3>3. three[Len(s) + 1] = h /\ three[Len(s) + 2] = t
      <4>1. Len(s) \in Nat
        BY <1>9
      <4> QED
        BY <1>10, <4>1
    <3>4. CASE j = 1
      BY <1>12, <1>14, <1>15, <3>1, <3>2, <3>3, <3>4
    <3>5. CASE j = 2
      BY <1>12, <1>14, <1>15, <3>1, <3>2, <3>3, <3>5
    <3> QED
      BY <3>1, <3>4, <3>5
  <2>3. CASE 3 * k + j > 3 * Len(d) /\ j = 0
    <3>1. k = Len(c) /\ 3 * k + j = Len(three)
      BY <1>8, <1>9, <1>10, <2>3
    <3>2. SubSeq(c, 1, k) = c /\ SubSeq(three, 1, 3 * k + j) = three
      BY <1>8, <1>10, <3>1, SubSeqFull
    <3> QED
      BY <1>12, <2>3, <3>2 DEF Half
  <2> QED
    BY <1>8, <2>1, <2>2, <2>3
<1>18. Len(three) = 3 * Len(c)
  BY <1>8, <1>9, <1>10
<1> QED
  BY <1>7, <1>10, <1>16, <1>17, <1>18 DEF ReadsTo, c

LEMMA LinesAreRead == ASSUME LogTypeOK PROVE \A d \in Seq(Logged) : ReadsTo(d)
<1>1. ReadsTo(<<>>)
  <2>1. Len(<<>>) = 0 /\ <<>> \in Seq(LinePieces) /\ SubSeq(<<>>, 1, 0) = <<>>
    OBVIOUS
  <2>2. \A k \in 0..0, j \in 0..2 : 3 * k + j <= 0 => k = 0 /\ j = 0 /\ 3 * k + j = 0
    OBVIOUS
  <2>3. ReadOff(SubSeq(<<>>, 1, 0)) = [ok |-> TRUE, events |-> SubSeq(<<>>, 1, 0), line |-> <<>>]
    BY <2>1, ReadingIs DEF Unread
  <2>4. ASSUME NEW k \in 0..0, NEW j \in 0..2, 3 * k + j <= 0
        PROVE  /\ ReadOff(SubSeq(<<>>, 1, 3 * k + j)) = [ok |-> TRUE, events |-> SubSeq(<<>>, 1, k), line |-> Half(<<>>[k + 1], j)]
               /\ j = 0
    <3>1. k = 0 /\ j = 0 /\ 3 * k + j = 0
      BY <2>2, <2>4
    <3>2. Half(<<>>[k + 1], j) = <<>>
      BY <3>1 DEF Half
    <3> QED
      BY <2>3, <3>1, <3>2
  <2>5. \A k \in 0..0 : k = 0 /\ 3 * k = 0
    OBVIOUS
  <2>6. \A k \in 0..0 : Lines(SubSeq(<<>>, 1, k)) = SubSeq(Lines(<<>>), 1, 3 * k)
    BY <2>1, <2>5, LinesAre
  <2>7. 3 * Len(<<>>) = 0 /\ 0..Len(<<>>) = 0..0
    BY <2>1
  <2> QED
    BY <2>1, <2>4, <2>6, <2>7, LinesAre DEF ReadsTo
<1>2. \A d \in Seq(Logged), e \in Logged : ReadsTo(d) => ReadsTo(Append(d, e))
  BY ReadsOneMore
<1> QED
  BY <1>1, <1>2, LineReader!SequenceInduction

-----------------------------------------------------------------------------
LEMMA PrefixIs ==
    ASSUME NEW T, NEW s \in Seq(T), NEW t \in Seq(T), Len(s) <= Len(t), \A i \in 1..Len(s) : s[i] = t[i]
    PROVE  IsPrefix(s, t)
<1>1. SubSeq(s, 1, Len(s)) = s
  BY SubSeqFull
<1>2. Len(s) \in Nat /\ SubSeq(t, 1, Len(s)) \in Seq(T) /\ Len(SubSeq(t, 1, Len(s))) = Len(s)
  OBVIOUS
<1>3. \A i \in 1..Len(s) : SubSeq(t, 1, Len(s))[i] = s[i]
  OBVIOUS
<1>4. s = SubSeq(t, 1, Len(s))
  BY <1>2, <1>3, SeqEqual
<1> QED
  BY <1>1, <1>4 DEF IsPrefix

\* The first of two parts is the whole up to where it ends.
LEMMA FirstPart ==
    ASSUME NEW T, NEW a \in Seq(T), NEW b \in Seq(T)
    PROVE  Len(a) \in Nat /\ Len(b) \in Nat /\ Len(a \o b) = Len(a) + Len(b) /\ a = SubSeq(a \o b, 1, Len(a))
<1>0. Len(a) \in Nat /\ Len(b) \in Nat
  OBVIOUS
<1>1. a \o b \in Seq(T) /\ Len(a \o b) = Len(a) + Len(b) /\ \A i \in 1..Len(a) + Len(b) : (a \o b)[i] = IF i <= Len(a) THEN a[i] ELSE b[i - Len(a)]
  BY ConcatProperties
<1>2. PICK w : w = a \o b
  OBVIOUS
<1>3. SubSeq(w, 1, Len(a)) \in Seq(T) /\ Len(SubSeq(w, 1, Len(a))) = Len(a) /\ \A i \in 1..Len(a) : SubSeq(w, 1, Len(a))[i] = w[i]
  BY <1>0, <1>1, <1>2
<1>4. \A i \in 1..Len(a) : w[i] = a[i]
  BY <1>0, <1>1, <1>2
<1>5. a = SubSeq(w, 1, Len(a))
  BY <1>3, <1>4, SeqEqual
<1> QED
  BY <1>0, <1>1, <1>2, <1>5

\* What leaves the buffer and what stays, behind the file.
LEMMA PartsJoin ==
    ASSUME NEW T, NEW f \in Seq(T), NEW t \in Seq(T), NEW n \in 0..Len(t)
    PROVE  /\ SubSeq(t, 1, n) \in Seq(T) /\ SubSeq(t, n + 1, Len(t)) \in Seq(T)
           /\ (f \o SubSeq(t, 1, n)) \o SubSeq(t, n + 1, Len(t)) = f \o t
<1>0. Len(t) \in Nat
  OBVIOUS
<1>1. SubSeq(t, 1, n) \in Seq(T) /\ SubSeq(t, n + 1, Len(t)) \in Seq(T)
  OBVIOUS
<1>2. SubSeq(t, 1, n) \o SubSeq(t, n + 1, Len(t)) = SubSeq(t, 1, Len(t))
  <2>1. 1 \in 1..Len(t) + 1 /\ n \in 1 - 1..Len(t) /\ Len(t) \in n..Len(t)
    BY <1>0
  <2> QED
    BY <2>1, ConcatAdjacentSubSeq
<1>3. SubSeq(t, 1, Len(t)) = t
  BY SubSeqFull
<1>4. PICK p \in Seq(T) : p = SubSeq(t, 1, n)
  BY <1>1
<1>5. PICK q \in Seq(T) : q = SubSeq(t, n + 1, Len(t))
  BY <1>1
<1>6. (f \o p) \o q = f \o (p \o q)
  BY ConcatAssociative
<1>7. p \o q = t
  BY <1>2, <1>3, <1>4, <1>5
<1> QED
  BY <1>1, <1>4, <1>5, <1>6, <1>7

LEMMA OfThirds ==
    ASSUME NEW n \in Nat, NEW m \in Nat, m <= 3 * n
    PROVE  \E k \in 0..n, j \in 0..2 : m = 3 * k + j
<1> DEFINE S == {i \in Nat : \E k \in Nat, j \in 0..2 : i = 3 * k + j}
<1>1. 0 \in S
  <2>1. 0 \in Nat /\ 0 \in 0..2 /\ 0 = 3 * 0 + 0
    OBVIOUS
  <2> QED
    BY <2>1
<1>2. ASSUME NEW i \in Nat, i \in S PROVE i + 1 \in S
  <2>1. PICK k \in Nat, j \in 0..2 : i = 3 * k + j
    BY <1>2
  <2>2. CASE j = 2
    <3>1. i + 1 = 3 * (k + 1) + 0 /\ k + 1 \in Nat /\ 0 \in 0..2 /\ i + 1 \in Nat
      BY <2>1, <2>2
    <3> QED
      BY <3>1
  <2>3. CASE j # 2
    <3>1. i + 1 = 3 * k + (j + 1) /\ j + 1 \in 0..2 /\ i + 1 \in Nat
      BY <2>1, <2>3
    <3> QED
      BY <3>1
  <2> QED
    BY <2>2, <2>3
<1>3. m \in S
  <2> HIDE DEF S
  <2>1. Nat \subseteq S
    BY <1>1, <1>2, LineReader!Steps
  <2> QED
    BY <2>1
<1>4. PICK k \in Nat, j \in 0..2 : m = 3 * k + j
  BY <1>3
<1>5. k \in 0..n
  BY <1>4
<1> QED
  BY <1>4, <1>5

\* The file is the lines of what was written, cut somewhere.
LEMMA FileIsCut ==
    ASSUME LogInv, ~spoiled
    PROVE  \E k \in 0..Len(due), j \in 0..2 :
             /\ 3 * k + j <= 3 * Len(due) /\ Len(file) = 3 * k + j /\ Len(promised) <= k
             /\ file = SubSeq(Lines(due), 1, 3 * k + j)
             /\ ReadOff(file) = [ok |-> TRUE, events |-> SubSeq(due, 1, k), line |-> Half(due[k + 1], j)]
<1>1. LogIsKept /\ LogTypes /\ LogTypeOK
  BY DEF LogInv, LogTypes
<1>2. due \in Seq(Logged) /\ file \in Seq(LinePieces) /\ promised \in Seq(Logged) /\ 3 * Len(promised) <= Len(file)
  BY <1>1 DEF LogIsKept
<1>3. ReadsTo(due)
  BY <1>1, <1>2, LinesAreRead
<1>4. Len(due) \in Nat /\ Len(file) \in Nat /\ Len(promised) \in Nat
  BY <1>2
<1>5. Len(file) <= 3 * Len(due) /\ file = SubSeq(Lines(due), 1, Len(file))
  <2>1. CASE Active = {}
    <3>1. file = Lines(due)
      BY <1>1, <2>1 DEF LogIsKept
    <3>2. Len(file) = 3 * Len(due)
      BY <1>3, <3>1 DEF ReadsTo
    <3> QED
      BY <1>2, <1>4, <3>1, <3>2, SubSeqFull
  <2>2. CASE Active # {}
    <3>1. PICK r \in Active : TRUE
      BY <2>2
    <3>2. file \o buffer[r] = Lines(due) /\ buffer[r] \in Seq(LinePieces)
      BY <1>1, <3>1 DEF LogIsKept, LogTypes, Active
    <3>3. Len(Lines(due)) = 3 * Len(due)
      BY <1>3 DEF ReadsTo
    <3>4. Len(buffer[r]) \in Nat /\ Len(file \o buffer[r]) = Len(file) + Len(buffer[r]) /\ file = SubSeq(file \o buffer[r], 1, Len(file))
      BY <1>2, <3>2, FirstPart
    <3> QED
      BY <1>4, <3>2, <3>3, <3>4
  <2> QED
    BY <2>1, <2>2
<1>6. PICK k \in 0..Len(due), j \in 0..2 : Len(file) = 3 * k + j
  BY <1>4, <1>5, OfThirds
<1>7. Len(promised) <= k
  BY <1>2, <1>4, <1>6
<1>8. 3 * k + j <= 3 * Len(due) /\ file = SubSeq(Lines(due), 1, 3 * k + j)
  BY <1>5, <1>6
<1>9. ReadOff(file) = [ok |-> TRUE, events |-> SubSeq(due, 1, k), line |-> Half(due[k + 1], j)]
  BY <1>3, <1>8 DEF ReadsTo
<1> QED
  BY <1>6, <1>7, <1>8, <1>9

LEMMA LoadAllIs == LoadAll = IF ReadOff(file).line = <<>> THEN ReadOff(file) ELSE EndLine(ReadOff(file))
BY DEF LoadAll, ReadOff, Unread


LEMMA LogInitially == LogInit => LogInv
<1> SUFFICES ASSUME LogInit PROVE LogInv
  OBVIOUS
<1>1. \A T : <<>> \in Seq(T)
  OBVIOUS
<1>2. Len(<<>>) = 0 /\ 1..0 = {}
  OBVIOUS
<1>3. LogTypes
  <2>1. /\ questions \in Seq(BOOLEAN) /\ Len(questions) = 0 /\ Len(questions) <= MaxLogged
        /\ queue \in [LogRuns -> Seq(Logged)] /\ buffer \in [LogRuns -> Seq(LinePieces)]
    BY <1>1, <1>2, LogAssumption DEF LogInit
  <2>2. \A r \in LogRuns : Len(queue[r]) <= LogRoom /\ Len(buffer[r]) <= BufferRoom
    BY <1>2, LogAssumption DEF LogInit
  <2> QED
    BY <2>1, <2>2 DEF LogInit, LogTypes, LogTypeOK
<1>4. Resting
  BY DEF LogInit, Resting
<1>5. Active = {}
  BY DEF LogInit, Active
<1>6. LogIsKept
  BY <1>1, <1>2, <1>5, LinesAre DEF LogInit, LogIsKept
<1> QED
  BY <1>3, <1>4, <1>6 DEF LogInv

LEMMA MoreLogged ==
    ASSUME NEW q, LogTypeOK, questions' = Append(questions, q), q \in BOOLEAN
    PROVE  /\ questions' \in Seq(BOOLEAN) /\ Len(questions') = Len(questions) + 1
           /\ Logged \subseteq Logged' /\ Len(questions) + 1 \in Logged'
           /\ Seq(Logged) \subseteq Seq(Logged')
<1>1. questions \in Seq(BOOLEAN) /\ Len(questions) \in Nat
  BY DEF LogTypeOK
<1>2. questions' \in Seq(BOOLEAN) /\ Len(questions') = Len(questions) + 1
  BY <1>1, AppendProperties
<1>3. Logged \subseteq Logged' /\ Len(questions) + 1 \in Logged'
  BY <1>1, <1>2 DEF Logged
<1>4. Seq(Logged) \subseteq Seq(Logged')
  BY <1>3, SeqMonotonic
<1> QED
  BY <1>2, <1>3, <1>4

LEMMA LogEventKeeps == ASSUME LogInv, NEW question \in BOOLEAN, LogEvent(question) PROVE LogInv'
<1> DEFINE e == Len(questions) + 1
<1>0. LogTypes /\ LogTypeOK /\ Resting
  BY DEF LogInv, LogTypes
<1>1. UNCHANGED <<logStage, pen, buffer, jammed, file, due, promised, spoiled>> /\ Len(questions) < MaxLogged
  BY DEF LogEvent
<1>2. /\ questions' \in Seq(BOOLEAN) /\ Len(questions') = e
      /\ Logged \subseteq Logged' /\ e \in Logged' /\ Seq(Logged) \subseteq Seq(Logged')
  BY <1>0, MoreLogged DEF LogEvent
<1>3. Len(questions) \in Nat
  BY <1>0 DEF LogTypeOK
<1>4. Len(questions') <= MaxLogged
  BY <1>1, <1>2, <1>3, LogAssumption
<1> HIDE DEF e
<1>5. queue' = [r \in LogRuns |-> IF logStage[r] \in {"open", "left"} /\ Len(queue[r]) < LogRoom
                                  THEN Append(queue[r], e) ELSE queue[r]]
  BY DEF LogEvent, e
<1>6. ASSUME NEW r \in LogRuns
      PROVE  queue'[r] \in Seq(Logged') /\ Len(queue'[r]) <= LogRoom /\ (logStage[r] \in {"new", "over"} => queue'[r] = queue[r])
  <2>1. queue[r] \in Seq(Logged') /\ Len(queue[r]) <= LogRoom /\ Len(queue[r]) \in Nat
    BY <1>0, <1>2 DEF LogTypes, LogTypeOK
  <2>2. Append(queue[r], e) \in Seq(Logged') /\ Len(Append(queue[r], e)) = Len(queue[r]) + 1
    BY <1>2, <2>1, AppendProperties
  <2>3. Len(queue[r]) < LogRoom => Len(Append(queue[r], e)) <= LogRoom
    BY <2>1, <2>2, LogAssumption
  <2> QED
    BY <1>5, <2>1, <2>2, <2>3
<1>7. queue' \in [LogRuns -> Seq(Logged')]
  BY <1>5, <1>6
<1>8. LogTypes'
  BY <1>0, <1>1, <1>2, <1>4, <1>6, <1>7 DEF LogTypes, LogTypeOK
<1>9. Resting'
  BY <1>0, <1>1, <1>6 DEF Resting
<1>10. Active' = Active
  BY <1>1 DEF Active
<1>11. LogIsKept => LogIsKept'
  BY <1>1, <1>2, <1>10 DEF LogIsKept
<1> QED
  BY <1>1, <1>8, <1>9, <1>11 DEF LogInv

LEMMA OpenLogKeeps == ASSUME LogInv, NEW r \in LogRuns, OpenLog(r) PROVE LogInv'
<1>0. LogTypes /\ LogTypeOK /\ Resting
  BY DEF LogInv, LogTypes
<1>1. /\ logStage[r] = "new" /\ logStage' = [logStage EXCEPT ![r] = "open"]
      /\ UNCHANGED <<questions, queue, pen, buffer, jammed, file, due, promised>>
  BY DEF OpenLog
<1>2. spoiled' = (spoiled \/ Active # {})
  BY <1>1 DEF OpenLog, Active
<1>3. r \notin jammed /\ buffer[r] = <<>> /\ pen[r] = "idle"
  BY <1>0, <1>1 DEF Resting
<1>4. LogTypes'
  BY <1>0, <1>1, <1>2 DEF LogTypes, LogTypeOK, Logged
<1>5. Resting'
  BY <1>0, <1>1 DEF Resting, LogTypeOK
<1>6. Active' = Active \cup {r}
  BY <1>0, <1>1 DEF Active, LogTypeOK
<1>7. ASSUME ~spoiled' PROVE LogIsKept'
  <2>1. Active = {} /\ LogIsKept
    BY <1>2, <1>7 DEF LogInv
  <2>2. file \in Seq(LinePieces) /\ file = Lines(due)
    BY <2>1 DEF LogIsKept
  <2>3. file \o buffer[r] = file
    BY <1>3, <2>2, ConcatEmptySeq
  <2>4. Active' = {r}
    BY <1>6, <2>1
  <2> QED
    BY <1>1, <1>3, <2>1, <2>2, <2>3, <2>4 DEF LogIsKept, Logged
<1> QED
  BY <1>4, <1>5, <1>7 DEF LogInv

LEMMA CloseSubKeeps == ASSUME LogInv, NEW r \in LogRuns, CloseSub(r) PROVE LogInv'
<1>0. LogTypes /\ LogTypeOK /\ Resting
  BY DEF LogInv, LogTypes
<1>1. /\ logStage[r] = "open" /\ logStage' = [logStage EXCEPT ![r] = "closing"]
      /\ UNCHANGED <<questions, queue, pen, buffer, jammed, file, due, promised, spoiled>>
  BY DEF CloseSub
<1>2. Active' = Active
  BY <1>0, <1>1 DEF Active, LogTypeOK
<1>3. LogTypes'
  BY <1>0, <1>1 DEF LogTypes, LogTypeOK, Logged
<1>4. Resting'
  BY <1>0, <1>1 DEF Resting, LogTypeOK
<1>5. LogIsKept => LogIsKept'
  BY <1>1, <1>2 DEF LogIsKept, Logged
<1> QED
  BY <1>1, <1>3, <1>4, <1>5 DEF LogInv

\* The types of what a step of one run writes.
LEMMA FileGrows ==
    ASSUME NEW f \in Seq(LinePieces), NEW t \in Seq(LinePieces)
    PROVE  f \o t \in Seq(LinePieces) /\ Len(f) <= Len(f \o t) /\ Len(f) \in Nat /\ Len(t) \in Nat
BY ConcatProperties, Len(f) \in Nat, Len(t) \in Nat

\* A whole buffer is written out.
LEMMA AllIsWritten ==
    ASSUME LogInv, NEW r \in LogRuns, r \notin jammed, ~spoiled, r \in Active
    PROVE  /\ file \o buffer[r] = Lines(due) /\ file \o buffer[r] \in Seq(LinePieces)
           /\ 3 * Len(due) = Len(Lines(due)) /\ Len(file) <= Len(Lines(due)) /\ (Lines(due)) \o <<>> = Lines(due)
<1>1. LogIsKept /\ LogTypes /\ LogTypeOK
  BY DEF LogInv, LogTypes
<1>2. due \in Seq(Logged) /\ file \in Seq(LinePieces) /\ file \o buffer[r] = Lines(due) /\ buffer[r] \in Seq(LinePieces)
  BY <1>1 DEF LogIsKept, LogTypes
<1>3. ReadsTo(due)
  BY <1>1, <1>2, LinesAreRead
<1> QED
  BY <1>2, <1>3, FileGrows, ConcatEmptySeq DEF ReadsTo

LEMMA WrittenOut == ASSUME NEW T, NEW b \in Seq(T) PROVE SubSeq(b, 1, Len(b)) = b
BY SubSeqFull

LEMMA TakeEventKeeps == ASSUME LogInv, NEW r \in LogRuns, NEW fails \in BOOLEAN, TakeEvent(r, fails) PROVE LogInv'
<1> DEFINE e == Head(queue[r])
           text == buffer[r] \o Pieces(e)
           sent == IF Len(text) > BufferRoom THEN BufferRoom ELSE 0
           out == SubSeq(text, 1, sent)
           rest == SubSeq(text, sent + 1, Len(text))
<1>0. LogTypes /\ LogTypeOK /\ Resting
  BY DEF LogInv, LogTypes
<1>1. /\ queue[r] # <<>> /\ pen[r] # "question"
      /\ queue' = [queue EXCEPT ![r] = Tail(@)]
      /\ pen' = [pen EXCEPT ![r] = IF questions[e] THEN "question" ELSE "idle"]
      /\ UNCHANGED <<questions, logStage, promised>>
  BY DEF TakeEvent
<1>2. e \in Logged /\ Tail(queue[r]) \in Seq(Logged) /\ Len(Tail(queue[r])) = Len(queue[r]) - 1 /\ Len(queue[r]) \in Nat
  BY <1>0, <1>1, HeadTailProperties DEF LogTypes
<1>3. buffer[r] \in Seq(LinePieces) /\ Pieces(e) \in Seq(LinePieces) /\ Len(Pieces(e)) = 3 /\ Len(buffer[r]) <= BufferRoom
  BY <1>0, <1>2, ALine DEF LogTypes, LogTypeOK
<1>4. text \in Seq(LinePieces) /\ Len(text) = Len(buffer[r]) + 3 /\ Len(buffer[r]) \in Nat
  <2>1. Len(buffer[r]) \in Nat
    BY <1>3
  <2>2. text \in Seq(LinePieces) /\ Len(text) = Len(buffer[r]) + Len(Pieces(e))
    BY <1>3, ConcatProperties
  <2> HIDE DEF text
  <2> QED
    BY <1>3, <2>1, <2>2
<1>5. IF r \in jammed THEN ~fails /\ UNCHANGED <<buffer, jammed, file, due, spoiled>>
      ELSE Flush(r, out, rest, fails) /\ due' = Append(due, e)
  BY DEF TakeEvent
<1> HIDE DEF e, text
<1>6. sent \in 0..Len(text)
  BY <1>4, LogAssumption
<1>7. out \in Seq(LinePieces) /\ rest \in Seq(LinePieces) /\ (Len(rest) = IF sent + 1 <= Len(text) THEN Len(text) - sent ELSE 0)
  <2>1. Len(text) \in Nat
    BY <1>4
  <2>2. out \in Seq(LinePieces) /\ rest \in Seq(LinePieces)
    BY <1>4, <1>6, PartsJoin
  <2>3. \A i \in sent + 1..Len(text) : text[i] \in LinePieces
    BY <1>4, <1>6, <2>1
  <2>4. Len(rest) = IF sent + 1 <= Len(text) THEN Len(text) - (sent + 1) + 1 ELSE 0
    BY <1>6, <2>1, <2>3, SubSeqProperties, sent + 1 \in Int
  <2> QED
    BY <1>6, <2>1, <2>2, <2>4
<1>8. Len(rest) <= BufferRoom
  BY <1>3, <1>4, <1>7, LogAssumption
<1>9. r \in {q \in LogRuns : logStage[q] \notin {"new", "over"}}
  BY <1>0, <1>1 DEF Resting
<1>10. /\ buffer' \in [LogRuns -> Seq(LinePieces)] /\ \A q \in LogRuns : Len(buffer'[q]) <= BufferRoom
       /\ jammed' \subseteq LogRuns /\ jammed \subseteq jammed' /\ jammed' \subseteq jammed \cup {r} /\ spoiled' \in BOOLEAN
       /\ \A q \in LogRuns : q # r => buffer'[q] = buffer[q]
  <2> HIDE DEF out, rest
  <2> QED
    BY <1>0, <1>5, <1>7, <1>8 DEF Flush, LogTypes, LogTypeOK
<1>11. pen' \in [LogRuns -> {"idle", "question", "synced"}]
  BY <1>0, <1>1 DEF LogTypeOK
<1>12. queue' \in [LogRuns -> Seq(Logged)] /\ \A q \in LogRuns : Len(queue'[q]) <= LogRoom
  <2>1. queue \in [LogRuns -> Seq(Logged)] /\ \A q \in LogRuns : Len(queue[q]) <= LogRoom
    BY <1>0 DEF LogTypes, LogTypeOK
  <2>2. Len(Tail(queue[r])) <= LogRoom
    BY <1>2, <2>1, LogAssumption
  <2> QED
    BY <1>1, <1>2, <2>1, <2>2
<1>13. LogTypes'
  BY <1>0, <1>1, <1>10, <1>11, <1>12 DEF LogTypes, LogTypeOK, Logged
<1>14. Resting'
  BY <1>0, <1>1, <1>9, <1>10 DEF Resting
<1>15. Active' = Active
  BY <1>1 DEF Active
<1>16. ASSUME ~spoiled' PROVE LogIsKept'
  <2>1. CASE r \in jammed
    <3>1. UNCHANGED <<buffer, jammed, file, due, spoiled>>
      BY <1>5, <2>1
    <3>2. LogIsKept
      BY <1>16, <3>1 DEF LogInv
    <3>3. r \notin Active
      BY <2>1, <3>2 DEF LogIsKept
    <3>4. \A q \in Active : pen'[q] = pen[q]
      BY <1>0, <1>1, <3>3 DEF Active, LogTypeOK
    <3> QED
      BY <1>1, <1>15, <3>1, <3>2, <3>4 DEF LogIsKept, Logged
  <2>2. CASE r \notin jammed
    <3>1. Flush(r, out, rest, FALSE) /\ ~spoiled /\ due' = Append(due, e)
      BY <1>5, <1>16, <2>2 DEF Flush
    <3>2. LogIsKept
      BY <3>1 DEF LogInv
    <3>3. r \in Active
      BY <1>0, <1>9, <2>2 DEF Resting, Active, LogTypeOK
    <3>4. file \in Seq(LinePieces) /\ due \in Seq(Logged) /\ promised \in Seq(Logged) /\ file \o buffer[r] = Lines(due) /\ Active = {r}
      BY <3>2, <3>3 DEF LogIsKept
    <3>5. file' = file \o SubSeq(out, 1, Len(out)) /\ buffer'[r] = rest /\ jammed' = jammed
      BY <1>0, <3>1 DEF Flush, LogTypes
    <3>6. file' = file \o out
      <4> HIDE DEF out
      <4>1. SubSeq(out, 1, Len(out)) = out
        BY <1>7, WrittenOut
      <4> QED
        BY <3>5, <4>1
    <3>7. file' \o rest = file \o text
      <4> HIDE DEF sent
      <4>1. (file \o out) \o rest = file \o text
        BY <1>4, <1>6, <3>4, PartsJoin
      <4> HIDE DEF out, rest
      <4> QED
        BY <3>6, <4>1, Zenon
    <3>8. file \o text = Lines(due) \o Pieces(e)
      <4>1. (file \o buffer[r]) \o Pieces(e) = file \o (buffer[r] \o Pieces(e))
        <5> HIDE DEF out, rest, sent
        <5>1. \A f \in Seq(LinePieces), b \in Seq(LinePieces), p \in Seq(LinePieces) : (f \o b) \o p = f \o (b \o p)
          BY ConcatAssociative
        <5> QED
          BY <1>3, <3>4, <5>1, Zenon
      <4> QED
        BY <3>4, <4>1, Zenon DEF text
    <3>9. file' \o buffer'[r] = Lines(due')
      BY <1>2, <3>1, <3>4, <3>5, <3>7, <3>8, LinesAre
    <3>10. file' \in Seq(LinePieces) /\ Len(file) <= Len(file') /\ Len(file) \in Nat /\ Len(file') \in Nat
      <4> HIDE DEF out
      <4>1. file \o out \in Seq(LinePieces) /\ Len(file) <= Len(file \o out) /\ Len(file) \in Nat
        BY <1>7, <3>4, FileGrows
      <4>2. Len(file') \in Nat
        BY <3>6, <4>1
      <4> QED
        BY <3>6, <4>1, <4>2
    <3>11. due' \in Seq(Logged) /\ Len(due') = Len(due) + 1 /\ (\A i \in 1..Len(due) : due'[i] = due[i]) /\ Len(due) \in Nat
      BY <1>2, <3>1, <3>4, AppendProperties, Len(due) \in Nat
    <3>12. Len(promised) <= Len(due) /\ (\A i \in 1..Len(promised) : promised[i] = due[i]) /\ 3 * Len(promised) <= Len(file) /\ Len(promised) \in Nat
      BY <3>2, <3>4 DEF LogIsKept
    <3>13. Len(promised) <= Len(due') /\ (\A i \in 1..Len(promised) : promised[i] = due'[i]) /\ 3 * Len(promised) <= Len(file')
      BY <3>10, <3>11, <3>12
    <3>14. pen'[r] # "synced"
      BY <1>0, <1>1 DEF LogTypeOK
    <3>15. Logged' = Logged /\ promised' = promised /\ Active' = {r}
      BY <1>1, <1>15, <3>4 DEF Logged
    <3> HIDE DEF out, rest, sent
    <3> QED
      BY <2>2, <3>4, <3>5, <3>9, <3>10, <3>11, <3>13, <3>14, <3>15 DEF LogIsKept
  <2> QED
    BY <2>1, <2>2
<1> QED
  BY <1>13, <1>14, <1>16 DEF LogInv

LEMMA SyncQuestionKeeps == ASSUME LogInv, NEW r \in LogRuns, NEW fails \in BOOLEAN, SyncQuestion(r, fails) PROVE LogInv'
<1>0. LogTypes /\ LogTypeOK /\ Resting
  BY DEF LogInv, LogTypes
<1>1. pen[r] = "question" /\ UNCHANGED <<questions, logStage, queue, due>>
  BY DEF SyncQuestion
<1>2. /\ pen' \in [LogRuns -> {"idle", "question", "synced"}] /\ pen'[r] # "question"
      /\ \A q \in LogRuns : q # r => pen'[q] = pen[q]
  BY <1>0 DEF SyncQuestion, LogTypeOK
<1>3. logStage[r] \notin {"new", "over"}
  BY <1>0, <1>1 DEF Resting
<1>4. /\ buffer' \in [LogRuns -> Seq(LinePieces)] /\ \A q \in LogRuns : Len(buffer'[q]) <= BufferRoom
      /\ jammed' \subseteq LogRuns /\ jammed \subseteq jammed' /\ jammed' \subseteq jammed \cup {r} /\ spoiled' \in BOOLEAN
      /\ \A q \in LogRuns : q # r => buffer'[q] = buffer[q]
  <2>1. <<>> \in Seq(LinePieces) /\ Len(<<>>) = 0
    OBVIOUS
  <2> QED
    <3>1. buffer' = buffer \/ buffer' = [buffer EXCEPT ![r] = <<>>]
      BY DEF SyncQuestion, Flush
    <3>2. /\ jammed' \subseteq LogRuns /\ jammed \subseteq jammed' /\ jammed' \subseteq jammed \cup {r} /\ spoiled' \in BOOLEAN
      BY <1>0 DEF SyncQuestion, Flush, LogTypeOK
    <3>3. buffer \in [LogRuns -> Seq(LinePieces)] /\ \A q \in LogRuns : Len(buffer[q]) <= BufferRoom
      BY <1>0 DEF LogTypes, LogTypeOK
    <3>4. 0 <= BufferRoom
      BY LogAssumption
    <3> QED
      BY <2>1, <3>1, <3>2, <3>3, <3>4
<1>5. LogTypes'
  BY <1>0, <1>1, <1>2, <1>4 DEF LogTypes, LogTypeOK, Logged
<1>6. Resting'
  BY <1>0, <1>1, <1>2, <1>3, <1>4 DEF Resting
<1>7. Active' = Active
  BY <1>1 DEF Active
<1>8. ASSUME ~spoiled' PROVE LogIsKept'
  <2>1. CASE r \in jammed
    <3>1. UNCHANGED <<buffer, jammed, file, promised, spoiled>>
      BY <2>1 DEF SyncQuestion
    <3>2. LogIsKept
      BY <1>8, <3>1 DEF LogInv
    <3>3. r \notin Active
      BY <2>1, <3>2 DEF LogIsKept
    <3>4. \A q \in Active : pen'[q] = pen[q]
      BY <1>2, <3>3 DEF Active
    <3> QED
      BY <1>1, <1>7, <3>1, <3>2, <3>4 DEF LogIsKept, Logged
  <2>2. CASE r \notin jammed
    <3>1. Flush(r, buffer[r], <<>>, FALSE) /\ ~spoiled /\ promised' = due
      BY <1>8, <2>2 DEF SyncQuestion, Flush
    <3>2. LogIsKept
      BY <3>1 DEF LogInv
    <3>3. r \in Active
      BY <1>0, <1>3, <2>2 DEF Resting, Active, LogTypeOK
    <3>4. due \in Seq(Logged) /\ Active = {r} /\ buffer[r] \in Seq(LinePieces) /\ Len(due) \in Nat
      BY <1>0, <3>2, <3>3 DEF LogIsKept, LogTypes
    <3>5. file' = file \o SubSeq(buffer[r], 1, Len(buffer[r])) /\ buffer'[r] = <<>> /\ jammed' = jammed
      BY <1>0, <3>1 DEF Flush, LogTypes
    <3>6. SubSeq(buffer[r], 1, Len(buffer[r])) = buffer[r]
      BY <3>4, WrittenOut
    <3>7. file' = Lines(due) /\ file' \in Seq(LinePieces) /\ file' \o <<>> = Lines(due) /\ 3 * Len(due) = Len(file')
      BY <2>2, <3>1, <3>3, <3>5, <3>6, AllIsWritten
    <3>8. file' \o buffer'[r] = Lines(due') /\ due' = due /\ Logged' = Logged /\ Active' = {r}
      BY <1>1, <1>7, <3>4, <3>5, <3>7 DEF Logged
    <3>9. promised' \in Seq(Logged') /\ due' \in Seq(Logged') /\ promised' = due' /\ 3 * Len(promised') = Len(file') /\ Len(due') \in Nat
      BY <3>1, <3>4, <3>7, <3>8
    <3>10. \A q \in Active' : q \notin jammed' /\ Active' = {q} /\ file' \o buffer'[q] = Lines(due') /\ buffer'[q] = <<>>
      BY <2>2, <3>5, <3>8
    <3>11. Len(promised') <= Len(due') /\ (\A i \in 1..Len(promised') : promised'[i] = due'[i]) /\ 3 * Len(promised') <= Len(file')
      BY <3>9
    <3>12. Active' # {}
      BY <3>8
    <3> QED
      BY <3>7, <3>9, <3>10, <3>11, <3>12, Zenon DEF LogIsKept
  <2> QED
    BY <2>1, <2>2
<1> QED
  BY <1>5, <1>6, <1>8 DEF LogInv

LEMMA EndLogKeeps == ASSUME LogInv, NEW r \in LogRuns, NEW fails \in BOOLEAN, EndLog(r, fails) PROVE LogInv'
<1>0. LogTypes /\ LogTypeOK /\ Resting
  BY DEF LogInv, LogTypes
<1>1. /\ logStage[r] = "closing" /\ queue[r] = <<>> /\ pen[r] # "question"
      /\ logStage' = [logStage EXCEPT ![r] = "over"] /\ promised' = due
      /\ UNCHANGED <<questions, queue, pen, due>>
  BY DEF EndLog
<1>2. /\ buffer' \in [LogRuns -> Seq(LinePieces)] /\ \A q \in LogRuns : Len(buffer'[q]) <= BufferRoom
      /\ jammed' \subseteq LogRuns /\ jammed \subseteq jammed' /\ jammed' \subseteq jammed \cup {r} /\ spoiled' \in BOOLEAN
      /\ \A q \in LogRuns : q # r => buffer'[q] = buffer[q]
  <2>1. <<>> \in Seq(LinePieces) /\ Len(<<>>) = 0
    OBVIOUS
  <2> QED
    <3>1. buffer' = buffer \/ buffer' = [buffer EXCEPT ![r] = <<>>]
      BY DEF EndLog, Flush
    <3>2. /\ jammed' \subseteq LogRuns /\ jammed \subseteq jammed' /\ jammed' \subseteq jammed \cup {r} /\ spoiled' \in BOOLEAN
      BY <1>0 DEF EndLog, Flush, LogTypeOK
    <3>3. buffer \in [LogRuns -> Seq(LinePieces)] /\ \A q \in LogRuns : Len(buffer[q]) <= BufferRoom
      BY <1>0 DEF LogTypes, LogTypeOK
    <3>4. 0 <= BufferRoom
      BY LogAssumption
    <3> QED
      BY <2>1, <3>1, <3>2, <3>3, <3>4
<1>3. logStage' \in [LogRuns -> {"new", "open", "closing", "left", "over"}]
  BY <1>0, <1>1 DEF LogTypeOK
<1>4. LogTypes'
  BY <1>0, <1>1, <1>2, <1>3 DEF LogTypes, LogTypeOK, Logged
<1>5. logStage'[r] = "over" /\ \A q \in LogRuns : q # r => logStage'[q] = logStage[q]
  BY <1>0, <1>1 DEF LogTypeOK
<1>6. Resting'
  BY <1>0, <1>1, <1>2, <1>5 DEF Resting
<1>7. Active' = Active \ {r} /\ r \in Active
  BY <1>1, <1>5 DEF Active
<1>8. ASSUME ~spoiled' PROVE LogIsKept'
  <2>1. ~spoiled
    BY <1>8 DEF EndLog, Flush
  <2>2. LogIsKept
    BY <2>1 DEF LogInv
  <2>3. r \notin jammed /\ Active = {r}
    BY <1>7, <2>2 DEF LogIsKept
  <2>4. Flush(r, buffer[r], <<>>, FALSE)
    BY <1>8, <2>3 DEF EndLog, Flush
  <2>5. due \in Seq(Logged) /\ buffer[r] \in Seq(LinePieces) /\ Len(due) \in Nat
    BY <1>0, <2>2 DEF LogIsKept, LogTypes
  <2>6. file' = file \o SubSeq(buffer[r], 1, Len(buffer[r]))
    BY <2>4 DEF Flush
  <2>7. SubSeq(buffer[r], 1, Len(buffer[r])) = buffer[r]
    BY <2>5, WrittenOut
  <2>8. file' = Lines(due) /\ file' \in Seq(LinePieces) /\ 3 * Len(due) = Len(file')
    BY <1>7, <2>1, <2>3, <2>6, <2>7, AllIsWritten
  <2>9. Active' = {}
    BY <1>7, <2>3
  <2> QED
    BY <1>1, <2>5, <2>8, <2>9 DEF LogIsKept, Logged
<1> QED
  BY <1>4, <1>6, <1>8 DEF LogInv

LEMMA LeaveLogKeeps == ASSUME LogInv, NEW r \in LogRuns, NEW part, LeaveLog(r, part) PROVE LogInv'
<1>0. LogTypes /\ LogTypeOK /\ Resting
  BY DEF LogInv, LogTypes
<1>1. /\ logStage[r] = "open" /\ logStage' = [logStage EXCEPT ![r] = "left"]
      /\ file' = file \o SubSeq(buffer[r], 1, part)
      /\ spoiled' = (spoiled \/ (r \notin jammed /\ part < Len(buffer[r])))
      /\ buffer' = [buffer EXCEPT ![r] = <<>>] /\ jammed' = jammed \cup {r}
      /\ UNCHANGED <<questions, queue, pen, due, promised>>
  BY DEF LeaveLog
<1>2. /\ buffer' \in [LogRuns -> Seq(LinePieces)] /\ \A q \in LogRuns : Len(buffer'[q]) <= BufferRoom
      /\ spoiled' \in BOOLEAN /\ \A q \in LogRuns : q # r => buffer'[q] = buffer[q]
  <2>1. <<>> \in Seq(LinePieces) /\ Len(<<>>) = 0
    OBVIOUS
  <2> QED
    BY <1>0, <1>1, <2>1, LogAssumption DEF LogTypes, LogTypeOK
<1>3. logStage' \in [LogRuns -> {"new", "open", "closing", "left", "over"}]
  BY <1>0, <1>1 DEF LogTypeOK
<1>4. LogTypes'
  BY <1>0, <1>1, <1>2, <1>3 DEF LogTypes, LogTypeOK, Logged
<1>5. logStage'[r] = "left" /\ \A q \in LogRuns : q # r => logStage'[q] = logStage[q]
  BY <1>0, <1>1 DEF LogTypeOK
<1>6. Resting'
  BY <1>0, <1>1, <1>2, <1>5 DEF Resting
<1>7. Active' = Active \ {r} /\ r \in Active
  BY <1>1, <1>5 DEF Active
<1>8. ASSUME ~spoiled' PROVE LogIsKept'
  <2>1. LogIsKept /\ ~spoiled
    BY <1>1, <1>8 DEF LogInv
  <2>2. r \notin jammed /\ Active = {r}
    BY <1>7, <2>1 DEF LogIsKept
  <2>3. due \in Seq(Logged) /\ promised \in Seq(Logged) /\ file \in Seq(LinePieces) /\ buffer[r] \in Seq(LinePieces) /\ Len(buffer[r]) \in Nat
    BY <1>0, <2>1 DEF LogIsKept, LogTypes
  <2>4. part = Len(buffer[r])
    <3>1. part \in 0..Len(buffer[r])
      BY <2>2 DEF LeaveLog
    <3>2. ~(part < Len(buffer[r]))
      BY <1>1, <1>8, <2>2
    <3> QED
      BY <2>3, <3>1, <3>2
  <2>5. SubSeq(buffer[r], 1, Len(buffer[r])) = buffer[r]
    BY <2>3, WrittenOut
  <2>6. file' = Lines(due) /\ file' \in Seq(LinePieces) /\ Len(file) <= Len(file')
    BY <1>1, <1>7, <2>1, <2>2, <2>4, <2>5, AllIsWritten
  <2>7. Active' = {}
    BY <1>7, <2>2
  <2>8. Len(promised) <= Len(due) /\ (\A i \in 1..Len(promised) : promised[i] = due[i]) /\ 3 * Len(promised) <= Len(file')
    <3>1. 3 * Len(promised) <= Len(file) /\ Len(promised) \in Nat /\ Len(file) \in Nat /\ Len(file') \in Nat
      BY <2>1, <2>3, <2>6 DEF LogIsKept
    <3> QED
      BY <2>1, <2>6, <3>1 DEF LogIsKept
  <2> QED
    BY <1>1, <2>3, <2>6, <2>7, <2>8 DEF LogIsKept, Logged
<1> QED
  BY <1>4, <1>6, <1>8 DEF LogInv

LEMMA CrashKeeps == ASSUME LogInv, Crash PROVE LogInv'
<1>0. LogTypes /\ LogTypeOK /\ Resting
  BY DEF LogInv, LogTypes
<1>1. /\ logStage' = [r \in LogRuns |-> IF logStage[r] = "new" THEN "new" ELSE "over"]
      /\ queue' = [r \in LogRuns |-> <<>>] /\ pen' = [r \in LogRuns |-> "idle"] /\ buffer' = [r \in LogRuns |-> <<>>]
      /\ due' = LoadAll.events /\ spoiled' = (spoiled \/ Torn)
      /\ UNCHANGED <<questions, jammed, file, promised>>
  BY DEF Crash
<1>2. \A T : <<>> \in Seq(T) /\ Len(<<>>) = 0
  OBVIOUS
<1>3. LogTypes'
  <2>1. queue' \in [LogRuns -> Seq(Logged)] /\ buffer' \in [LogRuns -> Seq(LinePieces)]
    BY <1>1, <1>2
  <2>2. \A r \in LogRuns : Len(queue'[r]) <= LogRoom /\ Len(buffer'[r]) <= BufferRoom
    BY <1>1, <1>2, LogAssumption
  <2>3. spoiled' \in BOOLEAN
    BY <1>0, <1>1 DEF LogTypeOK, Torn
  <2> QED
    BY <1>0, <1>1, <2>1, <2>2, <2>3 DEF LogTypes, LogTypeOK, Logged
<1>4. Resting'
  BY <1>0, <1>1 DEF Resting
<1>5. Active' = {}
  BY <1>1 DEF Active
<1>6. ASSUME ~spoiled' PROVE LogIsKept'
  <2>1. ~spoiled /\ ~Torn /\ LogIsKept
    BY <1>1, <1>6 DEF LogInv
  <2>2. due \in Seq(Logged) /\ promised \in Seq(Logged) /\ file \in Seq(LinePieces) /\ Len(due) \in Nat /\ Len(promised) \in Nat
    BY <2>1 DEF LogIsKept
  <2>3. ReadsTo(due)
    BY <1>0, <2>2, LinesAreRead
  <2>4. PICK k \in 0..Len(due), j \in 0..2 :
             /\ 3 * k + j <= 3 * Len(due) /\ Len(file) = 3 * k + j /\ Len(promised) <= k
             /\ file = SubSeq(Lines(due), 1, 3 * k + j)
             /\ ReadOff(file) = [ok |-> TRUE, events |-> SubSeq(due, 1, k), line |-> Half(due[k + 1], j)]
    BY <2>1, FileIsCut
  <2>5. j = 0
    <3> SUFFICES ASSUME j # 0 PROVE FALSE
      OBVIOUS
    <3>1. Lines(due)[3 * k + j][2] # "newline"
      BY <2>3, <2>4, Zenon DEF ReadsTo
    <3>2. Lines(due) \in Seq(LinePieces) /\ Len(Lines(due)) = 3 * Len(due) /\ 3 * k + j \in 1..Len(Lines(due))
      <4>1. k \in Nat /\ j \in 1..2
        BY <2>2, <2>4
      <4>2. Lines(due) \in Seq(LinePieces) /\ Len(Lines(due)) = 3 * Len(due)
        BY <2>3 DEF ReadsTo
      <4> QED
        BY <2>2, <2>4, <4>1, <4>2
    <3>3. SubSeq(Lines(due), 1, 3 * k + j)[3 * k + j] = Lines(due)[3 * k + j]
      BY <3>2
    <3>4. file # <<>> /\ Last(file) = file[3 * k + j]
      <4>1. Last(file) = file[Len(file)] /\ Len(file) # 0
        BY <2>4, <3>2 DEF Last
      <4> QED
        BY <2>4, <4>1
    <3> QED
      BY <2>1, <2>4, <3>1, <3>3, <3>4 DEF Torn
  <2>6. Half(due[k + 1], j) = <<>>
    BY <2>5 DEF Half
  <2>7. LoadAll = ReadOff(file) /\ due' = SubSeq(due, 1, k)
    <3>1. ReadOff(file).line = <<>> /\ ReadOff(file).events = SubSeq(due, 1, k)
      BY <2>4, <2>6
    <3>2. LoadAll = ReadOff(file)
      BY <3>1, LoadAllIs
    <3> QED
      BY <1>1, <3>1, <3>2
  <2>8. due' \in Seq(Logged) /\ Len(due') = k /\ \A i \in 1..k : due'[i] = due[i]
    BY <2>2, <2>4, <2>7
  <2>9. Lines(SubSeq(due, 1, k)) = SubSeq(Lines(due), 1, 3 * k)
    BY <2>3, <2>4 DEF ReadsTo
  <2>10. file' = Lines(due')
    BY <1>1, <2>4, <2>5, <2>7, <2>9
  <2>11. Len(promised) <= Len(due') /\ \A i \in 1..Len(promised) : promised[i] = due'[i]
    BY <2>1, <2>2, <2>4, <2>8, SMTT(30) DEF LogIsKept
  <2> QED
    BY <1>1, <1>5, <2>1, <2>2, <2>8, <2>10, <2>11 DEF LogIsKept, Logged
<1> QED
  BY <1>3, <1>4, <1>6 DEF LogInv

LEMMA LogKeeps == LogInv /\ [LogNext]_logVars => LogInv'
<1> SUFFICES ASSUME LogInv, [LogNext]_logVars PROVE LogInv'
  OBVIOUS
<1>1. CASE LogNext
  BY <1>1, LogEventKeeps, OpenLogKeeps, CloseSubKeeps, LeaveLogKeeps, TakeEventKeeps, SyncQuestionKeeps, EndLogKeeps, CrashKeeps
  DEF LogNext
<1>2. CASE UNCHANGED logVars
  BY <1>2 DEF logVars, LogInv, LogTypes, LogTypeOK, Logged, Resting, LogIsKept, Active
<1> QED
  BY <1>1, <1>2

\* Half of the JSON is no event.
LEMMA HalfIsNone ==
    ASSUME NEW e, NEW d, LogTypeOK
    PROVE  ~EndLine([ok |-> TRUE, events |-> d, line |-> Half(e, 1)]).ok
<1>1. Half(e, 1) = << <<e, "head">> >>
  BY DEF Half
<1>2. Len(Half(e, 1)) = 1
  BY <1>1
<1>3. ASSUME NEW x \in DOMAIN questions PROVE SubSeq(Pieces(x), 1, 2) # Half(e, 1)
  <2>1. x \in Logged
    BY DEF LogTypeOK, Logged
  <2>2. SubSeq(Pieces(x), 1, 2) = Half(x, 2)
    BY <2>1, ALine
  <2>3. Half(x, 2) = << <<x, "head">>, <<x, "tail">> >>
    BY DEF Half
  <2>4. Len(Half(x, 2)) = 2
    BY <2>3
  <2> QED
    BY <1>2, <2>2, <2>4
<1>4. EndLine([ok |-> TRUE, events |-> d, line |-> Half(e, 1)]) = [ok |-> FALSE, events |-> d, line |-> <<>>]
  BY <1>3 DEF EndLine
<1> QED
  BY <1>4

LEMMA LogTells == LogInv => LogTellsTruth
<1> SUFFICES ASSUME LogInv PROVE LogTellsTruth
  OBVIOUS
<1>0. LogTypes /\ LogTypeOK
  BY DEF LogInv, LogTypes
<1> SUFFICES ASSUME ~spoiled
             PROVE  /\ file \o Buffered = Lines(due)
                    /\ LoadAll.ok => IsPrefix(promised, LoadAll.events)
                    /\ Active = {} \/ (\E r \in Active : pen[r] = "synced") => LoadAll.ok /\ LoadAll.events = due
  BY <1>0 DEF LogTellsTruth
<1>1. LogIsKept
  BY DEF LogInv
<1>2. /\ due \in Seq(Logged) /\ promised \in Seq(Logged) /\ file \in Seq(LinePieces) /\ Len(due) \in Nat /\ Len(promised) \in Nat
      /\ Len(promised) <= Len(due) /\ \A i \in 1..Len(promised) : promised[i] = due[i]
  BY <1>1 DEF LogIsKept
<1>3. ReadsTo(due)
  BY <1>0, <1>2, LinesAreRead
<1>4. file \o Buffered = Lines(due)
  <2>1. CASE Active = {}
    BY <1>1, <1>2, <2>1, ConcatEmptySeq DEF Buffered, LogIsKept
  <2>2. CASE Active # {}
    <3>1. (CHOOSE r \in Active : TRUE) \in Active
      BY <2>2
    <3> QED
      BY <1>1, <2>2, <3>1 DEF Buffered, LogIsKept
  <2> QED
    BY <2>1, <2>2
<1>5. PICK k \in 0..Len(due), j \in 0..2 :
             /\ 3 * k + j <= 3 * Len(due) /\ Len(file) = 3 * k + j /\ Len(promised) <= k
             /\ file = SubSeq(Lines(due), 1, 3 * k + j)
             /\ ReadOff(file) = [ok |-> TRUE, events |-> SubSeq(due, 1, k), line |-> Half(due[k + 1], j)]
  BY FileIsCut
<1>6. SubSeq(due, 1, k) \in Seq(Logged) /\ Len(SubSeq(due, 1, k)) = k /\ \A i \in 1..k : SubSeq(due, 1, k)[i] = due[i]
  BY <1>2, <1>5
<1>7. CASE j = 0
  <2>1. ReadOff(file) = [ok |-> TRUE, events |-> SubSeq(due, 1, k), line |-> <<>>]
    BY <1>5, <1>7 DEF Half
  <2>2. ReadOff(file).line = <<>> /\ ReadOff(file).ok /\ ReadOff(file).events = SubSeq(due, 1, k)
    BY <2>1
  <2>3. LoadAll = ReadOff(file)
    BY <2>2, LoadAllIs
  <2>4. \A i \in 1..Len(promised) : promised[i] = SubSeq(due, 1, k)[i]
    BY <1>2, <1>5, <1>6
  <2>5. IsPrefix(promised, SubSeq(due, 1, k))
    BY <1>2, <1>5, <1>6, <2>4, PrefixIs
  <2>6. ASSUME Len(file) = 3 * Len(due) PROVE SubSeq(due, 1, k) = due
    <3>1. k = Len(due)
      BY <1>2, <1>5, <1>7, <2>6
    <3> QED
      BY <1>2, <3>1, SubSeqFull
  <2>7. ASSUME Active = {} \/ \E r \in Active : pen[r] = "synced" PROVE Len(file) = 3 * Len(due)
    <3>1. file = Lines(due)
      BY <1>1, <1>2, <2>7, ConcatEmptySeq DEF LogIsKept
    <3> QED
      BY <1>3, <3>1 DEF ReadsTo
  <2> QED
    BY <1>4, <2>2, <2>3, <2>5, <2>6, <2>7
<1>8. CASE j # 0
  <2>1. k < Len(due) /\ k + 1 \in 1..Len(due)
    BY <1>2, <1>5, <1>8
  <2>2. ~(Active = {} \/ \E r \in Active : pen[r] = "synced")
    <3> SUFFICES ASSUME Active = {} \/ \E r \in Active : pen[r] = "synced" PROVE FALSE
      OBVIOUS
    <3>1. file = Lines(due)
      BY <1>1, <1>2, ConcatEmptySeq DEF LogIsKept
    <3>2. Len(file) = 3 * Len(due)
      BY <1>3, <3>1 DEF ReadsTo
    <3> QED
      BY <1>2, <1>5, <1>8, <3>2
  <2>3. LoadAll = EndLine(ReadOff(file))
    <3>1. Half(due[k + 1], j) # <<>>
      BY <1>8 DEF Half
    <3> QED
      BY <1>5, <3>1, LoadAllIs
  <2>4. CASE j = 1
    <3>1. ~LoadAll.ok
      BY <1>0, <1>5, <2>3, <2>4, HalfIsNone
    <3> QED
      BY <1>4, <2>2, <3>1
  <2>5. CASE j = 2
    <3>1. due[k + 1] \in Logged
      BY <1>2, <2>1
    <3>2. LoadAll.events = Append(SubSeq(due, 1, k), due[k + 1])
      <4>1. ReadOff(file) = [ok |-> TRUE, events |-> SubSeq(due, 1, k), line |-> Half(due[k + 1], 2)]
        BY <1>5, <2>5
      <4>2. LoadAll = [ok |-> TRUE, events |-> Append(SubSeq(due, 1, k), due[k + 1]), line |-> <<>>]
        BY <1>0, <2>3, <3>1, <4>1, AWholeLine, Zenon
      <4> QED
        BY <4>2
    <3>3. PICK a \in Seq(Logged) : a = SubSeq(due, 1, k) /\ Len(a) = k /\ \A i \in 1..k : a[i] = due[i]
      BY <1>6
    <3>4. Append(a, due[k + 1]) \in Seq(Logged) /\ Len(Append(a, due[k + 1])) = k + 1 /\ \A i \in 1..k : Append(a, due[k + 1])[i] = a[i]
      BY <3>1, <3>3, AppendProperties
    <3>5. \A i \in 1..Len(promised) : i \in 1..k /\ promised[i] = Append(a, due[k + 1])[i]
      BY <1>2, <1>5, <3>3, <3>4
    <3>6. Len(promised) <= Len(Append(a, due[k + 1]))
      BY <1>2, <1>5, <3>4
    <3>7. IsPrefix(promised, Append(a, due[k + 1]))
      BY <1>2, <3>4, <3>5, <3>6, PrefixIs
    <3> QED
      BY <1>4, <2>2, <3>2, <3>3, <3>7
  <2> QED
    BY <1>5, <1>8, <2>4, <2>5
<1> QED
  BY <1>7, <1>8

(***************************************************************************)
(* Until a write fails, a crash tears a line or two runs write: the file   *)
(* and the buffer are what the goroutine wrote, once and in order; LoadAll *)
(* gives the events up to the last Sync at least, or an error, and all of  *)
(* them behind a question and when no run is on (persist.go:50-143,        *)
(* run.go:1023-1040), for any number of runs, events and crashes.          *)
(***************************************************************************)
THEOREM TheLogTellsTheTruth == LogSpec => []LogTellsTruth
BY LogInitially, LogKeeps, LogTells, PTL DEF LogSpec

(***************************************************************************)
(* Both files, as the run checks them: the log up to a failed write, a     *)
(* torn line or two runs at a time, as above; and the permission rules,    *)
(* there from their answers until they are removed, up to two stores at    *)
(* work at a time (store.go:133-301).                                      *)
(***************************************************************************)
THEOREM TheFilesTellTheTruth == ClientsSpec => []FilesTellTheTruth
<1>1. ClientsInit => LogInv /\ RulesInv
  BY LogInitially, RulesInitially DEF ClientsInit
<1>2. [ClientsNext]_clientsVars => [LogNext]_logVars /\ [RulesNext]_ruleVars
  BY DEF ClientsNext, clientsVars
<1>3. LogInv /\ RulesInv /\ [ClientsNext]_clientsVars => (LogInv /\ RulesInv)'
  BY <1>2, LogKeeps, RulesKeep
<1>4. LogInv /\ RulesInv => FilesTellTheTruth
  BY LogTells DEF FilesTellTheTruth, RulesInv, ReadIsTheFile, RulesStay
<1> QED
  BY <1>1, <1>3, <1>4, PTL DEF ClientsSpec
=============================================================================
