------------------------- MODULE SubscriptionProofs -------------------------
(***************************************************************************)
(* Proofs about Subscription, for every set of sockets, pairs, handlers    *)
(* and interval callbacks: the invariant of SubscriptionInvariant is       *)
(* inductive, and the safety properties of SubscriptionProperties follow.  *)
(* Most steps leave rooms, interval and continuations alone (Quiet); the   *)
(* six others are taken one by one.                                        *)
(***************************************************************************)
EXTENDS SubscriptionInvariant, TLAPS

\* The values that calls are built from have their types.
LEMMA NoCallType == NoCall \in CallType /\ NoBooks \in [Pairs -> Nat] /\ NoAnswers \in [Pairs -> {"none", "subscribed", "unsubscribed"}]
BY DEF NoCall, NoBooks, NoAnswers, CallType

\* Appending keeps the type of a sequence.
LEMMA AppendType == \A S : \A w \in Seq(S) : \A x \in S : Append(w, x) \in Seq(S)
OBVIOUS

\* A task that goes on waits for what it says, and the others for what they did.
LEMMA GoesOnEffect ==
  ASSUME STypeOK, NEW t \in Tasks, NEW wait \in Waits, GoesOn(t, wait)
  PROVE  /\ pc' \in [Tasks -> Waits]
         /\ draining' \in BOOLEAN
         /\ pc'[t] = wait
         /\ \A u \in Tasks \ {t} : pc'[u] = pc[u]
         /\ ~draining' => \A u \in Tasks : pc'[u] \notin LocalWaits
BY DEF STypeOK, GoesOn

\* A task that ends is idle and has no locals left.
LEMMA EndsEffect ==
  ASSUME STypeOK, NEW t \in Tasks, Ends(t)
  PROVE  /\ pc' \in [Tasks -> Waits]
         /\ call' \in [Tasks -> CallType]
         /\ draining' \in BOOLEAN
         /\ pc'[t] = "idle"
         /\ \A u \in Tasks \ {t} : pc'[u] = pc[u] /\ call'[u] = call[u]
         /\ ~draining' => \A u \in Tasks : pc'[u] \notin LocalWaits
<1>1. "idle" \in Waits
  BY DEF Waits
<1>2. GoesOn(t, "idle") /\ call' = [call EXCEPT ![t] = NoCall]
  BY DEF Ends
<1>3. call \in [Tasks -> CallType]
  BY DEF STypeOK
<1> QED
  BY <1>1, <1>2, <1>3, GoesOnEffect, NoCallType

-----------------------------------------------------------------------------
\* The type invariant is kept: only sockets join and leave, and a timer runs
\* whenever clearInterval is called.
LEMMA TypeStep == STypeOK /\ OneInterval /\ (\A t \in Tasks : WaitsOK(t)) /\ [Next]_vars => STypeOK'
<1> SUFFICES ASSUME STypeOK, OneInterval, \A t \in Tasks : WaitsOK(t), [Next]_vars PROVE STypeOK'
  OBVIOUS
<1>1. ASSUME NEW s \in Sockets, Connect(s) PROVE STypeOK'
  BY <1>1 DEF Connect, STypeOK, timer, books, clients, process
<1>2. ASSUME NEW s \in Sockets, Disconnect(s) PROVE STypeOK'
  <2>1. interval' \in BOOLEAN /\ timers' \in Nat
    BY <1>2 DEF Disconnect, ClearIfUnused, OneInterval, STypeOK
  <2> QED
    BY <1>2, <2>1, NoCallType DEF Disconnect, STypeOK, books, process
<1>3. ASSUME NEW h \in Handlers, NEW s \in Sockets, NEW p \in Pairs,
             NEW event \in {"subscribePair", "unsubscribePair"}, RequestRoom(h, s, p, event)
      PROVE  STypeOK'
  <2>1. [NoCall EXCEPT !.event = event, !.socket = s, !.pair = p,
           !.pairs = SubscribedPairs(s)] \in CallType
    BY DEF NoCall, CallType, IncomingEvents, NoBooks, SubscribedPairs
  <2> QED
    BY <1>3, <2>1 DEF RequestRoom, STypeOK, Tasks, Waits, sockets, timer, books, clients, process
<1>4. ASSUME NEW h \in Handlers, NEW s \in Sockets, RequestTopOrderBook(h, s) PROVE STypeOK'
  <2>1. [NoCall EXCEPT !.event = "getTopOrderBook", !.socket = s,
           !.pairs = SubscribedPairs(s)] \in CallType
    BY DEF NoCall, CallType, IncomingEvents, NoBooks, SubscribedPairs
  <2> QED
    BY <1>4, <2>1 DEF RequestTopOrderBook, STypeOK, Tasks, Waits, sockets, timer, books, clients, process
<1>5. ASSUME NEW h \in Handlers, JoinRoom(h) PROVE STypeOK'
  <2>1. h \in Tasks /\ "joined" \in Waits
    BY DEF Tasks, Waits
  <2>2. pc' \in [Tasks -> Waits] /\ call' \in [Tasks -> CallType] /\ draining' \in BOOLEAN
    BY <1>5, <2>1, GoesOnEffect, EndsEffect DEF JoinRoom, STypeOK
  <2>3. rooms' \in [Pairs -> SUBSET Sockets]
    <3>1. pc[h] = "checked" => call[h].socket \in Sockets /\ call[h].pair \in Pairs
      BY <2>1 DEF WaitsOK, LocalWaits, STypeOK
    <3>2. rooms' = rooms \/ rooms' = [rooms EXCEPT ![call[h].pair] = @ \cup {call[h].socket}]
      BY <1>5 DEF JoinRoom
    <3>3. pc[h] = "checked" /\ rooms \in [Pairs -> SUBSET Sockets]
      BY <1>5 DEF JoinRoom, STypeOK
    <3> QED
      BY <3>1, <3>2, <3>3
  <2> QED
    BY <1>5, <2>2, <2>3 DEF JoinRoom, STypeOK, timer, books, clients, process
<1>6. ASSUME NEW h \in Handlers, StartInterval(h) PROVE STypeOK'
  <2>1. h \in Tasks
    BY DEF Tasks
  <2>2. pc' \in [Tasks -> Waits] /\ call' \in [Tasks -> CallType] /\ draining' \in BOOLEAN
    BY <1>6, <2>1, EndsEffect DEF StartInterval
  <2>3. answered' \in [Sockets -> [Pairs -> {"none", "subscribed", "unsubscribed"}]]
    BY <1>6 DEF StartInterval, Acknowledge, STypeOK
  <2> QED
    BY <1>6, <2>2, <2>3 DEF StartInterval, STypeOK, sockets, books, process
<1>7. ASSUME NEW h \in Handlers, LeaveRoom(h) PROVE STypeOK'
  <2>1. h \in Tasks /\ "left" \in Waits
    BY DEF Tasks, Waits
  <2>2. pc' \in [Tasks -> Waits] /\ call' \in [Tasks -> CallType] /\ draining' \in BOOLEAN
    BY <1>7, <2>1, GoesOnEffect, EndsEffect DEF LeaveRoom, STypeOK
  <2>3. rooms' \in [Pairs -> SUBSET Sockets]
    <3>1. rooms' = rooms \/ rooms' = [rooms EXCEPT ![call[h].pair] = @ \ {call[h].socket}]
      BY <1>7 DEF LeaveRoom
    <3> QED
      BY <3>1 DEF STypeOK
  <2> QED
    BY <1>7, <2>2, <2>3 DEF LeaveRoom, STypeOK, timer, books, clients, process
<1>8. ASSUME NEW h \in Handlers, StopInterval(h) PROVE STypeOK'
  <2>1. h \in Tasks
    BY DEF Tasks
  <2>2. pc' \in [Tasks -> Waits] /\ call' \in [Tasks -> CallType] /\ draining' \in BOOLEAN
    BY <1>8, <2>1, EndsEffect DEF StopInterval
  <2>3. answered' \in [Sockets -> [Pairs -> {"none", "subscribed", "unsubscribed"}]]
    BY <1>8 DEF StopInterval, Acknowledge, STypeOK
  <2>4. interval' \in BOOLEAN /\ timers' \in Nat
    BY <1>8 DEF StopInterval, ClearIfUnused, OneInterval, STypeOK
  <2> QED
    BY <1>8, <2>2, <2>3, <2>4 DEF StopInterval, STypeOK, sockets, books, process
<1>9. ASSUME NEW t \in Ticks, Tick(t) PROVE STypeOK'
  <2>1. [NoCall EXCEPT !.event = "interval",
           !.pairs = {p \in Pairs : rooms[p] # {}}] \in CallType
    BY DEF NoCall, CallType, IncomingEvents, NoBooks
  <2> QED
    BY <1>9, <2>1 DEF Tick, STypeOK, Tasks, Waits, sockets, timer, books, clients, process
<1>10. ASSUME NEW t \in Tasks, FailRead(t) PROVE STypeOK'
  <2>1. pc' \in [Tasks -> Waits] /\ call' \in [Tasks -> CallType] /\ draining' \in BOOLEAN
    BY <1>10, EndsEffect DEF FailRead
  <2> QED
    BY <1>10, <2>1 DEF FailRead, STypeOK, sockets, timer, books, clients
<1>11. ASSUME NEW t \in Tasks, NEW p \in Pairs, ReadBook(t, p) PROVE STypeOK'
  <2> DEFINE read == [call[t].books EXCEPT ![p] = version[p]]
  <2>1. read \in [Pairs -> Nat] /\ call[t] \in CallType
    BY DEF STypeOK, CallType
  <2>2. CASE call[t].pairs # {p}
    <3>1. [call[t] EXCEPT !.pairs = @ \ {p}, !.books = read] \in CallType
      BY <2>1 DEF CallType
    <3>2. call' \in [Tasks -> CallType]
      BY <1>11, <2>2, <3>1 DEF ReadBook, STypeOK
    <3> QED
      BY <1>11, <2>2, <3>2 DEF ReadBook, STypeOK, sockets, timer, process
  <2>3. CASE call[t].pairs = {p}
    <3>1. pc' \in [Tasks -> Waits] /\ call' \in [Tasks -> CallType] /\ draining' \in BOOLEAN
      BY <1>11, <2>3, EndsEffect DEF ReadBook
    <3>2. wire' \in Seq([Pairs -> Nat])
      <4>1. wire \in Seq([Pairs -> Nat]) /\ (wire' = wire \/ wire' = Append(wire, read))
        BY <1>11, <2>3 DEF ReadBook, STypeOK
      <4> QED
        <5> HIDE DEF read
        <5> QED
          BY <2>1, <4>1, AppendType
    <3>3. \A s \in Sockets : Received(s, read) \in [Pairs -> Nat]
      BY <2>1 DEF Received, STypeOK
    <3>4. seen' \in [Sockets -> [Pairs -> Nat]]
      <4>1. CASE call[t].event = "interval"
        BY <1>11, <2>3, <4>1 DEF ReadBook, STypeOK
      <4>2. CASE call[t].event # "interval" /\ call[t].socket \notin connected
        BY <1>11, <2>3, <4>2 DEF ReadBook, STypeOK
      <4>3. CASE call[t].event # "interval" /\ call[t].socket \in connected
        <5>1. seen' = [seen EXCEPT ![call[t].socket] = Received(call[t].socket, read)]
          BY <1>11, <2>3, <4>3 DEF ReadBook
        <5> QED
          BY <3>3, <4>3, <5>1 DEF STypeOK
      <4> QED
        BY <4>1, <4>2, <4>3
    <3> QED
      BY <1>11, <2>3, <3>1, <3>2, <3>4 DEF ReadBook, STypeOK, sockets, timer, process
  <2> QED
    BY <2>2, <2>3
<1>12. ASSUME NEW p \in Pairs, ChangeBook(p) PROVE STypeOK'
  BY <1>12 DEF ChangeBook, STypeOK, sockets, timer, clients, process
<1>13. ASSUME NEW p \in Pairs, Deliver(p) PROVE STypeOK'
  <2>1. wire # <<>> /\ wire \in Seq([Pairs -> Nat])
    BY <1>13 DEF Deliver, STypeOK
  <2>2. Head(wire) \in [Pairs -> Nat] /\ Tail(wire) \in Seq([Pairs -> Nat]) /\ Len(wire) >= 1
    BY <2>1
  <2>3. [Head(wire) EXCEPT ![p] = 0] \in [Pairs -> Nat]
    BY <2>2
  <2>4. [wire EXCEPT ![1] = [Head(wire) EXCEPT ![p] = 0]] \in Seq([Pairs -> Nat])
    BY <2>1, <2>2, <2>3
  <2>5. wire' \in Seq([Pairs -> Nat])
    BY <1>13, <2>2, <2>4 DEF Deliver
  <2>6. seen' \in [Sockets -> [Pairs -> Nat]]
    BY <1>13, <2>2 DEF Deliver, STypeOK
  <2> QED
    BY <1>13, <2>5, <2>6 DEF Deliver, STypeOK, sockets, timer, process
<1>14. CASE Sigterm
  BY <1>14 DEF Sigterm, STypeOK, sockets, timer, books, clients
<1>15. CASE Exit
  BY <1>15 DEF Exit, STypeOK, sockets, timer, books, clients
<1>16. CASE UNCHANGED vars
  BY <1>16 DEF vars, STypeOK
<1> QED
  BY <1>1, <1>2, <1>3, <1>4, <1>5, <1>6, <1>7, <1>8, <1>9, <1>10, <1>11, <1>12, <1>13,
     <1>14, <1>15, <1>16 DEF Next, Client, Continue
-----------------------------------------------------------------------------
(* Steps that leave rooms, interval and continuations alone.                *)

Quiet ==
  /\ UNCHANGED <<rooms, interval, timers, answered>>
  /\ connected \subseteq connected'
  /\ \A t \in Tasks : pc[t] \in LocalWaits \/ pc'[t] \in LocalWaits
                        => pc'[t] = pc[t] /\ call'[t] = call[t]
  /\ draining' = draining \/ \A t \in Tasks : pc'[t] \notin LocalWaits

\* A task that is not a continuation ends, starts to read or reads on.
LEMMA QuietSteps ==
  ASSUME STypeOK,
         \/ \E s \in Sockets : Connect(s) \/ \E h \in Handlers : RequestTopOrderBook(h, s)
         \/ \E t \in Ticks : Tick(t)
         \/ \E t \in Tasks : FailRead(t) \/ \E p \in Pairs : ReadBook(t, p)
         \/ \E p \in Pairs : ChangeBook(p) \/ Deliver(p)
         \/ Sigterm \/ Exit \/ UNCHANGED vars
  PROVE  Quiet
<1>1. ASSUME NEW s \in Sockets, Connect(s) PROVE Quiet
  BY <1>1 DEF Connect, Quiet, timer, clients
<1>2. ASSUME NEW t \in Tasks, t \in Handlers, NEW s \in Sockets, RequestTopOrderBook(t, s)
      PROVE  Quiet
  BY <1>2 DEF RequestTopOrderBook, Starts, Quiet, STypeOK, LocalWaits, sockets, timer, clients
<1>3. ASSUME NEW t \in Tasks, t \in Ticks, Tick(t) PROVE Quiet
  BY <1>3 DEF Tick, Quiet, STypeOK, LocalWaits, sockets, timer, clients
<1>4. ASSUME NEW t \in Tasks, FailRead(t) PROVE Quiet
  <2>1. \A u \in Tasks : pc[u] \notin LocalWaits /\ pc'[u] \notin LocalWaits
    BY <1>4, EndsEffect DEF FailRead, Drained, LocalWaits
  <2> QED
    BY <1>4, <2>1 DEF FailRead, Quiet, sockets, timer, clients
<1>5. ASSUME NEW t \in Tasks, NEW p \in Pairs, ReadBook(t, p) PROVE Quiet
  <2>1. CASE call[t].pairs # {p}
    BY <1>5, <2>1 DEF ReadBook, Drained, Quiet, sockets, timer
  <2>2. CASE call[t].pairs = {p}
    <3>1. Ends(t) /\ Drained
      BY <1>5, <2>2 DEF ReadBook
    <3>2. \A u \in Tasks : pc[u] \notin LocalWaits /\ pc'[u] \notin LocalWaits
      BY <3>1, EndsEffect DEF Drained, LocalWaits
    <3> QED
      BY <1>5, <3>2 DEF ReadBook, Quiet, sockets, timer
  <2> QED
    BY <2>1, <2>2
<1>6. ASSUME NEW p \in Pairs, ChangeBook(p) PROVE Quiet
  BY <1>6 DEF ChangeBook, Quiet, sockets, timer, clients
<1>7. ASSUME NEW p \in Pairs, Deliver(p) PROVE Quiet
  BY <1>7 DEF Deliver, Quiet, sockets, timer
<1>8. CASE Sigterm \/ Exit
  BY <1>8 DEF Sigterm, Exit, Quiet, sockets, timer, clients
<1>9. CASE UNCHANGED vars
  BY <1>9 DEF vars, Quiet
<1> QED
  BY <1>1, <1>2, <1>3, <1>4, <1>5, <1>6, <1>7, <1>8, <1>9 DEF Tasks

RestOK ==
  /\ RoomsOK
  /\ \A t \in Tasks : WaitsOK(t)
  /\ BatchOK
  /\ AcknowledgedOK
  /\ IntervalOK

\* Such a step keeps every part of the invariant.
LEMMA QuietKeeps == STypeOK /\ RestOK /\ Quiet => RestOK'
<1> SUFFICES ASSUME STypeOK, RestOK, Quiet PROVE RestOK'
  OBVIOUS
<1>1. RoomsOK'
  BY DEF RestOK, RoomsOK, Quiet
<1>2. ASSUME NEW t \in Tasks PROVE WaitsOK(t)'
  <2>1. WaitsOK(t)
    BY DEF RestOK
  <2>2. CASE pc'[t] \in LocalWaits
    BY <2>1, <2>2 DEF Quiet, WaitsOK, Found
  <2>3. CASE pc'[t] \notin LocalWaits
    BY <2>3 DEF WaitsOK, LocalWaits
  <2> QED
    BY <2>2, <2>3
<1>3. BatchOK'
  BY DEF RestOK, BatchOK, Quiet, Found
<1>4. AcknowledgedOK'
  <2> SUFFICES ASSUME NEW s \in Sockets, NEW p \in Pairs, Settled(s, p)'
               PROVE  s \in rooms'[p] <=> answered'[s][p] = "subscribed"
    BY DEF AcknowledgedOK
  <2>1. Settled(s, p)
    BY DEF Settled, Quiet, LocalWaits
  <2> QED
    BY <2>1 DEF RestOK, AcknowledgedOK, Quiet
<1>5. IntervalOK'
  BY DEF RestOK, IntervalOK, OneInterval, Quiet, LocalWaits
<1> QED
  BY <1>1, <1>2, <1>3, <1>4, <1>5 DEF RestOK
-----------------------------------------------------------------------------
(* The steps of continuations, and those that start and cut them off.       *)

\* A handler starts after those of its batch that have not changed a room yet,
\* and looks at the same rooms as they did.
LEMMA RequestRoomKeeps ==
  ASSUME STypeOK, RestOK, NEW h \in Handlers, NEW s \in Sockets, NEW p \in Pairs,
         NEW event \in {"subscribePair", "unsubscribePair"}, RequestRoom(h, s, p, event)
  PROVE  RestOK'
<1>1. h \in Tasks
  BY DEF Tasks
<1>2. UNCHANGED <<rooms, interval, timers, answered, connected, draining>>
  BY DEF RequestRoom, sockets, timer, clients
<1>3. /\ s \in connected
      /\ ~draining
      /\ pc[h] = "idle"
      /\ \A t \in Tasks : pc[t] \in LocalWaits => call[t].socket = s
  BY DEF RequestRoom, Starts
<1>4. /\ pc' = [pc EXCEPT ![h] = "checked"]
      /\ call' = [call EXCEPT ![h] = [NoCall EXCEPT !.event = event, !.socket = s, !.pair = p,
                                         !.pairs = SubscribedPairs(s)]]
  BY DEF RequestRoom
<1>5. pc'[h] = "checked" /\ \A t \in Tasks \ {h} : pc'[t] = pc[t] /\ call'[t] = call[t]
  BY <1>1, <1>4 DEF STypeOK
<1>6. call'[h].socket = s /\ call'[h].pair = p /\ call'[h].pairs = SubscribedPairs(s)
  BY <1>1, <1>4 DEF STypeOK, NoCall
<1>7. Found(h)' <=> s \in rooms[p]
  BY <1>6 DEF Found, SubscribedPairs
<1>8. \A t \in Tasks \ {h} : Found(t)' <=> Found(t)
  BY <1>5 DEF Found
<1>9. RoomsOK'
  BY <1>2 DEF RestOK, RoomsOK
<1>10. ASSUME NEW t \in Tasks PROVE WaitsOK(t)'
  <2>1. CASE t = h
    BY <2>1, <1>2, <1>3, <1>5, <1>6 DEF WaitsOK
  <2>2. CASE t # h
    BY <2>2, <1>2, <1>5, <1>8 DEF WaitsOK, RestOK
  <2> QED
    BY <2>1, <2>2
<1>11. BatchOK'
  <2>1. \A t \in Tasks \ {h} : pc[t] \in LocalWaits =>
          pc[t] = "checked" /\ call[t].socket = s /\ (Found(t) <=> s \in rooms[call[t].pair])
    BY <1>3 DEF RestOK, BatchOK
  <2>2. \A t \in Tasks : pc'[t] \in LocalWaits =>
          /\ pc'[t] = "checked"
          /\ call'[t].socket = s
          /\ Found(t)' <=> s \in rooms'[call'[t].pair]
    BY <2>1, <1>2, <1>5, <1>6, <1>7, <1>8
  <2> QED
    BY <2>2 DEF BatchOK
<1>12. AcknowledgedOK'
  BY <1>2, <1>3, <1>5 DEF RestOK, AcknowledgedOK, Settled
<1>13. IntervalOK'
  BY <1>2, <1>3, <1>5 DEF RestOK, IntervalOK, OneInterval
<1> QED
  BY <1>9, <1>10, <1>11, <1>12, <1>13 DEF RestOK

\* What a continuation that ends or goes on leaves of the batch.
LEMMA ContinuationEffect ==
  ASSUME STypeOK, RestOK, NEW h \in Tasks, pc[h] \in LocalWaits, NEW wait \in Waits,
         \/ Ends(h) /\ wait = "idle"
         \/ GoesOn(h, wait) /\ UNCHANGED call /\ wait \in LocalWaits
  PROVE  /\ pc'[h] = wait
         /\ \A t \in Tasks \ {h} : pc'[t] = pc[t]
         /\ \A t \in Tasks : pc'[t] \in LocalWaits =>
              /\ call'[t] = call[t]
              /\ pc[t] \in LocalWaits
              /\ Found(t)' <=> Found(t)
              /\ call[t].socket = call[h].socket
              /\ call[t].pair = call[h].pair => (Found(t) <=> Found(h))
         /\ BatchOK'
<1>1. /\ pc'[h] = wait
      /\ \A t \in Tasks \ {h} : pc'[t] = pc[t]
      /\ ~draining' => \A t \in Tasks : pc'[t] \notin LocalWaits
      /\ wait \notin LocalWaits => \A t \in Tasks \ {h} : call'[t] = call[t]
      /\ wait \in LocalWaits => UNCHANGED call
  BY GoesOnEffect, EndsEffect DEF LocalWaits
<1>2. \A t \in Tasks : pc'[t] \in LocalWaits => pc[t] \in LocalWaits /\ call'[t] = call[t]
  BY <1>1
<1>3. \A t \in Tasks : pc'[t] \in LocalWaits => (Found(t)' <=> Found(t))
  BY <1>2 DEF Found
<1>4. BatchOK
  BY DEF RestOK
<1>5. \A t, u \in Tasks : pc'[t] \in LocalWaits /\ pc'[u] \in LocalWaits =>
         /\ call[t].socket = call[u].socket
         /\ call[t].pair = call[u].pair => (Found(t) <=> Found(u))
  BY <1>2, <1>4 DEF BatchOK
<1>6. BatchOK'
  BY <1>1, <1>2, <1>3, <1>5 DEF BatchOK
<1>7. \A t \in Tasks : pc'[t] \in LocalWaits =>
         /\ call[t].socket = call[h].socket
         /\ call[t].pair = call[h].pair => (Found(t) <=> Found(h))
  BY <1>2, <1>4 DEF BatchOK
<1> QED
  BY <1>1, <1>2, <1>3, <1>6, <1>7

\* A handler that its check turns down changes nothing else.
LEMMA RefusedKeeps ==
  ASSUME STypeOK, RestOK, NEW h \in Tasks, pc[h] = "checked", Ends(h),
         UNCHANGED <<connected, rooms, interval, timers, answered>>
  PROVE  RestOK'
<1>1. "idle" \in Waits /\ "idle" \notin LocalWaits /\ "checked" \in LocalWaits
  BY DEF Waits, LocalWaits
<1>2. /\ pc'[h] = "idle"
      /\ \A t \in Tasks \ {h} : pc'[t] = pc[t]
      /\ \A t \in Tasks : pc'[t] \in LocalWaits => call'[t] = call[t] /\ (Found(t)' <=> Found(t))
      /\ BatchOK'
  BY <1>1, ContinuationEffect
<1>3. RoomsOK'
  BY DEF RestOK, RoomsOK
<1>4. ASSUME NEW t \in Tasks PROVE WaitsOK(t)'
  <2>1. CASE t = h
    BY <1>1, <1>2, <2>1 DEF WaitsOK
  <2>2. CASE t # h /\ pc'[t] \in LocalWaits
    BY <1>2, <2>2 DEF WaitsOK, RestOK
  <2>3. CASE pc'[t] \notin LocalWaits
    BY <2>3 DEF WaitsOK, LocalWaits
  <2> QED
    BY <2>1, <2>2, <2>3
<1>5. AcknowledgedOK'
  <2> SUFFICES ASSUME NEW s \in Sockets, NEW p \in Pairs, Settled(s, p)'
               PROVE  s \in rooms'[p] <=> answered'[s][p] = "subscribed"
    BY DEF AcknowledgedOK
  <2>1. Settled(s, p)
    BY <1>2 DEF Settled, LocalWaits
  <2> QED
    BY <2>1 DEF RestOK, AcknowledgedOK
<1>6. IntervalOK'
  BY <1>2 DEF RestOK, IntervalOK, OneInterval
<1> QED
  BY <1>2, <1>3, <1>4, <1>5, <1>6 DEF RestOK

\* A join changes the room of one pair, which no handler of the batch has left.
LEMMA JoinRoomKeeps == ASSUME STypeOK, RestOK, NEW h \in Handlers, JoinRoom(h) PROVE RestOK'
<1>1. h \in Tasks /\ pc[h] = "checked" /\ "checked" \in LocalWaits
  BY DEF Tasks, JoinRoom, LocalWaits
<1>2. UNCHANGED <<interval, timers, answered, connected>>
  BY DEF JoinRoom, timer, clients
<1>3. WaitsOK(h) /\ call[h].socket \in connected /\ call[h].pair \in Pairs
  BY <1>1 DEF RestOK, WaitsOK
<1>4. CASE Found(h) /\ Ends(h) /\ UNCHANGED rooms
  BY <1>1, <1>2, <1>4, RefusedKeeps
<1>5. CASE /\ ~Found(h)
           /\ GoesOn(h, "joined")
           /\ rooms' = [rooms EXCEPT ![call[h].pair] = @ \cup {call[h].socket}]
           /\ UNCHANGED call
  <2>1. "joined" \in Waits /\ "joined" \in LocalWaits
    BY DEF Waits, LocalWaits
  <2>2. /\ pc'[h] = "joined"
        /\ \A t \in Tasks \ {h} : pc'[t] = pc[t]
        /\ \A t \in Tasks : pc'[t] \in LocalWaits =>
             /\ pc[t] \in LocalWaits
             /\ Found(t)' <=> Found(t)
             /\ call[t].socket = call[h].socket
             /\ call[t].pair = call[h].pair => (Found(t) <=> Found(h))
        /\ BatchOK'
    BY <1>1, <1>5, <2>1, ContinuationEffect
  <2>3. /\ rooms'[call[h].pair] = rooms[call[h].pair] \cup {call[h].socket}
        /\ \A p \in Pairs \ {call[h].pair} : rooms'[p] = rooms[p]
    BY <1>3, <1>5 DEF STypeOK
  <2>4. RoomsOK'
    BY <1>2, <1>3, <2>3 DEF RestOK, RoomsOK
  <2>5. ASSUME NEW t \in Tasks PROVE WaitsOK(t)'
    <3>0. WaitsOK(t)
      BY DEF RestOK
    <3>1. CASE t = h
      BY <1>2, <1>3, <1>5, <2>2, <2>3, <3>1 DEF WaitsOK, Found
    <3>2. CASE t # h /\ pc'[t] \in LocalWaits
      BY <1>2, <1>3, <1>5, <2>2, <2>3, <3>0, <3>2 DEF WaitsOK
    <3>3. CASE pc'[t] \notin LocalWaits
      BY <3>3 DEF WaitsOK, LocalWaits
    <3> QED
      BY <3>1, <3>2, <3>3
  <2>6. AcknowledgedOK'
    <3> SUFFICES ASSUME NEW s \in Sockets, NEW p \in Pairs, Settled(s, p)'
                 PROVE  s \in rooms'[p] <=> answered'[s][p] = "subscribed"
      BY DEF AcknowledgedOK
    <3>1. ~(call[h].socket = s /\ call[h].pair = p)
      BY <1>1, <1>5, <2>2 DEF Settled
    <3>2. Settled(s, p)
      BY <1>1, <1>5, <2>2, <3>1 DEF Settled
    <3>3. s \in rooms[p] <=> answered[s][p] = "subscribed"
      BY <3>2 DEF RestOK, AcknowledgedOK
    <3> QED
      BY <1>2, <2>3, <3>1, <3>3
  <2>7. IntervalOK'
    BY <1>1, <1>2, <2>2 DEF RestOK, IntervalOK, OneInterval
  <2> QED
    BY <2>2, <2>4, <2>5, <2>6, <2>7 DEF RestOK
<1> QED
  BY <1>4, <1>5 DEF JoinRoom
\* An acknowledgement settles one pair of one socket, truthfully.
LEMMA AcknowledgeKeeps ==
  ASSUME STypeOK, RestOK, NEW h \in Tasks, NEW answer \in {"subscribed", "unsubscribed"},
         pc[h] = (IF answer = "subscribed" THEN "joined" ELSE "left"),
         Acknowledge(h, answer), Ends(h), UNCHANGED <<connected, rooms>>
  PROVE  RoomsOK' /\ (\A t \in Tasks : WaitsOK(t)') /\ BatchOK' /\ AcknowledgedOK'
<1>1. pc[h] \in LocalWaits /\ "idle" \in Waits /\ "idle" \notin LocalWaits
  BY DEF LocalWaits, Waits
<1>2. /\ pc'[h] = "idle"
      /\ \A t \in Tasks \ {h} : pc'[t] = pc[t] /\ call'[t] = call[t]
      /\ \A t \in Tasks : pc'[t] \in LocalWaits => call'[t] = call[t] /\ (Found(t)' <=> Found(t))
      /\ BatchOK'
  BY <1>1, ContinuationEffect, EndsEffect
<1>3. RoomsOK'
  BY DEF RestOK, RoomsOK
<1>4. ASSUME NEW t \in Tasks PROVE WaitsOK(t)'
  <2>1. CASE t = h
    BY <1>1, <1>2, <2>1 DEF WaitsOK
  <2>2. CASE t # h /\ pc'[t] \in LocalWaits
    BY <1>2, <2>2 DEF WaitsOK, RestOK
  <2>3. CASE pc'[t] \notin LocalWaits
    BY <2>3 DEF WaitsOK, LocalWaits
  <2> QED
    BY <2>1, <2>2, <2>3
<1>5. AcknowledgedOK'
  <2> SUFFICES ASSUME NEW s \in Sockets, NEW p \in Pairs, Settled(s, p)'
               PROVE  s \in rooms'[p] <=> answered'[s][p] = "subscribed"
    BY DEF AcknowledgedOK
  <2>1. WaitsOK(h)
    BY DEF RestOK
  <2>2. call[h].socket \in Sockets /\ call[h].pair \in Pairs
    BY <1>1, <2>1 DEF WaitsOK, STypeOK
  <2>3. answered' = [answered EXCEPT ![call[h].socket] =
                       [answered[call[h].socket] EXCEPT ![call[h].pair] = answer]]
    BY DEF Acknowledge
  <2>4. CASE s = call[h].socket /\ p = call[h].pair
    <3>1. answered'[s][p] = answer
      BY <2>2, <2>3, <2>4 DEF STypeOK
    <3>2. s \in rooms[p] <=> answer = "subscribed"
      BY <2>1, <2>4 DEF WaitsOK
    <3> QED
      BY <3>1, <3>2
  <2>5. CASE ~(s = call[h].socket /\ p = call[h].pair)
    <3>1. answered'[s][p] = answered[s][p]
      BY <2>2, <2>3, <2>5 DEF STypeOK
    <3>2. Settled(s, p)
      BY <1>2, <2>5 DEF Settled
    <3> QED
      BY <3>1, <3>2 DEF RestOK, AcknowledgedOK
  <2> QED
    BY <2>4, <2>5
<1> QED
  BY <1>2, <1>3, <1>4, <1>5

\* The interval is started for a socket that is connected.
LEMMA StartIntervalKeeps == ASSUME STypeOK, RestOK, NEW h \in Handlers, StartInterval(h) PROVE RestOK'
<1>1. h \in Tasks /\ pc[h] = "joined" /\ pc[h] \in LocalWaits
  BY DEF Tasks, StartInterval, LocalWaits
<1>2. Acknowledge(h, "subscribed") /\ Ends(h) /\ UNCHANGED <<connected, rooms>>
  BY DEF StartInterval, sockets
<1>3. RoomsOK' /\ (\A t \in Tasks : WaitsOK(t)') /\ BatchOK' /\ AcknowledgedOK'
  BY <1>1, <1>2, AcknowledgeKeeps
<1>4. call[h].socket \in connected
  BY <1>1 DEF RestOK, WaitsOK
<1>5. IntervalOK'
  BY <1>2, <1>4 DEF RestOK, IntervalOK, OneInterval, StartInterval
<1> QED
  BY <1>3, <1>5 DEF RestOK

\* A leave changes the room of one pair, which no handler of the batch has joined.
LEMMA LeaveRoomKeeps == ASSUME STypeOK, RestOK, NEW h \in Handlers, LeaveRoom(h) PROVE RestOK'
<1>1. h \in Tasks /\ pc[h] = "checked" /\ "checked" \in LocalWaits
  BY DEF Tasks, LeaveRoom, LocalWaits
<1>2. UNCHANGED <<interval, timers, answered, connected>>
  BY DEF LeaveRoom, timer, clients
<1>3. WaitsOK(h) /\ call[h].socket \in connected /\ call[h].pair \in Pairs
  BY <1>1 DEF RestOK, WaitsOK
<1>4. CASE ~Found(h) /\ Ends(h) /\ UNCHANGED rooms
  BY <1>1, <1>2, <1>4, RefusedKeeps
<1>5. CASE /\ Found(h)
           /\ GoesOn(h, "left")
           /\ rooms' = [rooms EXCEPT ![call[h].pair] = @ \ {call[h].socket}]
           /\ UNCHANGED call
  <2>1. "left" \in Waits /\ "left" \in LocalWaits
    BY DEF Waits, LocalWaits
  <2>2. /\ pc'[h] = "left"
        /\ \A t \in Tasks \ {h} : pc'[t] = pc[t]
        /\ \A t \in Tasks : pc'[t] \in LocalWaits =>
             /\ pc[t] \in LocalWaits
             /\ Found(t)' <=> Found(t)
             /\ call[t].socket = call[h].socket
             /\ call[t].pair = call[h].pair => (Found(t) <=> Found(h))
        /\ BatchOK'
    BY <1>1, <1>5, <2>1, ContinuationEffect
  <2>3. /\ rooms'[call[h].pair] = rooms[call[h].pair] \ {call[h].socket}
        /\ \A p \in Pairs \ {call[h].pair} : rooms'[p] = rooms[p]
    BY <1>3, <1>5 DEF STypeOK
  <2>4. RoomsOK'
    BY <1>2, <1>3, <2>3 DEF RestOK, RoomsOK
  <2>5. ASSUME NEW t \in Tasks PROVE WaitsOK(t)'
    <3>0. WaitsOK(t)
      BY DEF RestOK
    <3>1. CASE t = h
      BY <1>2, <1>3, <1>5, <2>2, <2>3, <3>1 DEF WaitsOK, Found
    <3>2. CASE t # h /\ pc'[t] \in LocalWaits
      BY <1>2, <1>3, <1>5, <2>2, <2>3, <3>0, <3>2 DEF WaitsOK
    <3>3. CASE pc'[t] \notin LocalWaits
      BY <3>3 DEF WaitsOK, LocalWaits
    <3> QED
      BY <3>1, <3>2, <3>3
  <2>6. AcknowledgedOK'
    <3> SUFFICES ASSUME NEW s \in Sockets, NEW p \in Pairs, Settled(s, p)'
                 PROVE  s \in rooms'[p] <=> answered'[s][p] = "subscribed"
      BY DEF AcknowledgedOK
    <3>1. ~(call[h].socket = s /\ call[h].pair = p)
      BY <1>1, <1>5, <2>2 DEF Settled
    <3>2. Settled(s, p)
      BY <1>1, <1>5, <2>2, <3>1 DEF Settled
    <3>3. s \in rooms[p] <=> answered[s][p] = "subscribed"
      BY <3>2 DEF RestOK, AcknowledgedOK
    <3> QED
      BY <1>2, <2>3, <3>1, <3>3
  <2>7. IntervalOK'
    <3>1. \A p \in Pairs : rooms'[p] \subseteq rooms[p]
      BY <2>3
    <3>2. \A t \in Tasks : pc[t] = "joined" => pc'[t] = "joined"
      BY <1>1, <2>2
    <3> QED
      BY <1>2, <3>1, <3>2 DEF RestOK, IntervalOK, OneInterval
  <2> QED
    BY <2>2, <2>4, <2>5, <2>6, <2>7 DEF RestOK
<1> QED
  BY <1>4, <1>5 DEF LeaveRoom

\* The socket that leaves a room is connected, so its own room is left, and the
\* interval runs on.
LEMMA StopIntervalKeeps == ASSUME STypeOK, RestOK, NEW h \in Handlers, StopInterval(h) PROVE RestOK'
<1>1. h \in Tasks /\ pc[h] = "left" /\ pc[h] \in LocalWaits
  BY DEF Tasks, StopInterval, LocalWaits
<1>2. Acknowledge(h, "unsubscribed") /\ Ends(h) /\ UNCHANGED <<connected, rooms>>
  BY DEF StopInterval, sockets
<1>3. RoomsOK' /\ (\A t \in Tasks : WaitsOK(t)') /\ BatchOK' /\ AcknowledgedOK'
  BY <1>1, <1>2, AcknowledgeKeeps
<1>4. call[h].socket \in connected
  BY <1>1 DEF RestOK, WaitsOK
<1>5. UNCHANGED <<interval, timers>>
  BY <1>4 DEF StopInterval, ClearIfUnused, ActiveRooms, STypeOK
<1>6. \A t \in Tasks : pc[t] = "joined" => pc'[t] = "joined"
  BY <1>1, <1>2, EndsEffect
<1>7. IntervalOK'
  BY <1>2, <1>5, <1>6 DEF RestOK, IntervalOK, OneInterval
<1> QED
  BY <1>3, <1>7 DEF RestOK

\* A socket disconnects between batches; the last one stops the interval.
LEMMA DisconnectKeeps == ASSUME STypeOK, RestOK, NEW s \in Sockets, Disconnect(s) PROVE RestOK'
<1>1. \A t \in Tasks : pc'[t] = pc[t] /\ pc'[t] \notin LocalWaits
  BY DEF Disconnect, Drained
<1>2. connected' = connected \ {s} /\ rooms' = [p \in Pairs |-> rooms[p] \ {s}]
  BY DEF Disconnect
<1>3. RoomsOK'
  BY <1>2 DEF RestOK, RoomsOK
<1>4. \A t \in Tasks : WaitsOK(t)'
  BY <1>1 DEF WaitsOK, LocalWaits
<1>5. BatchOK'
  BY <1>1 DEF BatchOK
<1>6. AcknowledgedOK'
  <2> SUFFICES ASSUME NEW r \in Sockets, NEW p \in Pairs
               PROVE  r \in rooms'[p] <=> answered'[r][p] = "subscribed"
    BY DEF AcknowledgedOK
  <2>1. Settled(r, p)
    BY <1>1 DEF Settled, LocalWaits
  <2>2. answered' = [answered EXCEPT ![s] = NoAnswers]
    BY DEF Disconnect
  <2> QED
    BY <1>2, <2>1, <2>2 DEF RestOK, AcknowledgedOK, STypeOK, NoAnswers
<1>7. IntervalOK'
  <2>1. ClearIfUnused(ActiveRooms(connected', rooms'))
    BY DEF Disconnect
  <2>2. OneInterval'
    <3>1. OneInterval
      BY DEF RestOK, IntervalOK
    <3>2. CASE interval /\ ActiveRooms(connected', rooms') = {}
      <4>1. timers' = timers - 1 /\ timers = 1 /\ ~interval'
        BY <2>1, <3>1, <3>2 DEF ClearIfUnused, OneInterval
      <4> QED
        BY <4>1 DEF OneInterval
    <3>3. CASE ~(interval /\ ActiveRooms(connected', rooms') = {})
      <4>1. timers' = timers /\ (interval' <=> interval)
        BY <2>1, <3>3 DEF ClearIfUnused
      <4> QED
        BY <3>1, <4>1 DEF OneInterval
    <3> QED
      BY <3>2, <3>3
  <2>3. ASSUME NEW p \in Pairs, rooms'[p] # {} PROVE interval'
    <3>1. rooms[p] # {}
      BY <1>2, <2>3
    <3>2. interval
      BY <1>1, <3>1 DEF RestOK, IntervalOK, LocalWaits
    <3> QED
      BY <2>1, <2>3, <3>2 DEF ClearIfUnused, ActiveRooms
  <2>4. interval' => connected' # {}
    <3>1. interval' => ActiveRooms(connected', rooms') # {}
      BY <2>1 DEF ClearIfUnused
    <3> QED
      BY <1>3, <3>1 DEF ActiveRooms, RoomsOK
  <2> QED
    BY <2>2, <2>3, <2>4 DEF IntervalOK
<1> QED
  BY <1>3, <1>4, <1>5, <1>6, <1>7 DEF RestOK
-----------------------------------------------------------------------------
\* Nobody is connected and nothing runs.
LEMMA InitInvariant == Init => SInv
<1> SUFFICES ASSUME Init PROVE SInv
  OBVIOUS
<1>1. STypeOK
  <2>1. <<>> \in Seq([Pairs -> Nat])
    OBVIOUS
  <2> QED
    BY <2>1, NoCallType DEF Init, STypeOK, Waits
<1>2. \A t \in Tasks : pc[t] = "idle"
  BY DEF Init
<1>3. \A t \in Tasks : WaitsOK(t)
  BY <1>2 DEF WaitsOK, LocalWaits
<1>4. BatchOK
  BY <1>2 DEF BatchOK, LocalWaits
<1>5. AcknowledgedOK
  BY DEF Init, AcknowledgedOK, NoAnswers
<1>6. RoomsOK /\ IntervalOK
  BY DEF Init, RoomsOK, IntervalOK, OneInterval
<1> QED
  BY <1>1, <1>3, <1>4, <1>5, <1>6 DEF SInv

\* Every step keeps the invariant.
LEMMA StepInvariant == SInv /\ [Next]_vars => SInv'
<1> SUFFICES ASSUME SInv, [Next]_vars PROVE SInv'
  OBVIOUS
<1>1. STypeOK /\ RestOK
  BY DEF SInv, RestOK
<1>2. STypeOK'
  BY <1>1, TypeStep DEF RestOK, IntervalOK
<1>3. RestOK'
  <2>1. ASSUME NEW s \in Sockets, NEW h \in Handlers, NEW p \in Pairs,
               RequestRoom(h, s, p, "subscribePair") \/ RequestRoom(h, s, p, "unsubscribePair")
        PROVE  RestOK'
    BY <1>1, <2>1, RequestRoomKeeps
  <2>2. ASSUME NEW s \in Sockets, Disconnect(s) PROVE RestOK'
    BY <1>1, <2>2, DisconnectKeeps
  <2>3. ASSUME NEW h \in Handlers, Continue(h) PROVE RestOK'
    BY <1>1, <2>3, JoinRoomKeeps, StartIntervalKeeps, LeaveRoomKeeps, StopIntervalKeeps
       DEF Continue
  <2>4. CASE \/ \E s \in Sockets : Connect(s) \/ \E h \in Handlers : RequestTopOrderBook(h, s)
             \/ \E t \in Ticks : Tick(t)
             \/ \E t \in Tasks : FailRead(t) \/ \E p \in Pairs : ReadBook(t, p)
             \/ \E p \in Pairs : ChangeBook(p) \/ Deliver(p)
             \/ Sigterm \/ Exit \/ UNCHANGED vars
    <3>1. Quiet
      BY <1>1, <2>4, QuietSteps
    <3> QED
      BY <1>1, <3>1, QuietKeeps
  <2> QED
    BY <2>1, <2>2, <2>3, <2>4 DEF Next, Client
<1> QED
  BY <1>2, <1>3 DEF SInv, RestOK

\* The continuations of a batch agree, rooms match what clients were told, and a
\* subscriber has an interval or somebody about to start it.
THEOREM SubscriptionInvariantHolds == Spec => []SInv
<1> QED
  BY InitInvariant, StepInvariant, PTL DEF Spec

\* Every variable keeps its type, whatever clients send and whatever fails.
THEOREM SubscriptionTypeCorrect == Spec => []STypeOK
<1>1. SInv => STypeOK
  BY DEF SInv
<1> QED
  BY <1>1, SubscriptionInvariantHolds, PTL

\* Whoever is in the room of a pair between two batches has an interval that reads
\* its book, for any number of sockets and of events in a batch.
THEOREM SubscribersAlwaysHaveInterval == Spec => []SubscribersHaveInterval
<1>1. SInv => SubscribersHaveInterval
  BY DEF SInv, IntervalOK, SubscribersHaveInterval, Drained, LocalWaits
<1> QED
  BY <1>1, SubscriptionInvariantHolds, PTL

\* There is one timer, and clearInterval can reach it.
THEOREM OneIntervalAlways == Spec => []OneInterval
<1>1. SInv => OneInterval
  BY DEF SInv, IntervalOK
<1> QED
  BY <1>1, SubscriptionInvariantHolds, PTL

\* The timer is gone when the last socket is.
THEOREM IntervalAlwaysStops == Spec => []IntervalStopsWithLastSocket
<1>1. SInv => IntervalStopsWithLastSocket
  BY DEF SInv, IntervalOK, OneInterval, IntervalStopsWithLastSocket
<1> QED
  BY <1>1, SubscriptionInvariantHolds, PTL

\* Between two batches a client is in the rooms it was told it is in.
THEOREM AnswersAlwaysTrue == Spec => []AnswersAreTrue
<1>1. SInv => AnswersAreTrue
  BY DEF SInv, AcknowledgedOK, Settled, AnswersAreTrue, Drained, LocalWaits
<1> QED
  BY <1>1, SubscriptionInvariantHolds, PTL
=============================================================================
