---------------------------- MODULE Subscription ----------------------------
(***************************************************************************)
(* The /subscription namespace of one API instance: sockets that join and  *)
(* leave the rooms of pairs, the interval that reads the books of the      *)
(* active pairs and broadcasts them, the books that clients ask for, and   *)
(* what becomes of the process when a read of the interval fails.          *)
(*                                                                         *)
(* Node runs one callback at a time.  The awaits of subscribePair and      *)
(* unsubscribePair wait for nothing but promises that are already settled  *)
(* (rooms live in memory), so their continuations run before the event     *)
(* loop takes the next packet, timer or reply.  They interleave only with  *)
(* each other, when several events of a socket arrive in one batch:        *)
(* Socket.IO calls all their handlers first.  The awaits of the book reads *)
(* wait for Redis, and anything may happen meanwhile.                      *)
(***************************************************************************)
EXTENDS Integers, Sequences

CONSTANTS
  Sockets,      \* socket ids
  Pairs,        \* SupportedPairs
  Handlers,     \* handlers of client events that can be in flight together
  Ticks,        \* interval callbacks that can be in flight together
  NoSocket,     \* the socket of an interval callback
  NoPair,       \* the pair of a getTopOrderBook
  MaxVersion,   \* bound on the changes of each book
  MaxWire,      \* bound on the broadcasts that are being published
  MaxFaults     \* bound on the reads that fail

IncomingEvents == {"subscribePair", "unsubscribePair", "getTopOrderBook"}

ASSUME SubscriptionAssumption ==
  /\ Handlers \cap Ticks = {}
  /\ NoSocket \notin Sockets
  /\ NoPair \notin Pairs
  /\ MaxVersion \in Nat /\ MaxWire \in Nat /\ MaxFaults \in Nat

Tasks == Handlers \cup Ticks

VARIABLES
  connected,  \* the sockets of the namespace
  rooms,      \* rooms[p]: the sockets in the room of pair p
  interval,   \* whether #broadcastInterval holds a timer
  timers,     \* how many timers run
  version,    \* version[p]: counts the changes of the order book of p
  wire,       \* the books of broadcasts that the adapter is publishing, oldest first
  answered,   \* answered[s][p]: the last acknowledgement about p on the connection of s
  seen,       \* seen[s][p]: the last version of the book of p it got on it, or 0
  server,     \* the HTTP server and the process
  pc,         \* pc[t]: what task t waits for
  call,       \* call[t]: the local variables of task t
  draining,   \* whether continuations of a batch run
  faults      \* how many reads failed

vars == <<connected, rooms, interval, timers, version, wire, answered, seen,
          server, pc, call, draining, faults>>

CallType ==
  [event : IncomingEvents \cup {"none", "interval"},
   socket : Sockets \cup {NoSocket},
   pair : Pairs \cup {NoPair},
   pairs : SUBSET Pairs,       \* subscribedPairs or activePairs, but those read already
   books : [Pairs -> Nat]]     \* bidsAsksOfSubscribedPairs, 0 where not read

NoBooks == [p \in Pairs |-> 0]
NoAnswers == [p \in Pairs |-> "none"]

NoCall ==
  [event |-> "none", socket |-> NoSocket, pair |-> NoPair, pairs |-> {},
   books |-> NoBooks]

Waits == {"idle", "checked", "joined", "left", "reading"}

STypeOK ==
  /\ connected \in SUBSET Sockets
  /\ rooms \in [Pairs -> SUBSET Sockets]
  /\ interval \in BOOLEAN
  /\ timers \in Nat
  /\ version \in [Pairs -> Nat]
  /\ wire \in Seq([Pairs -> Nat])
  /\ answered \in [Sockets -> [Pairs -> {"none", "subscribed", "unsubscribed"}]]
  /\ seen \in [Sockets -> [Pairs -> Nat]]
  /\ server \in {"listening", "closing", "exiting", "exited"}
  /\ pc \in [Tasks -> Waits]
  /\ call \in [Tasks -> CallType]
  /\ draining \in BOOLEAN
  /\ faults \in Nat

Init ==
  /\ connected = {}
  /\ rooms = [p \in Pairs |-> {}]
  /\ interval = FALSE
  /\ timers = 0
  /\ version = [p \in Pairs |-> 1]
  /\ wire = <<>>
  /\ answered = [s \in Sockets |-> NoAnswers]
  /\ seen = [s \in Sockets |-> NoBooks]
  /\ server = "listening"
  /\ pc = [t \in Tasks |-> "idle"]
  /\ call = [t \in Tasks |-> NoCall]
  /\ draining = FALSE
  /\ faults = 0

sockets == <<connected, rooms>>
timer == <<interval, timers>>
books == <<version, wire>>
clients == <<answered, seen>>
process == <<server, faults>>
-----------------------------------------------------------------------------
(* The event loop.                                                          *)

\* Waits for settled promises only.
LocalWaits == {"checked", "joined", "left"}

\* The event loop is free to take the next packet, timer or reply.
Drained == server # "exited" /\ \A t \in Tasks : pc[t] \notin LocalWaits

\* Task t waits for something else; the batch lasts while continuations are left.
GoesOn(t, wait) ==
  /\ pc' = [pc EXCEPT ![t] = wait]
  /\ draining' = \E u \in Tasks : pc'[u] \in LocalWaits

Ends(t) ==
  /\ GoesOn(t, "idle")
  /\ call' = [call EXCEPT ![t] = NoCall]

\* A socket that connects has an id that no handler still holds.
Connect(s) ==
  /\ Drained
  /\ server = "listening"
  /\ s \notin connected
  /\ \A t \in Tasks : call[t].socket # s
  /\ connected' = connected \cup {s}
  /\ UNCHANGED <<rooms, timer, books, clients, process, pc, call, draining>>

\* The handler of an event of socket s starts, after those of the same batch.
Starts(h, s) ==
  /\ server # "exited"
  /\ pc[h] = "idle"
  /\ s \in connected
  /\ ~draining
  /\ \A t \in Tasks : pc[t] \in LocalWaits => call[t].socket = s
-----------------------------------------------------------------------------
(* Rooms and the interval.                                                  *)

SubscribedPairs(s) == {p \in Pairs : s \in rooms[p]}

\* nameSpace.adapter.rooms: besides the rooms of the pairs, every socket is in
\* a room of its own, named by its id.
ActiveRooms(members, pairRooms) == members \cup {p \in Pairs : pairRooms[p] # {}}

\* Mutant of ClearIfUnused: the interval is cleared whatever rooms are left.
ClearAlways(active) ==
  /\ interval' = FALSE
  /\ timers' = IF interval THEN timers - 1 ELSE timers

\* Mutant of ClearIfUnused: clears a timer without a look at the handle.
ClearUnchecked(active) ==
  /\ interval' = (interval /\ active # {})
  /\ timers' = IF active = {} THEN timers - 1 ELSE timers

\* Mutant of ClearIfUnused: the handle is forgotten and its timer runs on.
ForgetIfUnused(active) ==
  /\ interval' = (interval /\ active # {})
  /\ UNCHANGED timers

ClearIfUnused(active) ==
  /\ interval' = (interval /\ active # {})
  /\ timers' = IF interval /\ active = {} THEN timers - 1 ELSE timers

\* subscribePair and unsubscribePair up to the await of #isSubscribed, which
\* looks at the rooms at once.
RequestRoom(h, s, p, event) ==
  /\ Starts(h, s)
  /\ pc' = [pc EXCEPT ![h] = "checked"]
  /\ call' = [call EXCEPT ![h] = [NoCall EXCEPT !.event = event, !.socket = s, !.pair = p,
                                    !.pairs = SubscribedPairs(s)]]
  /\ UNCHANGED <<sockets, timer, books, clients, process, draining>>

\* What #isSubscribed returned.
Found(h) == call[h].pair \in call[h].pairs

\* Mutant of JoinRoom: joins whatever #isSubscribed found.
JoinRoomUnchecked(h) ==
  /\ pc[h] = "checked"
  /\ call[h].event = "subscribePair"
  /\ GoesOn(h, "joined")
  /\ rooms' = [rooms EXCEPT ![call[h].pair] = @ \cup {call[h].socket}]
  /\ UNCHANGED <<connected, timer, books, clients, process, call>>

\* subscribePair: an error, or socket.join.
JoinRoom(h) ==
  /\ pc[h] = "checked"
  /\ call[h].event = "subscribePair"
  /\ \/ Found(h) /\ Ends(h) /\ UNCHANGED rooms
     \/ /\ ~Found(h)
        /\ GoesOn(h, "joined")
        /\ rooms' = [rooms EXCEPT ![call[h].pair] = @ \cup {call[h].socket}]
        /\ UNCHANGED call
  /\ UNCHANGED <<connected, timer, books, clients, process>>

Acknowledge(h, answer) ==
  answered' = [answered EXCEPT ![call[h].socket] = [@ EXCEPT ![call[h].pair] = answer]]

\* Mutant of StartInterval: a timer for every subscription.
StartAnotherInterval(h) ==
  /\ pc[h] = "joined"
  /\ interval' = TRUE
  /\ timers' = timers + 1
  /\ Acknowledge(h, "subscribed")
  /\ Ends(h)
  /\ UNCHANGED <<sockets, books, seen, process>>

StartInterval(h) ==
  /\ pc[h] = "joined"
  /\ interval' = TRUE
  /\ timers' = IF interval THEN timers ELSE timers + 1
  /\ Acknowledge(h, "subscribed")
  /\ Ends(h)
  /\ UNCHANGED <<sockets, books, seen, process>>

\* unsubscribePair: an error, or socket.leave.
LeaveRoom(h) ==
  /\ pc[h] = "checked"
  /\ call[h].event = "unsubscribePair"
  /\ \/ ~Found(h) /\ Ends(h) /\ UNCHANGED rooms
     \/ /\ Found(h)
        /\ GoesOn(h, "left")
        /\ rooms' = [rooms EXCEPT ![call[h].pair] = @ \ {call[h].socket}]
        /\ UNCHANGED call
  /\ UNCHANGED <<connected, timer, books, clients, process>>

StopInterval(h) ==
  /\ pc[h] = "left"
  /\ ClearIfUnused(ActiveRooms(connected, rooms))
  /\ Acknowledge(h, "unsubscribed")
  /\ Ends(h)
  /\ UNCHANGED <<sockets, books, seen, process>>

\* Socket.IO takes the socket out of its rooms, then calls #cleanupBroadcasts.
Disconnect(s) ==
  LET members == connected \ {s}
      pairRooms == [p \in Pairs |-> rooms[p] \ {s}]
  IN  /\ Drained
      /\ s \in connected
      /\ connected' = members
      /\ rooms' = pairRooms
      /\ ClearIfUnused(ActiveRooms(members, pairRooms))
      /\ answered' = [answered EXCEPT ![s] = NoAnswers]
      /\ seen' = [seen EXCEPT ![s] = NoBooks]
      /\ UNCHANGED <<books, process, pc, call, draining>>
-----------------------------------------------------------------------------
(* Books.                                                                   *)

\* Some order or trade handler changes the book of p.
ChangeBook(p) ==
  /\ Drained
  /\ version[p] < MaxVersion
  /\ version' = [version EXCEPT ![p] = @ + 1]
  /\ UNCHANGED <<sockets, timer, wire, clients, process, pc, call, draining>>

\* getTopOrderBook: the pairs of the socket, as it is now.  With none, it is
\* answered at once and nothing changes.
RequestTopOrderBook(h, s) ==
  /\ Starts(h, s)
  /\ SubscribedPairs(s) # {}
  /\ pc' = [pc EXCEPT ![h] = "reading"]
  /\ call' = [call EXCEPT ![h] = [NoCall EXCEPT !.event = "getTopOrderBook", !.socket = s,
                                    !.pairs = SubscribedPairs(s)]]
  /\ UNCHANGED <<sockets, timer, books, clients, process, draining>>

\* The interval's callback: the pairs that are rooms now.  With none, it ends
\* at once and nothing changes.
Tick(t) ==
  LET activePairs == {p \in Pairs : rooms[p] # {}}
  IN  /\ Drained
      /\ timers > 0
      /\ pc[t] = "idle"
      /\ activePairs # {}
      /\ Len(wire) < MaxWire
      /\ pc' = [pc EXCEPT ![t] = "reading"]
      /\ call' = [call EXCEPT ![t] = [NoCall EXCEPT !.event = "interval", !.pairs = activePairs]]
      /\ UNCHANGED <<sockets, timer, books, clients, process, draining>>

Received(s, read) == [p \in Pairs |-> IF read[p] # 0 THEN read[p] ELSE seen[s][p]]

\* getTopBids and getTopAsks of one pair; after the last one, the answer to the
\* client, if it is still there, or the broadcasts.
ReadBook(t, p) ==
  LET read == [call[t].books EXCEPT ![p] = version[p]]
      s == call[t].socket
  IN  /\ Drained
      /\ pc[t] = "reading"
      /\ p \in call[t].pairs
      /\ IF call[t].pairs # {p}
         THEN /\ call' = [call EXCEPT ![t].pairs = @ \ {p}, ![t].books = read]
              /\ UNCHANGED <<wire, seen, pc, draining>>
         ELSE /\ Ends(t)
              /\ IF call[t].event = "interval"
                 THEN wire' = Append(wire, read) /\ UNCHANGED seen
                 ELSE /\ seen' = IF s \in connected
                                 THEN [seen EXCEPT ![s] = Received(s, read)] ELSE seen
                      /\ UNCHANGED wire
      /\ UNCHANGED <<sockets, timer, version, answered, process>>

\* The adapter has published a broadcast: it reaches those that are in the room
\* by now.  Broadcasts are published in the order they were emitted.
Deliver(p) ==
  LET read == Head(wire)
  IN  /\ Drained
      /\ wire # <<>>
      /\ read[p] # 0
      /\ seen' = [s \in Sockets |->
                    IF s \in rooms[p] THEN [seen[s] EXCEPT ![p] = read[p]] ELSE seen[s]]
      /\ wire' = IF \A q \in Pairs \ {p} : read[q] = 0 THEN Tail(wire)
                 ELSE [wire EXCEPT ![1] = [read EXCEPT ![p] = 0]]
      /\ UNCHANGED <<sockets, timer, version, answered, process, pc, call, draining>>
-----------------------------------------------------------------------------
(* Failures and the process.                                                *)

\* A read is rejected.  getTopOrderBook catches it and answers gatewayError.  The
\* catch of the interval's callback evaluates a variable that does not exist: its
\* promise is rejected unhandled, and exitHandler closes the server, to exit.
FailRead(t) ==
  /\ Drained
  /\ pc[t] = "reading"
  /\ faults < MaxFaults
  /\ faults' = faults + 1
  /\ server' = IF call[t].event = "interval" THEN "exiting" ELSE server
  /\ Ends(t)
  /\ UNCHANGED <<sockets, timer, books, clients>>

\* The server takes no more connections; the process goes on.
Sigterm ==
  /\ Drained
  /\ server = "listening"
  /\ server' = "closing"
  /\ UNCHANGED <<sockets, timer, books, clients, pc, call, draining, faults>>

\* The callback of exitHandler's close runs once the last connection is gone.
Exit ==
  /\ Drained
  /\ server = "exiting"
  /\ connected = {}
  /\ server' = "exited"
  /\ UNCHANGED <<sockets, timer, books, clients, pc, call, draining, faults>>
-----------------------------------------------------------------------------
Client(s) ==
  \/ Connect(s)
  \/ Disconnect(s)
  \/ \E h \in Handlers :
       \/ \E p \in Pairs : \/ RequestRoom(h, s, p, "subscribePair")
                           \/ RequestRoom(h, s, p, "unsubscribePair")
       \/ RequestTopOrderBook(h, s)

Continue(h) == JoinRoom(h) \/ StartInterval(h) \/ LeaveRoom(h) \/ StopInterval(h)

Next ==
  \/ \E s \in Sockets : Client(s)
  \/ \E h \in Handlers : Continue(h)
  \/ \E t \in Ticks : Tick(t)
  \/ \E t \in Tasks : FailRead(t) \/ \E p \in Pairs : ReadBook(t, p)
  \/ \E p \in Pairs : ChangeBook(p) \/ Deliver(p)
  \/ Sigterm \/ Exit

Spec == Init /\ [][Next]_vars

\* Continuations of settled promises run at once.  Timers fire and replies come,
\* in the turns between batches: a free turn comes again and again, which is why
\* the fairness of what waits for a turn is strong.
FairSpec ==
  /\ Spec
  /\ \A h \in Handlers : WF_vars(Continue(h))
  /\ \A t \in Ticks : SF_vars(Tick(t))
  /\ \A t \in Tasks : SF_vars(\E p \in Pairs : ReadBook(t, p))
  /\ SF_vars(\E p \in Pairs : Deliver(p))
=============================================================================
