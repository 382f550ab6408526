------------------------ MODULE SubscriptionInvariant ------------------------
(***************************************************************************)
(* The inductive invariant of Subscription: what the continuations of a    *)
(* batch know, and who keeps the interval running.                         *)
(***************************************************************************)
EXTENDS SubscriptionProperties

\* Each continuation belongs to a connected socket, and has passed its check.
WaitsOK(t) ==
  /\ pc[t] \in LocalWaits => call[t].socket \in connected /\ call[t].pair \in Pairs
  /\ pc[t] = "joined" => ~Found(t) /\ call[t].socket \in rooms[call[t].pair]
  /\ pc[t] = "left" => Found(t) /\ call[t].socket \notin rooms[call[t].pair]

\* The handlers of a batch looked at the same rooms: those of one pair agree.
BatchOK ==
  /\ \A t, u \in Tasks :
       pc[t] \in LocalWaits /\ pc[u] \in LocalWaits =>
         /\ call[t].socket = call[u].socket
         /\ call[t].pair = call[u].pair => (Found(t) <=> Found(u))
  /\ ~draining => \A t \in Tasks : pc[t] \in LocalWaits =>
       pc[t] = "checked" /\ (Found(t) <=> call[t].socket \in rooms[call[t].pair])

\* Nobody has changed the room of s and p without acknowledging it yet.
Settled(s, p) ==
  \A t \in Tasks : pc[t] \in {"joined", "left"} => ~(call[t].socket = s /\ call[t].pair = p)

AcknowledgedOK ==
  \A s \in Sockets, p \in Pairs :
    Settled(s, p) => (s \in rooms[p] <=> answered[s][p] = "subscribed")

IntervalOK ==
  /\ (\E p \in Pairs : rooms[p] # {}) => interval \/ \E t \in Tasks : pc[t] = "joined"
  /\ OneInterval
  /\ interval => connected # {}

RoomsOK == \A p \in Pairs : rooms[p] \subseteq connected

SInv ==
  /\ STypeOK
  /\ RoomsOK
  /\ \A t \in Tasks : WaitsOK(t)
  /\ BatchOK
  /\ AcknowledgedOK
  /\ IntervalOK
=============================================================================
