----------------------- MODULE NotificationsInvariant -----------------------
(***************************************************************************)
(* The inductive invariant of Notifications, on top of OrderMatching's: an *)
(* update that is on its way or has arrived is true (HeardOK); as long as  *)
(* nothing is lost, what happened to the book has been heard, is on its    *)
(* way, or somebody still has to tell it (ReachOK); and each trade is told *)
(* by one handler, by one broadcast or not any more (CountOK).             *)
(***************************************************************************)
EXTENDS NotificationsProperties, OrderMatchingInvariant

\* Finitely many handlers are in flight at the same time.
ASSUME HandlersAssumption == IsFiniteSet(Handlers)

\* An instance publishes a broadcast before it takes on the next event.
PublishingOK == \A h \in Handlers : pc[h] # "idle" => publishing[h] = NoBroadcast

\* The broadcasts that the subscriber has not received yet.
Pending ==
  ({publishing[h] : h \in Handlers} \cup {unread[i] : i \in 1 .. Len(unread)}) \ {NoBroadcast}

\* The trade that handler h makes, or has made.
TradeOf(h) ==
  [buyOrderId |-> call[h].top["BUY"].orderId, sellOrderId |-> call[h].top["SELL"].orderId,
   quantity |-> MatchQuantity(h), price |-> MatchPrice(h)]

IsStored(t) == \E j \in 1 .. Len(trades) : t = trades[j]

IsTrue(u) ==
  IF u.eventEmit = "tradeUpdate" THEN IsStored(u.data)
  ELSE u.data.status # "OPEN" => u.data.orderId \in listed /\ ~InBook(u.data.orderId)

HeardOK ==
  /\ \A h \in Handlers : Matched(h) => IsStored(TradeOf(h))
  /\ \A u \in Pending : IsTrue(u)
  /\ \A o \in Orders : announced[o] \cap {"CANCELLED", "FILLED"} # {} => o \in listed /\ ~InBook(o)
  /\ \A i \in 1 .. Len(tradeUpdates) : IsStored(tradeUpdates[i])
-----------------------------------------------------------------------------
OnlyLimitOrders == \A r \in Requests : r.orderType = "LIMIT"

\* createOrder of a LIMIT order does not match.
CreatesLimit(h) ==
  call[h].event = "createOrder" =>
    /\ ~Matched(h)
    /\ pc[h] \in {"saveOrder", "addToBook", "respond"}
    /\ placed[call[h].subject].orderType = "LIMIT"

\* The status x of o, or a trade of o, has been heard or is on its way.
StatusHeard(o, x) ==
  \/ x \in announced[o]
  \/ \E u \in Pending :
       u.eventEmit = "orderBookUpdate" /\ u.data.orderId = o /\ u.data.status = x

TradeHeard(o) ==
  \/ InTradeUpdate(o)
  \/ \E u \in Pending :
       u.eventEmit = "tradeUpdate" /\ o \in {u.data.buyOrderId, u.data.sellOrderId}

Heard(o) == StatusHeard(o, "CANCELLED") \/ StatusHeard(o, "FILLED") \/ TradeHeard(o)

\* Handler h has taken o out of the book, or made a trade of it, and will say so.
WillTell(h, o) ==
  \/ /\ call[h].event \in {"cancelOrder", "fillOrder"} /\ call[h].subject = o
     /\ pc[h] \in {"saveStatus", "respond"}
  \/ /\ call[h].event = "matchTopOrders" /\ Matched(h)
     /\ \E s \in Sides : call[h].top[s].orderId = o

ReachOK ==
  OnlyLimitOrders =>
    /\ \A h \in Handlers : CreatesLimit(h)
    /\ NothingLost => \A o \in listed :
         /\ StatusHeard(o, "OPEN") \/ \E h \in Handlers : Creates(h, o) /\ pc[h] = "respond"
         /\ InBook(o) \/ Heard(o) \/ \E h \in Handlers : WillTell(h, o)
-----------------------------------------------------------------------------
\* The broadcast that tells t.
UpdateOf(t) == Success("tradeUpdate", "tradeExecuted", t)

\* Handler h has made t and has not answered yet, or its instance has t to publish.
Tells(h, t) ==
  \/ call[h].event = "matchTopOrders" /\ Matched(h) /\ TradeOf(h) = t
  \/ publishing[h] = UpdateOf(t)

\* How often t is on its way or has arrived.
TimesTold(t) ==
  Cardinality({h \in Handlers : Tells(h, t)}) + Times(UpdateOf(t), unread) + Times(t, tradeUpdates)

ToldOnce(t) ==
  /\ TimesTold(t) <= Times(t, trades)
  /\ OnlyLimitOrders /\ NothingLost => TimesTold(t) = Times(t, trades)

CountOK == \A t \in {trades[i] : i \in 1 .. Len(trades)} : ToldOnce(t)
-----------------------------------------------------------------------------
\* The inductive invariant of the broadcasts of all controllers: what is on its way is
\* true, and each change of the book is heard, on its way or still somebody's to tell.
NInv == NTypeOK /\ PublishingOK /\ HeardOK /\ ReachOK /\ CountOK
=============================================================================
