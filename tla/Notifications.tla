---------------------------- MODULE Notifications ----------------------------
(***************************************************************************)
(* What a subscriber of the pair hears of OrderMatching: the updates that  *)
(* the handlers emit to the pair's room once they have answered, on their  *)
(* way through the Redis stream of the adapter to the instance that the    *)
(* subscriber is connected to.                                             *)
(*                                                                         *)
(* The subscriber is in the room from the start.  Each handler is taken to *)
(* run on an instance of its own, so that the broadcasts of two handlers   *)
(* may reach the stream in either order, and none is the subscriber's.     *)
(***************************************************************************)
EXTENDS OrderMatching

CONSTANTS
  NoBroadcast,  \* nothing to publish
  Undefined,    \* the value of a property that is never set
  MaxLen,       \* how many entries the stream keeps at least
  MaxUnread     \* bound on the entries that are not read yet

ASSUME NotificationsAssumption ==
  MaxLen \in Nat \ {0} /\ MaxUnread \in Nat

VARIABLES
  publishing,    \* publishing[h]: the broadcast that handler h's instance has to publish
  unread,        \* the stream, from the first entry that the subscriber's instance has not read
  trimmed,       \* whether the stream dropped an entry that was not read yet
  announced,     \* announced[o]: the statuses of o in the orderBookUpdates received
  tradeUpdates   \* the trades of the tradeUpdates received

feed == <<publishing, unread, trimmed>>
subscriber == <<announced, tradeUpdates>>
nvars == <<vars, feed, subscriber>>
-----------------------------------------------------------------------------
(* Broadcasts.                                                              *)

\* EmitResponse.Success passes the payloadEventKey on under another name than its
\* constructor's, which then sets the property to undefined.
PayloadKey(payloadEventKey) == Undefined

Success(eventEmit, payloadEventKey, data) ==
  [eventEmit |-> eventEmit, payloadEventKey |-> PayloadKey(payloadEventKey), data |-> data]

\* The payloadEventKeys of orderBookUpdates, and the statuses of the orders in them.
UpdateKeys ==
  [createOrder |-> "orderCreated", cancelOrder |-> "orderCancelled", fillOrder |-> "orderFilled"]
ToldStatus == [createOrder |-> "OPEN", cancelOrder |-> "CANCELLED", fillOrder |-> "FILLED"]

\* What a subscriber sees of an order: which, and the status of the copy that the
\* service returned.
OrderData == [orderId : Orders, status : TradeStatuses]

BroadcastType ==
  [eventEmit : {"orderBookUpdate"}, data : OrderData,
   payloadEventKey : {PayloadKey(UpdateKeys[event]) : event \in DOMAIN UpdateKeys}]
  \cup
  [eventEmit : {"tradeUpdate"}, data : TradeType, payloadEventKey : {PayloadKey("tradeExecuted")}]

ASSUME NoBroadcastAssumption == NoBroadcast \notin BroadcastType

BookUpdate(h) ==
  Success("orderBookUpdate", UpdateKeys[call[h].event],
          [orderId |-> call[h].subject, status |-> ToldStatus[call[h].event]])

TradeUpdate(h) ==
  Success("tradeUpdate", "tradeExecuted",
          [buyOrderId |-> call[h].top["BUY"].orderId, sellOrderId |-> call[h].top["SELL"].orderId,
           quantity |-> MatchQuantity(h), price |-> MatchPrice(h)])

\* Mutants of Silent: matchTopOrders does not return early when there is no trade;
\* handlers that made a trade, or cancelled, return early too.
SilentIfExecuted(h) == call[h].event = "createOrder" /\ Matched(h)
SilentAfterMatch(h) == Matched(h) \/ call[h].event = "matchTopOrders"
SilentAfterCancel(h) ==
  \/ call[h].event = "createOrder" /\ Matched(h)
  \/ call[h].event = "matchTopOrders" /\ ~Matched(h)
  \/ call[h].event = "cancelOrder"

\* createOrder returns before its broadcast when a MARKET order is answered as
\* filled, and matchTopOrders when there is no trade.
Silent(h) ==
  \/ call[h].event = "createOrder" /\ Matched(h)
  \/ call[h].event = "matchTopOrders" /\ ~Matched(h)

Broadcast(h) ==
  IF Silent(h) THEN NoBroadcast
  ELSE IF call[h].event = "matchTopOrders" THEN TradeUpdate(h) ELSE BookUpdate(h)
-----------------------------------------------------------------------------
NTypeOK ==
  /\ publishing \in [Handlers -> BroadcastType \cup {NoBroadcast}]
  /\ unread \in Seq(BroadcastType)
  /\ trimmed \in BOOLEAN
  /\ announced \in [Orders -> SUBSET TradeStatuses]
  /\ tradeUpdates \in Seq(TradeType)

NInit ==
  /\ Init
  /\ publishing = [h \in Handlers |-> NoBroadcast]
  /\ unread = <<>>
  /\ trimmed = FALSE
  /\ announced = [o \in Orders |-> {}]
  /\ tradeUpdates = <<>>

\* The next event, once the instance has published the last broadcast.
Accept(h) ==
  /\ publishing[h] = NoBroadcast
  /\ Request(h)
  /\ UNCHANGED <<feed, subscriber>>

\* The commands of the handler.
Handle(h) ==
  /\ pc[h] # "respond"
  /\ Run(h)
  /\ UNCHANGED <<feed, subscriber>>

\* The answer to the client, then the broadcast.
Notify(h) ==
  /\ Respond(h)
  /\ publishing' = [publishing EXCEPT ![h] = Broadcast(h)]
  /\ UNCHANGED <<unread, trimmed, subscriber>>

Abandon(h) == Fail(h) /\ UNCHANGED <<feed, subscriber>>

\* XADD with MAXLEN ~: the oldest entries may go as long as MaxLen are left.
Publish(h) ==
  LET stream == Append(unread, publishing[h])
  IN  /\ publishing[h] # NoBroadcast
      /\ publishing' = [publishing EXCEPT ![h] = NoBroadcast]
      /\ \E n \in 0 .. Len(stream) - 1 :
           /\ n > 0 => Len(stream) - n >= MaxLen
           /\ unread' = SubSeq(stream, n + 1, Len(stream))
           /\ trimmed' = (trimmed \/ n > 0)
      /\ Len(unread') <= MaxUnread
      /\ UNCHANGED <<vars, subscriber>>

\* The subscriber's instance reads an entry and sends it to the room.
Receive ==
  LET update == Head(unread)
  IN  /\ unread # <<>>
      /\ unread' = Tail(unread)
      /\ IF update.eventEmit = "tradeUpdate"
         THEN /\ tradeUpdates' = Append(tradeUpdates, update.data)
              /\ UNCHANGED announced
         ELSE /\ announced' = [announced EXCEPT ![update.data.orderId] = @ \cup {update.data.status}]
              /\ UNCHANGED tradeUpdates
      /\ UNCHANGED <<vars, publishing, trimmed>>

NNext ==
  \/ \E h \in Handlers : Accept(h) \/ Handle(h) \/ Notify(h) \/ Abandon(h) \/ Publish(h)
  \/ Receive

NSpec == NInit /\ [][NNext]_nvars
=============================================================================
