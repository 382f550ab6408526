----------------------- MODULE OrderMatchingProperties -----------------------
(***************************************************************************)
(* What holds of OrderMatching however the handlers interleave: the safety *)
(* properties also wherever handlers fail, the liveness properties for     *)
(* handlers that do not.                                                   *)
(***************************************************************************)
EXTENDS OrderMatching

InBook(o) == \E s \in Sides : o \in Members(book[s])

\* An order that can be ranked exists, is OPEN and is on its own side of the
\* book, although its hash and its place in the book are written one after the
\* other.  This is what the exception 'There should be the Order!' of
\* #_parseZRangeResults and the status check of matchTopOrders stand guard for.
BookedOrdersAreOpen ==
  \A s \in Sides : \A o \in Members(book[s]) :
    /\ order[o] # NoOrder
    /\ order[o].status = "OPEN"
    /\ order[o].side = s

\* An order's hash is written back whole from copies that may be old, by
\* setOrderStatus and updateOrder.  No copy, however old, changes what the client
\* asked for or raises the quantity above it.
StoredOrdersKeepTheirTerms ==
  \A o \in Orders : order[o] # NoOrder =>
    /\ placed[o] # NoOrder
    /\ order[o].side = placed[o].side
    /\ order[o].orderType = placed[o].orderType
    /\ order[o].price = placed[o].price
    /\ order[o].quantity <= placed[o].quantity

\* A LIMIT order never trades at a price worse than its limit, although
\* matchTopOrders prices the trade at the midpoint of two scores it read earlier,
\* one of which a MARKET order may have taken from the other side or an old trade.
TradesHonourLimits ==
  \A i \in 1 .. Len(trades) :
    LET bid == placed[trades[i].buyOrderId]
        ask == placed[trades[i].sellOrderId]
    IN  /\ bid.side = "BUY" /\ (bid.orderType = "LIMIT" => trades[i].price <= bid.price)
        /\ ask.side = "SELL" /\ (ask.orderType = "LIMIT" => trades[i].price >= ask.price)

\* Once a client has been told that an order is cancelled or filled, no one can
\* find the order in the book any more, whatever handlers still hold copies of it.
AnsweredOrdersAreGone ==
  \A o \in Orders :
    (\E e \in {"orderCancelled", "orderFilled"} : [event |-> e, orderId |-> o] \in told)
      => ~InBook(o)

\* An order that left the book never comes back: setOrderStatus takes it out
\* and addOrder, the only one to put orders in, runs once per order.
NoRelisting ==
  [][\A o \in listed : ~InBook(o) => ~InBook(o)']_vars
-----------------------------------------------------------------------------
\* Every event is answered: no chain of awaits of createOrder, matchTopOrders,
\* cancelOrder or fillOrder comes back to a command it sent before, whatever
\* the other handlers do to the orders meanwhile.
EveryRequestAnswered ==
  \A h \in Handlers : pc[h] # "idle" ~> pc[h] = "idle"

\* Cancelling a stored order takes it out of the book, also when matches and
\* fills of the same order are under way and write it back.
CancelTakesEffect ==
  \A o \in Orders :
    (\E h \in Handlers : pc[h] = "readForStatus" /\ call[h].event = "cancelOrder"
                        /\ call[h].subject = o /\ order[o] # NoOrder)
      ~> ~InBook(o)
=============================================================================
