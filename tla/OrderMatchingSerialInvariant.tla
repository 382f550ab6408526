-------------------- MODULE OrderMatchingSerialInvariant --------------------
(***************************************************************************)
(* The inductive invariant behind OrderMatchingSerial, on top of           *)
(* OrderMatchingInvariant: while one handler runs at a time and none       *)
(* fails, what it has read is what Redis holds (SnapshotCurrent,           *)
(* CopyCurrent), each closed order is on its way out of the book, and what *)
(* an order still has and what it has traded add up to what was ordered    *)
(* (BalanceOK).                                                            *)
(***************************************************************************)
EXTENDS OrderMatchingSerial, OrderMatchingInvariant

OneAtATime == MaxFaults = 0 /\ \E h \in Handlers : Handlers = {h}

\* The entry of side s is used later on to match, or to settle the trade.
InUse(h, s) == call[h].top[s] # NoEntry /\ (pc[h] \in Matching \/ s \in Unsettled(h))

\* Handler h has taken the order of side s out of the book and not saved it yet.
TakenOut(h, s) == pc[h] = "saveStatus" /\ s = call[h].settling

SnapshotCurrent(h) ==
  \A s \in Sides : InUse(h, s) =>
    LET top == call[h].top[s]
    IN  /\ top.status # "unread" =>
             order[top.orderId].quantity = top.quantity /\ order[top.orderId].status = top.status
        /\ ~TakenOut(h, s) =>
             top.orderId \in Members(book[s]) /\ top.price = PriceOf(s, book[s][top.orderId])

\* The status that setOrderStatus is called with.
NewStatus(h) == IF call[h].event = "cancelOrder" THEN "CANCELLED" ELSE "FILLED"

CopyCurrent(h) ==
  /\ pc[h] \in {"removeOrder", "saveStatus"} =>
       call[h].read = [order[Target(h)] EXCEPT !.status = NewStatus(h)]
  /\ pc[h] = "saveUpdate" =>
       call[h].read = [order[Target(h)] EXCEPT !.quantity = Remaining(h, call[h].settling)]

\* An order is closed by a trade when nothing is left of it, by a client's
\* fillOrder while it is open.
ClosesOK(h) ==
  /\ Matched(h) /\ pc[h] \in {"checkOpen", "readForStatus", "removeOrder", "saveStatus"} =>
       Remaining(h, call[h].settling) <= 0
  /\ call[h].event = "fillOrder" /\ pc[h] \in {"readForStatus", "removeOrder", "saveStatus"} =>
       order[call[h].subject] # NoOrder /\ order[call[h].subject].status = "OPEN"

\* The part of a trade that the hash of o does not show yet.
Owed(h, o) ==
  IF \E s \in Unsettled(h) : call[h].top[s].orderId = o THEN MatchQuantity(h) ELSE 0

TradesListed ==
  \A i \in 1 .. Len(trades) : trades[i].buyOrderId \in listed /\ trades[i].sellOrderId \in listed

OpenOK(h) ==
  \A o \in listed : order[o].status = "OPEN" =>
    /\ InBook(o) \/ (pc[h] = "saveStatus" /\ Target(h) = o)
    /\ order[o].quantity + Traded(o) = placed[o].quantity + Owed(h, o)

FilledOK(h) ==
  \A o \in listed : order[o].status = "FILLED" =>
    \/ Traded(o) = placed[o].quantity
    \/ [event |-> "orderFilled", orderId |-> o] \in told
    \/ call[h].event = "fillOrder" /\ call[h].subject = o /\ pc[h] = "respond"

NotOvertraded == \A o \in Orders : placed[o] # NoOrder => Traded(o) <= placed[o].quantity

BalanceOK(h) == TradesListed /\ OpenOK(h) /\ FilledOK(h) /\ NotOvertraded
-----------------------------------------------------------------------------
(* For the refinement: the ask of a match is a lowest one, and what prices  *)
(* a MARKET order is still there when it comes to rest.                     *)

LowestAsk(h) ==
  pc[h] \in Matching /\ call[h].top["SELL"] # NoEntry =>
    IsFirst(book["SELL"], call[h].top["SELL"].orderId)

\* The prices that a MARKET order can rest at, see MatchingEngine!PricesFor.
MarketPrices(side) ==
  LET others == Members(book[Opposite(side)])
  IN  IF others # {} THEN {PriceOf(Opposite(side), book[Opposite(side)][o]) : o \in others}
      ELSE IF trades # <<>> THEN {Head(trades).price}
      ELSE {IF side = "BUY" THEN CeilingPrice ELSE FloorPrice}

PricingOK(h) ==
  LET side == placed[call[h].subject].side
  IN  /\ pc[h] = "readOpposite" => call[h].top[Opposite(side)].price \in MarketPrices(side)
      /\ pc[h] = "readLastTrade" => Members(book[Opposite(side)]) = {}
      /\ pc[h] = "addToBook" /\ placed[call[h].subject].orderType = "MARKET" =>
           call[h].price \in MarketPrices(side)

OrderOf(r) ==
  [side |-> r.side, orderType |-> r.orderType, price |-> r.price, quantity |-> r.quantity,
   status |-> "OPEN"]

PlacedAsRequested == \A o \in Orders : placed[o] # NoOrder => \E r \in Requests : placed[o] = OrderOf(r)

SerialOK(h) ==
  /\ SnapshotCurrent(h) /\ CopyCurrent(h) /\ ClosesOK(h)
  /\ BalanceOK(h)
  /\ LowestAsk(h) /\ PricingOK(h)

\* The inductive invariant of matchTopOrders, fillOrder, cancelOrder and createOrder
\* without overlap: whatever a handler still uses of what it read is what Redis
\* holds, and orders and trades add up but for the trade it is settling.
SerialInv == (\A h \in Handlers : SerialOK(h)) /\ PlacedAsRequested
=============================================================================
