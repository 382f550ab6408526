--------------------------- MODULE MatchingEngine ---------------------------
(***************************************************************************)
(* What the order and trade modules promise for one pair: an engine that   *)
(* rests, matches, fills and cancels orders, each in one step.             *)
(*                                                                         *)
(* The promise is the one the code keeps when handlers run one after the  *)
(* other, see OrderMatchingSerial.  It is weaker than the documentation in *)
(* three places, which the README lists: the bid of a match need not be    *)
(* the highest one; an order that is closed already can be cancelled; and  *)
(* a MARKET order never trades itself: it makes two other orders trade and *)
(* is answered as filled, or it rests.                                     *)
(***************************************************************************)
EXTENDS Integers, SequencesExt

CONSTANTS Orders, Requests, NoOrder, CeilingPrice, FloorPrice

VARIABLES
  orders,  \* orders[o]: NoOrder until the order rests, then its record
  trades   \* the trades made, in the order of the clocks that stamped them

vars == <<orders, trades>>

\* A closed order has no price and no quantity left.
Resting(side, price, quantity) ==
  [side |-> side, price |-> price, quantity |-> quantity, status |-> "OPEN"]
Closed(side, status) ==
  [side |-> side, price |-> 0, quantity |-> 0, status |-> status]

Open(side) ==
  {o \in Orders : orders[o] # NoOrder /\ orders[o].side = side /\ orders[o].status = "OPEN"}

Init ==
  /\ orders = [o \in Orders |-> NoOrder]
  /\ trades = <<>>

\* A MARKET order is priced by an order it could trade with, else by the last
\* trade, else so that any order of the other side can trade with it.
PricesFor(r) ==
  LET others == Open(IF r.side = "BUY" THEN "SELL" ELSE "BUY")
  IN  IF r.orderType = "LIMIT" THEN {r.price}
      ELSE IF others # {} THEN {orders[o].price : o \in others}
      ELSE IF trades # <<>> THEN {trades[1].price}
      ELSE {IF r.side = "BUY" THEN CeilingPrice ELSE FloorPrice}

Rest(o, r) ==
  /\ orders[o] = NoOrder
  /\ \E price \in PricesFor(r) :
       orders' = [orders EXCEPT ![o] = Resting(r.side, price, r.quantity)]
  /\ UNCHANGED trades

\* The part of an order that a trade leaves.
Reduced(o, quantity) ==
  IF orders[o].quantity = quantity THEN Closed(orders[o].side, "FILLED")
  ELSE [orders[o] EXCEPT !.quantity = @ - quantity]

\* The ask is a lowest one and the price halfway; the smaller order is filled.
Match(bid, ask) ==
  /\ bid \in Open("BUY")
  /\ ask \in Open("SELL")
  /\ \A o \in Open("SELL") : orders[ask].price <= orders[o].price
  /\ orders[bid].price >= orders[ask].price
  /\ LET quantity == IF orders[bid].quantity < orders[ask].quantity
                     THEN orders[bid].quantity ELSE orders[ask].quantity
         trade == [buyOrderId |-> bid, sellOrderId |-> ask, quantity |-> quantity,
                   price |-> (orders[bid].price + orders[ask].price) \div 2]
     IN  /\ orders' = [orders EXCEPT ![bid] = Reduced(bid, quantity),
                                     ![ask] = Reduced(ask, quantity)]
         /\ \E i \in 1 .. Len(trades) + 1 : trades' = InsertAt(trades, i, trade)

Fill(o) ==
  /\ o \in Open("BUY") \cup Open("SELL")
  /\ orders' = [orders EXCEPT ![o] = Closed(@.side, "FILLED")]
  /\ UNCHANGED trades

Cancel(o) ==
  /\ orders[o] # NoOrder
  /\ orders' = [orders EXCEPT ![o] = Closed(@.side, "CANCELLED")]
  /\ UNCHANGED trades

Next ==
  \/ \E o \in Orders, r \in Requests : Rest(o, r)
  \/ \E bid, ask \in Orders : Match(bid, ask)
  \/ \E o \in Orders : Fill(o) \/ Cancel(o)

Spec == Init /\ [][Next]_vars
=============================================================================
