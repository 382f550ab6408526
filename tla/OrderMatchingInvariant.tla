----------------------- MODULE OrderMatchingInvariant -----------------------
(***************************************************************************)
(* The inductive invariant of OrderMatching, in parts: what the local      *)
(* variables of a handler hold at each command (FrameOK), who can know and *)
(* change an order in which phase of its life (LifeOK), what the copies of *)
(* an order agree on (TermsOK) and what answers imply (AnswersOK).  Every  *)
(* safety property of OrderMatchingProperties follows from it.             *)
(***************************************************************************)
EXTENDS OrderMatchingProperties

Matching == {"rankBids", "rankAsks", "readBid", "readAsk", "storeTrade"}
Changing ==
  {"checkOpen", "readForStatus", "removeOrder", "saveStatus", "readForUpdate", "saveUpdate"}
Adding == {"saveOrder", "rankOpposite", "readOpposite", "readLastTrade", "addToBook"}

\* Which event handler h is in, with which locals, when it sends each command.
EventOK(h) ==
  /\ pc[h] = "idle" => call[h] = NoCall
  /\ pc[h] # "idle" => call[h].event # "none"
  /\ pc[h] \in Matching =>
       call[h].event \in {"createOrder", "matchTopOrders"} /\ ~Matched(h)
  /\ pc[h] \in Adding => call[h].event = "createOrder" /\ ~Matched(h)
  /\ pc[h] \in Changing =>
       (call[h].event \in {"createOrder", "matchTopOrders"} <=> Matched(h))
  /\ pc[h] = "checkOpen" => call[h].event # "cancelOrder"
  /\ pc[h] = "respondError" => call[h].event \in {"cancelOrder", "fillOrder"}
  /\ call[h].event \in {"createOrder", "cancelOrder", "fillOrder"} => call[h].subject \in Orders
  /\ call[h].event \in {"cancelOrder", "fillOrder"} => ~Matched(h)
  /\ call[h].event = "createOrder" => placed[call[h].subject] # NoOrder

TopOK(h) ==
  /\ \A s \in Sides : call[h].top[s].status # "unread" => call[h].top[s].quantity \in Quantities
  /\ pc[h] = "readBid" => call[h].top["BUY"] # NoEntry
  /\ pc[h] = "readAsk" => call[h].top["SELL"] # NoEntry
  /\ pc[h] = "readOpposite" => call[h].top[Opposite(placed[call[h].subject].side)] # NoEntry
  /\ pc[h] = "storeTrade" \/ Matched(h) => Crosses(call[h].top["BUY"], call[h].top["SELL"])
  /\ pc[h] \in {"readForUpdate", "saveUpdate"} =>
       Matched(h) /\ Remaining(h, call[h].settling) > 0

ReadOK(h) == pc[h] \in {"removeOrder", "saveStatus", "saveUpdate"} => call[h].read # NoOrder

FrameOK == \A h \in Handlers : EventOK(h) /\ TopOK(h) /\ ReadOK(h)

\* Scores are prices, negated or not, and a LIMIT order has one.
PricesOK ==
  /\ \A s \in Sides : \A o \in Members(book[s]) : PriceOf(s, book[s][o]) \in Prices
  /\ \A o \in Orders :
       placed[o] # NoOrder /\ placed[o].orderType = "LIMIT" => placed[o].price \in Prices

TypeInv == TypeOK /\ PricesOK /\ FrameOK
-----------------------------------------------------------------------------
Creates(h, o) == call[h].event = "createOrder" /\ call[h].subject = o

\* Until createOrder has put its order in the book, the order is its own: no
\* client and no other handler can name it.
CreatorOK(h) ==
  \A o \in Orders : Creates(h, o) =>
    /\ \A g \in Handlers : Creates(g, o) => g = h
    /\ [event |-> "orderCreated", orderId |-> o] \notin told
    /\ pc[h] # "respond" => o \notin listed
    /\ pc[h] \in Adding \ {"saveOrder"} => order[o] = placed[o]
    /\ pc[h] = "saveOrder" \/ pc[h] \in Matching \/ Matched(h) => order[o] = NoOrder
    /\ pc[h] = "respond" /\ ~Matched(h) => o \in listed

\* What a handler sets out to change was in the book before, or does not exist.
TargetOK(h) ==
  /\ \A s \in Sides : call[h].top[s] # NoEntry => call[h].top[s].orderId \in listed
  /\ call[h].event \in {"cancelOrder", "fillOrder"} => Known(call[h].subject)
  /\ pc[h] = "readForStatus" /\ call[h].event = "fillOrder" => call[h].subject \in listed
  /\ pc[h] \in {"removeOrder", "saveStatus", "saveUpdate"} => Target(h) \in listed
  /\ pc[h] = "saveStatus" => ~InBook(Target(h))
  /\ pc[h] = "saveUpdate" /\ call[h].read.status # "OPEN" => ~InBook(Target(h))
  /\ pc[h] \in {"removeOrder", "saveStatus", "saveUpdate"} =>
       call[h].read.side = placed[Target(h)].side

\* Orders that are only in their creator's hands do not exist for the others.
OrdersOK ==
  \A o \in Orders :
    /\ o \in listed => order[o] # NoOrder
    /\ [event |-> "orderCreated", orderId |-> o] \in told /\ o \notin listed => order[o] = NoOrder
    /\ InBook(o) => o \in listed
    /\ order[o] # NoOrder => placed[o] # NoOrder /\ order[o].side = placed[o].side
    /\ placed[o] # NoOrder => placed[o].status = "OPEN"
    /\ placed[o] = NoOrder => \A a \in told : a.orderId # o

LifeOK ==
  /\ \A h \in Handlers : CreatorOK(h) /\ TargetOK(h)
  /\ OrdersOK
  /\ BookedOrdersAreOpen
-----------------------------------------------------------------------------
\* What a handler goes by has a hash, on the side it takes it to be on.  LifeOK
\* implies it, but it also holds where LifeOK does not, see Resends.
HasHash(h) ==
  /\ \A s \in Sides : call[h].top[s] # NoEntry => order[call[h].top[s].orderId] # NoOrder
  /\ pc[h] \in Adding \ {"saveOrder"} => order[call[h].subject] # NoOrder
  /\ pc[h] \in {"removeOrder", "saveStatus", "saveUpdate"} =>
       order[Target(h)] # NoOrder /\ call[h].read.side = placed[Target(h)].side

StoredOK ==
  /\ \A h \in Handlers : HasHash(h)
  /\ \A o \in Orders : order[o] # NoOrder => placed[o] # NoOrder /\ order[o].side = placed[o].side
  /\ \A s \in Sides : \A o \in Members(book[s]) : order[o] # NoOrder /\ order[o].side = s
-----------------------------------------------------------------------------
\* The copy that a handler will write back says what the client asked for.
CopyOK(h) ==
  pc[h] \in {"removeOrder", "saveStatus", "saveUpdate"} =>
    /\ call[h].read.orderType = placed[Target(h)].orderType
    /\ call[h].read.price = placed[Target(h)].price
    /\ call[h].read.quantity <= placed[Target(h)].quantity

\* A LIMIT order is ranked at its limit.
RankedAtLimit ==
  \A s \in Sides : \A o \in Members(book[s]) :
    placed[o].orderType = "LIMIT" => book[s][o] = ScoreOf(s, placed[o].price)

SnapshotOK(h) ==
  /\ \A s \in Sides : call[h].top[s] # NoEntry =>
       LET top == call[h].top[s]
           order0 == placed[top.orderId]
       IN  /\ order0.side = s
           /\ order0.orderType = "LIMIT" => top.price = order0.price
           /\ top.quantity <= order0.quantity
  /\ pc[h] = "addToBook" /\ placed[call[h].subject].orderType = "LIMIT"
       => call[h].price = placed[call[h].subject].price
  /\ pc[h] \in {"rankOpposite", "readOpposite", "readLastTrade"}
       => placed[call[h].subject].orderType = "MARKET"

TradedOrdersArePlaced ==
  \A i \in 1 .. Len(trades) :
    placed[trades[i].buyOrderId] # NoOrder /\ placed[trades[i].sellOrderId] # NoOrder

TermsOK ==
  /\ \A h \in Handlers : CopyOK(h) /\ SnapshotOK(h)
  /\ RankedAtLimit
  /\ TradedOrdersArePlaced
  /\ StoredOrdersKeepTheirTerms
  /\ TradesHonourLimits
-----------------------------------------------------------------------------
\* An order that an answer called closed has no creator left that would list it.
AnswersOK ==
  /\ \A a \in told : \A h \in Handlers :
       Creates(h, a.orderId) => pc[h] = "respond" /\ a.orderId \in listed
  /\ \A h \in Handlers :
       pc[h] = "respond" /\ call[h].event \in {"cancelOrder", "fillOrder"}
         => call[h].subject \in listed /\ ~InBook(call[h].subject)
  /\ AnsweredOrdersAreGone

IInv == TypeInv /\ LifeOK /\ TermsOK /\ AnswersOK
=============================================================================
