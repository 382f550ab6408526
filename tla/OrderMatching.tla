---------------------------- MODULE OrderMatching ----------------------------
(***************************************************************************)
(* Order placement, matching, filling and cancelling for one trading pair. *)
(*                                                                         *)
(* The API keeps an order in two places in Redis: the hash order:{id} with *)
(* its fields, and a member of the sorted set of its side of the book.     *)
(* Nothing ties the two together: every operation is a sequence of Redis   *)
(* commands, each awaited, and the handlers of one or several API          *)
(* instances interleave between any two of them.  An action here is one    *)
(* Redis command of one handler together with the synchronous code that    *)
(* follows its reply, up to the next command.                              *)
(*                                                                         *)
(* The keys of different pairs are disjoint and no operation touches two   *)
(* pairs, so one pair is the whole state.                                  *)
(***************************************************************************)
EXTENDS RedisSortedSet, Sequences

CONSTANTS
  Orders,        \* order ids; uuidv4() picks any id that is not in use
  Handlers,      \* event handlers that can be in flight at the same time
  Events,        \* the events that clients send, see IncomingEvents
  Requests,      \* what clients ask createOrder for, see RequestType
  NoOrder,       \* the reply of HGETALL for a key that does not exist
  NoPrice,       \* the price of a MARKET order
  CeilingPrice,  \* 99999999, a MARKET BUY with nothing to price it by
  FloorPrice,    \* 0.0001, a MARKET SELL with nothing to price it by
  MaxFaults      \* bound on the handlers that fail half way

IncomingEvents == {"createOrder", "matchTopOrders", "cancelOrder", "fillOrder"}
Sides == {"BUY", "SELL"}
OrderTypes == {"LIMIT", "MARKET"}
TradeStatuses == {"OPEN", "FILLED", "CANCELLED"}
Prices == Nat
Quantities == Nat \ {0}

\* createOrderRequestDto: a positive price for LIMIT orders, a positive quantity.
RequestType ==
  [side : Sides, orderType : {"LIMIT"}, price : Prices \ {0}, quantity : Quantities]
  \cup
  [side : Sides, orderType : {"MARKET"}, price : {NoPrice}, quantity : Quantities]

ASSUME OrderMatchingAssumption ==
  /\ Orders \subseteq Int
  /\ Events \subseteq IncomingEvents
  /\ Requests \subseteq RequestType
  /\ NoOrder \notin Orders
  /\ NoPrice \notin Int
  /\ CeilingPrice \in Prices
  /\ FloorPrice \in Prices
  /\ MaxFaults \in Nat

OrderType ==
  [side : Sides, orderType : OrderTypes, price : Prices \cup {NoPrice},
   quantity : Quantities, status : TradeStatuses]

ASSUME NoOrderAssumption == NoOrder \notin OrderType

VARIABLES
  order,   \* order[o]: the hash order:{o}, or NoOrder
  book,    \* book[s]: the sorted set of side s
  trades,  \* the trades of the pair, most recent first
  placed,  \* placed[o]: the Order object createOrder built under id o
  listed,  \* the ids that have been in the book: clients can know them
  told,    \* the acknowledgements about an order that its client received
  pc,      \* pc[h]: the command handler h sends next
  call,    \* call[h]: the local variables of handler h
  faults   \* how many handlers failed half way

redis == <<order, book, trades>>
vars == <<order, book, trades, placed, listed, told, pc, call, faults>>
-----------------------------------------------------------------------------
(* Trades and the entries of getTopBids and getTopAsks.                     *)

TradeType ==
  [buyOrderId : Orders, sellOrderId : Orders, quantity : Quantities, price : Prices]

\* An element of getTopBids(pair, 1) or getTopAsks(pair, 1).  Its price is the
\* score's, its quantity and status are in the hash, read one command later.
EntryType ==
  [orderId : Orders, price : Prices, quantity : Nat, status : TradeStatuses \cup {"unread"}]

NoEntry == [orderId |-> NoOrder, price |-> 0, quantity |-> 0, status |-> "unread"]

Opposite(side) == IF side = "BUY" THEN "SELL" ELSE "BUY"

\* Bids are stored under the negated price.
ScoreOf(side, price) == IF side = "BUY" THEN -price ELSE price
PriceOf(side, score) == IF side = "BUY" THEN -score ELSE score

\* Mutant of IsTop: the asks read from the wrong end too.
IsTopFromTheEnd(side, o) == IsLast(book[side], o)

\* o is what getTopBids(pair, 1) or getTopAsks(pair, 1) finds.  Both take the
\* end of the range that their ZRANGE starts from: ascending scores for the
\* asks, and with REV, descending scores for the bids.
IsTop(side, o) ==
  IF side = "BUY" THEN IsLast(book["BUY"], o) ELSE IsFirst(book["SELL"], o)

Ranked(side, o) ==
  [orderId |-> o, price |-> PriceOf(side, book[side][o]), quantity |-> 0, status |-> "unread"]
-----------------------------------------------------------------------------
(* Handlers.                                                                *)

Commands ==
  {"idle", "rankBids", "rankAsks", "readBid", "readAsk", "storeTrade",
   "checkOpen", "readForStatus", "removeOrder", "saveStatus",
   "readForUpdate", "saveUpdate", "saveOrder", "rankOpposite",
   "readOpposite", "readLastTrade", "addToBook", "respond", "respondError"}

CallType ==
  [event : IncomingEvents \cup {"none"},         \* the event being handled
   subject : Orders \cup {NoOrder},             \* the order it is about
   top : [Sides -> EntryType \cup {NoEntry}],   \* topBid and topAsk
   settling : Sides \cup {"none"},              \* whose side of the trade is being settled
   read : OrderType \cup {NoOrder},             \* the order getOrder returned, as changed so far
   price : Prices]                              \* priceToUse

NoCall ==
  [event |-> "none", subject |-> NoOrder, top |-> [s \in Sides |-> NoEntry],
   settling |-> "none", read |-> NoOrder, price |-> 0]

TypeOK ==
  /\ order \in [Orders -> OrderType \cup {NoOrder}]
  /\ book \in [Sides -> SortedSet(Orders)]
  /\ trades \in Seq(TradeType)
  /\ placed \in [Orders -> OrderType \cup {NoOrder}]
  /\ listed \in SUBSET Orders
  /\ told \in SUBSET [event : {"orderCreated", "orderFilled", "orderCancelled"},
                      orderId : Orders]
  /\ pc \in [Handlers -> Commands]
  /\ call \in [Handlers -> CallType]
  /\ faults \in Nat

Init ==
  /\ order = [o \in Orders |-> NoOrder]
  /\ book = [s \in Sides |-> EmptySortedSet(Orders)]
  /\ trades = <<>>
  /\ placed = [o \in Orders |-> NoOrder]
  /\ listed = {}
  /\ told = {}
  /\ pc = [h \in Handlers |-> "idle"]
  /\ call = [h \in Handlers |-> NoCall]
  /\ faults = 0

\* The order that setOrderStatus, fillOrder or updateOrder was called with.
Target(h) ==
  IF call[h].event \in {"cancelOrder", "fillOrder"} THEN call[h].subject
  ELSE call[h].top[call[h].settling].orderId

Matched(h) == call[h].settling # "none"

\* The next command of handler h.
Sends(h, command) == pc' = [pc EXCEPT ![h] = command]

\* An id that some client can know: from the book, or from an orderCreated.
Known(o) == o \in listed \/ [event |-> "orderCreated", orderId |-> o] \in told
-----------------------------------------------------------------------------
(* The events of clients, as they arrive.                                   *)

\* createOrder: the Order object, under a fresh id.  A MARKET order goes to
\* matchTopOrders first, a LIMIT order to the book.
RequestCreate(h, o, r) ==
  /\ pc[h] = "idle"
  /\ placed[o] = NoOrder
  /\ Sends(h, IF r.orderType = "LIMIT" THEN "saveOrder" ELSE "rankBids")
  /\ placed' = [placed EXCEPT ![o] =
       [side |-> r.side, orderType |-> r.orderType, price |-> r.price,
        quantity |-> r.quantity, status |-> "OPEN"]]
  /\ call' = [call EXCEPT ![h].event = "createOrder", ![h].subject = o]
  /\ UNCHANGED <<redis, listed, told, faults>>

RequestMatch(h) ==
  /\ pc[h] = "idle"
  /\ Sends(h, "rankBids")
  /\ call' = [call EXCEPT ![h].event = "matchTopOrders"]
  /\ UNCHANGED <<redis, placed, listed, told, faults>>

RequestCancel(h, o) ==
  /\ pc[h] = "idle"
  /\ Known(o)
  /\ Sends(h, "readForStatus")
  /\ call' = [call EXCEPT ![h].event = "cancelOrder", ![h].subject = o]
  /\ UNCHANGED <<redis, placed, listed, told, faults>>

RequestFill(h, o) ==
  /\ pc[h] = "idle"
  /\ Known(o)
  /\ Sends(h, "checkOpen")
  /\ call' = [call EXCEPT ![h].event = "fillOrder", ![h].subject = o]
  /\ UNCHANGED <<redis, placed, listed, told, faults>>
-----------------------------------------------------------------------------
(* TradeService.matchTopOrders.                                             *)

\* Mutant of Crosses: the prices are not compared.
CrossesAtAnyPrice(bid, ask) ==
  bid # NoEntry /\ ask # NoEntry /\ bid.status = "OPEN" /\ ask.status = "OPEN"

Crosses(bid, ask) ==
  /\ bid # NoEntry
  /\ ask # NoEntry
  /\ bid.price >= ask.price
  /\ bid.status = "OPEN"
  /\ ask.status = "OPEN"

\* After the last read: a trade, or null, which the handler of matchTopOrders
\* answers and createOrder takes as "rest in the book".
AfterReads(h, top) ==
  IF Crosses(top["BUY"], top["SELL"]) THEN "storeTrade"
  ELSE IF call[h].event = "createOrder" THEN "saveOrder" ELSE "respond"

RankBids(h) ==
  /\ pc[h] = "rankBids"
  /\ Sends(h, "rankAsks")
  /\ \/ /\ Members(book["BUY"]) = {}
        /\ UNCHANGED call
     \/ \E o \in Orders :
          /\ IsTop("BUY", o)
          /\ call' = [call EXCEPT ![h].top = [@ EXCEPT !["BUY"] = Ranked("BUY", o)]]
  /\ UNCHANGED <<redis, placed, listed, told, faults>>

\* The replies arrive in the order of the commands, so the bid is read first.
NextRead(h, top) ==
  IF top["BUY"] # NoEntry THEN "readBid"
  ELSE IF top["SELL"] # NoEntry THEN "readAsk" ELSE AfterReads(h, top)

RankAsks(h) ==
  /\ pc[h] = "rankAsks"
  /\ \/ /\ Members(book["SELL"]) = {}
        /\ Sends(h, NextRead(h, call[h].top))
        /\ UNCHANGED call
     \/ \E o \in Orders :
          LET top == [call[h].top EXCEPT !["SELL"] = Ranked("SELL", o)]
          IN  /\ IsTop("SELL", o)
              /\ Sends(h, NextRead(h, top))
              /\ call' = [call EXCEPT ![h].top = top]
  /\ UNCHANGED <<redis, placed, listed, told, faults>>

\* The exception of a handler is caught and answered with gatewayError.
Throws(h) ==
  /\ Sends(h, "idle")
  /\ call' = [call EXCEPT ![h] = NoCall]

\* HGETALL of a ranked order.  A ranked id without a hash is an exception.
ReadRanked(h, side) ==
  LET stored == order[call[h].top[side].orderId]
      top == [call[h].top EXCEPT ![side].quantity = stored.quantity,
                                 ![side].status = stored.status]
  IN  /\ IF stored = NoOrder THEN Throws(h)
         ELSE /\ call' = [call EXCEPT ![h].top = top]
              /\ Sends(h, IF side = "BUY" /\ top["SELL"] # NoEntry THEN "readAsk"
                          ELSE AfterReads(h, top))
      /\ UNCHANGED <<redis, placed, listed, told, faults>>

ReadBid(h) == pc[h] = "readBid" /\ ReadRanked(h, "BUY")

ReadAsk(h) == pc[h] = "readAsk" /\ ReadRanked(h, "SELL")

\* Mutant of MatchQuantity: the larger of the two quantities.
LargerQuantity(h) ==
  LET bid == call[h].top["BUY"]
      ask == call[h].top["SELL"]
  IN  IF bid.quantity < ask.quantity THEN ask.quantity ELSE bid.quantity

MatchQuantity(h) ==
  LET bid == call[h].top["BUY"]
      ask == call[h].top["SELL"]
  IN  IF bid.quantity < ask.quantity THEN bid.quantity ELSE ask.quantity

\* Mutant of MatchPrice: not halved.
UnhalvedPrice(h) == call[h].top["BUY"].price + call[h].top["SELL"].price

\* Prices are integers in units small enough for the midpoint to be exact.
MatchPrice(h) == (call[h].top["BUY"].price + call[h].top["SELL"].price) \div 2

Remaining(h, side) == call[h].top[side].quantity - MatchQuantity(h)

\* Mutants of Settle: nothing left counts as a partial fill, or every fill as full.
SettleZeroAsPartial(h, side) == IF Remaining(h, side) < 0 THEN "checkOpen" ELSE "readForUpdate"
SettleAsFull(h, side) == "checkOpen"

\* The command that settles one side of the trade begins with.
Settle(h, side) == IF Remaining(h, side) <= 0 THEN "checkOpen" ELSE "readForUpdate"

\* Mutant of StoreTrade: the MULTI is never executed.
StoreTradeUnsaved(h) ==
  /\ pc[h] = "storeTrade"
  /\ Sends(h, Settle(h, "BUY"))
  /\ call' = [call EXCEPT ![h].settling = "BUY"]
  /\ UNCHANGED <<redis, placed, listed, told, faults>>

\* MULTI: the trade's hash and its place in the trades of the pair, sorted by
\* the clock of the instance that made it.  Clocks of instances differ and ties
\* are broken by trade id: the trade can end up anywhere in the sequence.
StoreTrade(h) ==
  /\ pc[h] = "storeTrade"
  /\ \E i \in 0 .. Len(trades) :
       trades' = SubSeq(trades, 1, i)
                 \o << [buyOrderId |-> call[h].top["BUY"].orderId,
                        sellOrderId |-> call[h].top["SELL"].orderId,
                        quantity |-> MatchQuantity(h), price |-> MatchPrice(h)] >>
                 \o SubSeq(trades, i + 1, Len(trades))
  /\ Sends(h, Settle(h, "BUY"))
  /\ call' = [call EXCEPT ![h].settling = "BUY"]
  /\ UNCHANGED <<order, book, placed, listed, told, faults>>
-----------------------------------------------------------------------------
(* OrderService.fillOrder, OrderRepository.setOrderStatus and updateOrder,  *)
(* called for a client's event or to settle a side of a trade.              *)

\* Mutant of Continue: the bid is settled over and over.
ContinueWithBid(h) ==
  /\ Sends(h, IF call[h].settling = "BUY" THEN Settle(h, "BUY") ELSE "respond")
  /\ call' = [call EXCEPT ![h].read = NoOrder]

\* What follows once the target is dealt with: the other side of the trade,
\* or the answer.  The matched bid is settled before the matched ask.
Continue(h) ==
  IF call[h].settling = "BUY"
  THEN /\ Sends(h, Settle(h, "SELL"))
       /\ call' = [call EXCEPT ![h].settling = "SELL", ![h].read = NoOrder]
  ELSE /\ Sends(h, "respond")
       /\ call' = [call EXCEPT ![h].read = NoOrder]

\* fillOrder's own check that the order is OPEN.  Otherwise it returns null,
\* an error for the client's fillOrder and nothing to matchTopOrders.
CheckOpen(h) ==
  LET stored == order[Target(h)]
      open == stored # NoOrder /\ stored.status = "OPEN"
  IN  /\ pc[h] = "checkOpen"
      /\ \/ open /\ Sends(h, "readForStatus") /\ UNCHANGED call
         \/ ~open /\ call[h].event = "fillOrder" /\ Sends(h, "respondError") /\ UNCHANGED call
         \/ ~open /\ call[h].event # "fillOrder" /\ Continue(h)
      /\ UNCHANGED <<redis, placed, listed, told, faults>>

\* Mutant of LeavesBook: cancelled orders are forgotten.
LeavesBookIfFilled(status) == status = "FILLED"

\* setOrderStatus takes the order out of the book for these statuses.
LeavesBook(status) == status \in {"CANCELLED", "FILLED"}

\* setOrderStatus reads the order again, and does not look at its status.
\* Only cancelOrder passes the null of a missing order on.
ReadForStatus(h) ==
  LET stored == order[Target(h)]
      status == IF call[h].event = "cancelOrder" THEN "CANCELLED" ELSE "FILLED"
  IN  /\ pc[h] = "readForStatus"
      /\ IF stored # NoOrder
         THEN /\ Sends(h, IF LeavesBook(status) THEN "removeOrder" ELSE "saveStatus")
              /\ call' = [call EXCEPT ![h].read = [stored EXCEPT !.status = status]]
         ELSE IF call[h].event = "cancelOrder"
         THEN Sends(h, "respondError") /\ UNCHANGED call
         ELSE Continue(h)
      /\ UNCHANGED <<redis, placed, listed, told, faults>>

\* Mutant of RemoveOrder: the sides are swapped.
RemoveFromOtherSide(h) ==
  /\ pc[h] = "removeOrder"
  /\ Sends(h, "saveStatus")
  /\ book' = [book EXCEPT ![Opposite(call[h].read.side)] = ZRem(@, Target(h))]
  /\ UNCHANGED <<order, trades, placed, listed, told, call, faults>>

RemoveOrder(h) ==
  /\ pc[h] = "removeOrder"
  /\ Sends(h, "saveStatus")
  /\ book' = [book EXCEPT ![call[h].read.side] = ZRem(@, Target(h))]
  /\ UNCHANGED <<order, trades, placed, listed, told, call, faults>>

\* Mutant of SaveStatus: a closed order is deleted instead of saved.
DeleteOrder(h) ==
  /\ pc[h] = "saveStatus"
  /\ order' = [order EXCEPT ![Target(h)] = NoOrder]
  /\ Continue(h)
  /\ UNCHANGED <<book, trades, placed, listed, told, faults>>

\* HSET writes every field of the order that was read.
SaveStatus(h) ==
  /\ pc[h] = "saveStatus"
  /\ order' = [order EXCEPT ![Target(h)] = call[h].read]
  /\ Continue(h)
  /\ UNCHANGED <<book, trades, placed, listed, told, faults>>

\* Mutant of ReadForUpdate: the price of the trade is written into the order.
ReadForUpdateWithPrice(h) ==
  /\ pc[h] = "readForUpdate"
  /\ Sends(h, "saveUpdate")
  /\ call' = [call EXCEPT ![h].read = [order[Target(h)] EXCEPT
       !.quantity = Remaining(h, call[h].settling), !.price = MatchPrice(h)]]
  /\ UNCHANGED <<redis, placed, listed, told, faults>>

\* updateOrder with the quantity left after the trade.
ReadForUpdate(h) ==
  LET stored == order[Target(h)]
  IN  /\ pc[h] = "readForUpdate"
      /\ IF stored # NoOrder
         THEN /\ Sends(h, "saveUpdate")
              /\ call' = [call EXCEPT ![h].read =
                   [stored EXCEPT !.quantity = Remaining(h, call[h].settling)]]
         ELSE Continue(h)
      /\ UNCHANGED <<redis, placed, listed, told, faults>>

\* Mutant of SaveUpdate: the order is put in the book again, as for a new price.
SaveUpdateAndRelist(h) ==
  /\ pc[h] = "saveUpdate"
  /\ order' = [order EXCEPT ![Target(h)] = call[h].read]
  /\ book' = [book EXCEPT ![call[h].settling] =
       ZAdd(@, Target(h), ScoreOf(call[h].settling, call[h].top[call[h].settling].price))]
  /\ Continue(h)
  /\ UNCHANGED <<trades, placed, listed, told, faults>>

SaveUpdate(h) ==
  /\ pc[h] = "saveUpdate"
  /\ order' = [order EXCEPT ![Target(h)] = call[h].read]
  /\ Continue(h)
  /\ UNCHANGED <<book, trades, placed, listed, told, faults>>
-----------------------------------------------------------------------------
(* OrderRepository.addOrder: the hash first, then the book.                 *)

SaveOrder(h) ==
  LET new == placed[call[h].subject]
  IN  /\ pc[h] = "saveOrder"
      /\ order' = [order EXCEPT ![call[h].subject] = new]
      /\ IF new.orderType = "LIMIT"
         THEN /\ Sends(h, "addToBook")
              /\ call' = [call EXCEPT ![h].price = new.price]
         ELSE /\ Sends(h, "rankOpposite")
              /\ call' = [call EXCEPT ![h].top = NoCall.top]
      /\ UNCHANGED <<book, trades, placed, listed, told, faults>>

\* A MARKET order that found no trade rests at the price of the opposite top.
RankOpposite(h) ==
  LET side == Opposite(placed[call[h].subject].side)
  IN  /\ pc[h] = "rankOpposite"
      /\ \/ /\ Members(book[side]) = {}
            /\ Sends(h, "readLastTrade")
            /\ UNCHANGED call
         \/ \E o \in Orders :
              /\ IsTop(side, o)
              /\ Sends(h, "readOpposite")
              /\ call' = [call EXCEPT ![h].top = [@ EXCEPT ![side] = Ranked(side, o)]]
      /\ UNCHANGED <<redis, placed, listed, told, faults>>

ReadOpposite(h) ==
  LET top == call[h].top[Opposite(placed[call[h].subject].side)]
  IN  /\ pc[h] = "readOpposite"
      /\ IF order[top.orderId] = NoOrder THEN Throws(h)
         ELSE /\ Sends(h, "addToBook")
              /\ call' = [call EXCEPT ![h].price = top.price, ![h].top = NoCall.top]
      /\ UNCHANGED <<redis, placed, listed, told, faults>>

\* getRecentTrades(pair, 1).  A trade's hash never changes after the MULTI that
\* made it, so reading it needs no step of its own.
ReadLastTrade(h) ==
  LET price == IF trades # <<>> THEN Head(trades).price
               ELSE IF placed[call[h].subject].side = "BUY" THEN CeilingPrice
               ELSE FloorPrice
  IN  /\ pc[h] = "readLastTrade"
      /\ Sends(h, "addToBook")
      /\ call' = [call EXCEPT ![h].price = price]
      /\ UNCHANGED <<redis, placed, listed, told, faults>>

\* Mutant of AddToBook: the sides are swapped.
AddToOtherSide(h) ==
  LET o == call[h].subject
      side == Opposite(placed[o].side)
  IN  /\ pc[h] = "addToBook"
      /\ Sends(h, "respond")
      /\ book' = [book EXCEPT ![side] = ZAdd(@, o, ScoreOf(side, call[h].price))]
      /\ listed' = listed \cup {o}
      /\ UNCHANGED <<order, trades, placed, told, call, faults>>

AddToBook(h) ==
  LET o == call[h].subject
      side == placed[o].side
  IN  /\ pc[h] = "addToBook"
      /\ Sends(h, "respond")
      /\ book' = [book EXCEPT ![side] = ZAdd(@, o, ScoreOf(side, call[h].price))]
      /\ listed' = listed \cup {o}
      /\ UNCHANGED <<order, trades, placed, told, call, faults>>
-----------------------------------------------------------------------------
(* Answers and failures.                                                    *)

\* The events emitted about the order of the request.  A MARKET order whose
\* matchTopOrders made a trade is answered as filled.
Answers(h) ==
  CASE call[h].event = "createOrder" ->
         {"orderCreated"} \cup (IF Matched(h) THEN {"orderFilled"} ELSE {})
    [] call[h].event = "cancelOrder" -> {"orderCancelled"}
    [] call[h].event = "fillOrder" -> {"orderFilled"}
    [] OTHER -> {}

Respond(h) ==
  /\ pc[h] = "respond"
  /\ Sends(h, "idle")
  /\ told' = told \cup [event : Answers(h), orderId : {call[h].subject}]
  /\ call' = [call EXCEPT ![h] = NoCall]
  /\ UNCHANGED <<redis, placed, listed, faults>>

\* orderError: nothing was found to cancel or fill.
RespondError(h) ==
  /\ pc[h] = "respondError"
  /\ Sends(h, "idle")
  /\ call' = [call EXCEPT ![h] = NoCall]
  /\ UNCHANGED <<redis, placed, listed, told, faults>>

\* A command is rejected after its retries, or the instance stops: the commands
\* sent so far stay, the others are never sent, and nothing undoes or resumes.
Fail(h) ==
  /\ pc[h] # "idle"
  /\ faults < MaxFaults
  /\ faults' = faults + 1
  /\ Throws(h)
  /\ UNCHANGED <<redis, placed, listed, told>>
-----------------------------------------------------------------------------
Request(h) ==
  \/ "createOrder" \in Events /\ \E o \in Orders, r \in Requests : RequestCreate(h, o, r)
  \/ "matchTopOrders" \in Events /\ RequestMatch(h)
  \/ "cancelOrder" \in Events /\ \E o \in Orders : RequestCancel(h, o)
  \/ "fillOrder" \in Events /\ \E o \in Orders : RequestFill(h, o)

\* The handler's own steps: it never waits for anything but Redis.
Run(h) ==
  \/ RankBids(h) \/ RankAsks(h) \/ ReadBid(h) \/ ReadAsk(h) \/ StoreTrade(h)
  \/ CheckOpen(h) \/ ReadForStatus(h) \/ RemoveOrder(h) \/ SaveStatus(h)
  \/ ReadForUpdate(h) \/ SaveUpdate(h)
  \/ SaveOrder(h) \/ RankOpposite(h) \/ ReadOpposite(h) \/ ReadLastTrade(h)
  \/ AddToBook(h)
  \/ Respond(h) \/ RespondError(h)

Next == \E h \in Handlers : Request(h) \/ Run(h) \/ Fail(h)

Spec == Init /\ [][Next]_vars

\* A handler that is in flight goes on: Node runs the continuation of every
\* reply, and Redis replies.
Fairness == \A h \in Handlers : WF_vars(Run(h))

FairSpec == Spec /\ Fairness
=============================================================================
