----------------------- MODULE OrderMatchingTypeProofs ----------------------
(***************************************************************************)
(* The first layer of the inductive invariant: types, prices and the local *)
(* variables of the handlers at each of their commands.  One lemma shows   *)
(* that it holds after each command; FrameStep and LocalStep dispose of    *)
(* the handlers that do not move.                                          *)
(***************************************************************************)
EXTENDS OrderMatchingInvariant, TLAPS

(* What a step that changes only handler h leaves alone.                    *)

OthersKeep(h) ==
  /\ \A g \in Handlers \ {h} : pc'[g] = pc[g] /\ call'[g] = call[g]
  /\ \A o \in Orders : placed[o] # NoOrder => placed'[o] = placed[o]

\* A step of h keeps what the invariant says of the other handlers.
LEMMA FrameStep ==
  ASSUME TypeInv, NEW h \in Handlers, EventOK(h)', TopOK(h)', ReadOK(h)', OthersKeep(h)
  PROVE  FrameOK'
<1>1. ASSUME NEW g \in Handlers, g # h
      PROVE  (EventOK(g) /\ TopOK(g) /\ ReadOK(g))'
  BY <1>1 DEF OthersKeep, TypeInv, TypeOK, FrameOK, EventOK, TopOK, ReadOK, Matched,
    Remaining, MatchQuantity, Adding
<1> QED
  BY <1>1 DEF FrameOK

(* What the assignments to a handler's local variables leave alone.         *)

\* A request sets what the handler is about and nothing else.
LEMMA SetRequest ==
  ASSUME TypeOK, NEW h \in Handlers, NEW e \in IncomingEvents, NEW o \in Orders,
         call' = [call EXCEPT ![h].event = e, ![h].subject = o]
  PROVE  /\ call' \in [Handlers -> CallType]
         /\ call'[h].event = e /\ call'[h].subject = o
         /\ call'[h].settling = call[h].settling /\ call'[h].top = call[h].top
<1>1. call[h] \in CallType
  BY DEF TypeOK
<1> QED
  BY <1>1 DEF TypeOK, CallType

\* A rank or a read sets the entries that the handler compares.
LEMMA SetTop ==
  ASSUME TypeOK, NEW h \in Handlers, NEW top \in [Sides -> EntryType \cup {NoEntry}],
         call' = [call EXCEPT ![h].top = top]
  PROVE  /\ call' \in [Handlers -> CallType]
         /\ call'[h].event = call[h].event /\ call'[h].subject = call[h].subject
         /\ call'[h].settling = call[h].settling /\ call'[h].top = top
         /\ call'[h].read = call[h].read
<1>1. call[h] \in CallType
  BY DEF TypeOK
<1> QED
  BY <1>1 DEF TypeOK, CallType

\* A read sets the copy of the order that the handler will write back.
LEMMA SetRead ==
  ASSUME TypeOK, NEW h \in Handlers, NEW read \in OrderType \cup {NoOrder},
         call' = [call EXCEPT ![h].read = read]
  PROVE  /\ call' \in [Handlers -> CallType]
         /\ call'[h].event = call[h].event /\ call'[h].subject = call[h].subject
         /\ call'[h].settling = call[h].settling /\ call'[h].top = call[h].top
         /\ call'[h].read = read
<1>1. call[h] \in CallType
  BY DEF TypeOK
<1> QED
  BY <1>1 DEF TypeOK, CallType

\* Settling one side, or going on to the other, keeps the entries compared.
LEMMA SetSettling ==
  ASSUME TypeOK, NEW h \in Handlers, NEW side \in Sides,
         \/ call' = [call EXCEPT ![h].settling = side]
         \/ call' = [call EXCEPT ![h].settling = side, ![h].read = NoOrder]
  PROVE  /\ call' \in [Handlers -> CallType]
         /\ call'[h].event = call[h].event /\ call'[h].subject = call[h].subject
         /\ call'[h].settling = side /\ call'[h].top = call[h].top
<1>1. call[h] \in CallType
  BY DEF TypeOK
<1>2. CASE call' = [call EXCEPT ![h].settling = side]
  BY <1>1, <1>2 DEF TypeOK, CallType
<1>3. CASE call' = [call EXCEPT ![h].settling = side, ![h].read = NoOrder]
  BY <1>1, <1>3 DEF TypeOK, CallType
<1> QED
  BY <1>2, <1>3

\* addOrder sets the price, and may forget the entry it took it from.
LEMMA SetPrice ==
  ASSUME TypeOK, NEW h \in Handlers, NEW price \in Prices,
         \/ call' = [call EXCEPT ![h].price = price]
         \/ call' = [call EXCEPT ![h].price = price, ![h].top = NoCall.top]
  PROVE  /\ call' \in [Handlers -> CallType]
         /\ call'[h].event = call[h].event /\ call'[h].subject = call[h].subject
         /\ call'[h].settling = call[h].settling
         /\ call'[h].price = price
         /\ call'[h].top \in {call[h].top, NoCall.top}
<1>1. call[h] \in CallType
  BY DEF TypeOK
<1>2. NoCall.top \in [Sides -> EntryType \cup {NoEntry}]
  BY DEF NoCall
<1>3. CASE call' = [call EXCEPT ![h].price = price]
  BY <1>1, <1>3 DEF TypeOK, CallType
<1>4. CASE call' = [call EXCEPT ![h].price = price, ![h].top = NoCall.top]
  BY <1>1, <1>2, <1>4 DEF TypeOK, CallType
<1> QED
  BY <1>3, <1>4

\* A handler that ends keeps no locals.
LEMMA SetNoCall ==
  ASSUME TypeOK, NEW h \in Handlers, call' = [call EXCEPT ![h] = NoCall]
  PROVE  call' \in [Handlers -> CallType] /\ call'[h] = NoCall
<1>1. NoCall \in CallType
  BY DEF NoCall, CallType, Prices
<1> QED
  BY <1>1 DEF TypeOK

\* What an idle handler holds.
LEMMA NoCallFields ==
  /\ NoCall.event = "none" /\ NoCall.settling = "none"
  /\ NoCall.top \in [Sides -> EntryType \cup {NoEntry}]
  /\ \A s \in Sides : NoCall.top[s] = NoEntry /\ NoCall.top[s].status = "unread"
  BY DEF NoCall, NoEntry

\* What getTopBids or getTopAsks ranks first is an entry with a price.
LEMMA RankedType ==
  ASSUME TypeInv, NEW s \in Sides, NEW o \in Orders, IsTop(s, o)
  PROVE  Ranked(s, o) \in EntryType /\ Ranked(s, o).status = "unread"
<1>1. o \in Members(book[s])
  BY DEF IsTop, IsFirst, IsLast, Sides
<1> QED
  BY <1>1 DEF TypeInv, PricesOK, Ranked, EntryType, Prices

\* The entry that ranking one side of the book leaves in top.
LEMMA RankedTop ==
  ASSUME TypeInv, NEW h \in Handlers, NEW s \in Sides, NEW o \in Orders, IsTop(s, o)
  PROVE  LET top == [call[h].top EXCEPT ![s] = Ranked(s, o)]
         IN  /\ top \in [Sides -> EntryType \cup {NoEntry}]
             /\ top[s] = Ranked(s, o) /\ top[s] # NoEntry /\ top[s].status = "unread"
             /\ \A t \in Sides \ {s} : top[t] = call[h].top[t]
<1>1. call[h].top \in [Sides -> EntryType \cup {NoEntry}]
  BY DEF TypeInv, TypeOK, CallType
<1>2. Ranked(s, o) \in EntryType /\ Ranked(s, o).status = "unread"
  BY RankedType
<1>3. Ranked(s, o) # NoEntry
  BY OrderMatchingAssumption DEF Ranked, NoEntry
<1> QED
  BY <1>1, <1>2, <1>3

\* The event createOrder: the Order object under a fresh id.
LEMMA TypeInvRequestCreate ==
  ASSUME TypeInv, NEW h \in Handlers, NEW o \in Orders, NEW r \in Requests, RequestCreate(h, o, r)
  PROVE  TypeInv'
<1> USE OrderMatchingAssumption
<1>0. TypeOK /\ call[h] = NoCall
  BY DEF RequestCreate, TypeInv, FrameOK, EventOK
<1>1. /\ call' \in [Handlers -> CallType]
      /\ call'[h].event = "createOrder" /\ call'[h].subject = o
      /\ call'[h].settling = "none" /\ call'[h].top = NoCall.top
  BY <1>0, SetRequest, NoCallFields DEF RequestCreate, IncomingEvents
<1>2. pc' \in [Handlers -> Commands] /\ pc'[h] \in {"saveOrder", "rankBids"}
  BY DEF RequestCreate, Sends, TypeInv, TypeOK, Commands
<1>3. placed' \in [Orders -> OrderType \cup {NoOrder}] /\ placed'[o] # NoOrder
  BY NoOrderAssumption DEF RequestCreate, TypeInv, TypeOK, RequestType, OrderType, OrderTypes, TradeStatuses
<1>4. TypeOK'
  BY <1>1, <1>2, <1>3 DEF RequestCreate, TypeInv, TypeOK, redis
<1>5. PricesOK'
  <2>1. r.orderType = "LIMIT" => r.price \in Prices
    BY DEF RequestType
  <2>2. placed'[o].orderType = r.orderType /\ placed'[o].price = r.price
    BY DEF RequestCreate, TypeInv, TypeOK
  <2>3. \A p \in Orders \ {o} : placed'[p] = placed[p]
    BY DEF RequestCreate, TypeInv, TypeOK
  <2> QED
    BY <2>1, <2>2, <2>3 DEF RequestCreate, TypeInv, PricesOK, PriceOf, redis
<1>6. EventOK(h)' /\ TopOK(h)' /\ ReadOK(h)'
  BY <1>1, <1>2, <1>3, NoCallFields DEF EventOK, TopOK, ReadOK, Matched, Matching, Changing, Adding, Crosses
<1>7. OthersKeep(h)
  BY DEF RequestCreate, Sends, OthersKeep, TypeInv, TypeOK
<1> QED
  BY <1>4, <1>5, <1>6, <1>7, FrameStep DEF TypeInv

\* For the steps that change no key of Redis and place no order.
LEMMA LocalStep ==
  ASSUME TypeInv, UNCHANGED <<redis, placed, listed>>, told' = told, faults' \in Nat,
         NEW h \in Handlers,
         pc' \in [Handlers -> Commands], call' \in [Handlers -> CallType],
         \A g \in Handlers \ {h} : pc'[g] = pc[g] /\ call'[g] = call[g],
         EventOK(h)', TopOK(h)', ReadOK(h)'
  PROVE  TypeInv'
<1>1. TypeOK'
  BY DEF TypeInv, TypeOK, redis
<1>2. PricesOK'
  BY DEF TypeInv, PricesOK, redis
<1>3. OthersKeep(h)
  BY DEF OthersKeep
<1> QED
  BY <1>1, <1>2, <1>3, FrameStep DEF TypeInv

\* The event matchTopOrders.
LEMMA TypeInvRequestMatch ==
  ASSUME TypeInv, NEW h \in Handlers, RequestMatch(h)
  PROVE  TypeInv'
<1>0. TypeOK /\ call[h] = NoCall /\ call[h] \in CallType
  BY DEF RequestMatch, TypeInv, TypeOK, FrameOK, EventOK
<1>1. /\ call' \in [Handlers -> CallType]
      /\ call'[h].event = "matchTopOrders"
      /\ call'[h].settling = "none" /\ call'[h].top = NoCall.top
  BY <1>0, NoCallFields DEF RequestMatch, TypeOK, CallType, IncomingEvents
<1>2. pc' \in [Handlers -> Commands] /\ pc'[h] = "rankBids"
  BY DEF RequestMatch, Sends, TypeInv, TypeOK, Commands
<1>3. EventOK(h)' /\ TopOK(h)' /\ ReadOK(h)'
  BY <1>1, <1>2, NoCallFields DEF EventOK, TopOK, ReadOK, Matched, Matching, Changing, Adding, Crosses
<1> QED
  BY <1>1, <1>2, <1>3, LocalStep DEF RequestMatch, Sends, TypeInv, TypeOK

\* The events cancelOrder and fillOrder.
LEMMA TypeInvRequestTarget ==
  ASSUME TypeInv, NEW h \in Handlers, NEW o \in Orders, RequestCancel(h, o) \/ RequestFill(h, o)
  PROVE  TypeInv'
<1>0. TypeOK /\ call[h] = NoCall
  BY DEF RequestCancel, RequestFill, TypeInv, FrameOK, EventOK
<1>1. PICK e \in {"cancelOrder", "fillOrder"} : call' = [call EXCEPT ![h].event = e, ![h].subject = o]
      /\ pc' = [pc EXCEPT ![h] = IF e = "cancelOrder" THEN "readForStatus" ELSE "checkOpen"]
  BY DEF RequestCancel, RequestFill, Sends
<1>2. /\ call' \in [Handlers -> CallType]
      /\ call'[h].event = e /\ call'[h].subject = o
      /\ call'[h].settling = "none" /\ call'[h].top = NoCall.top
  BY <1>0, <1>1, SetRequest, NoCallFields DEF IncomingEvents
<1>3. pc' \in [Handlers -> Commands]
      /\ pc'[h] = IF e = "cancelOrder" THEN "readForStatus" ELSE "checkOpen"
  BY <1>1 DEF TypeInv, TypeOK, Commands
<1>4. EventOK(h)' /\ TopOK(h)' /\ ReadOK(h)'
  BY <1>2, <1>3, NoCallFields DEF EventOK, TopOK, ReadOK, Matched, Matching, Changing, Adding, Crosses
<1> QED
  BY <1>1, <1>2, <1>3, <1>4, LocalStep DEF RequestCancel, RequestFill, Sends, TypeInv, TypeOK

\* ZRANGE of getTopBids in matchTopOrders.
LEMMA TypeInvRankBids ==
  ASSUME TypeInv, NEW h \in Handlers, RankBids(h)
  PROVE  TypeInv'
<1>1. pc' \in [Handlers -> Commands] /\ pc'[h] = "rankAsks"
  BY DEF RankBids, Sends, TypeInv, TypeOK, Commands
<1>2. EventOK(h) /\ TopOK(h) /\ call[h].top \in [Sides -> EntryType \cup {NoEntry}]
  BY DEF TypeInv, TypeOK, FrameOK, CallType
<1>3. PICK top \in [Sides -> EntryType \cup {NoEntry}] :
        /\ call' = [call EXCEPT ![h].top = top]
        /\ top["SELL"] = call[h].top["SELL"]
        /\ top["BUY"] = call[h].top["BUY"] \/ top["BUY"].status = "unread"
  <2>1. CASE UNCHANGED call
    <3>1. call' = [call EXCEPT ![h].top = call[h].top]
      BY <2>1 DEF TypeInv, TypeOK, CallType
    <3> QED
      BY <1>2, <3>1
  <2>2. ASSUME NEW o \in Orders, IsTop("BUY", o),
               call' = [call EXCEPT ![h].top = [@ EXCEPT !["BUY"] = Ranked("BUY", o)]]
        PROVE  \E top \in [Sides -> EntryType \cup {NoEntry}] :
                 /\ call' = [call EXCEPT ![h].top = top]
                 /\ top["SELL"] = call[h].top["SELL"]
                 /\ top["BUY"] = call[h].top["BUY"] \/ top["BUY"].status = "unread"
    <3> DEFINE top == [call[h].top EXCEPT !["BUY"] = Ranked("BUY", o)]
    <3>1. /\ top \in [Sides -> EntryType \cup {NoEntry}]
          /\ top["SELL"] = call[h].top["SELL"]
          /\ top["BUY"].status = "unread"
      BY <2>2, RankedTop DEF Sides
    <3>2. call' = [call EXCEPT ![h].top = top]
      BY <2>2
    <3> HIDE DEF top
    <3> QED
      BY <3>1, <3>2
  <2> QED
    BY <2>1, <2>2 DEF RankBids
<1>4. /\ call' \in [Handlers -> CallType]
      /\ call'[h].event = call[h].event /\ call'[h].subject = call[h].subject
      /\ call'[h].settling = call[h].settling /\ call'[h].top = top
  BY <1>3, SetTop DEF TypeInv
<1>5. EventOK(h)' /\ TopOK(h)' /\ ReadOK(h)'
  BY <1>1, <1>2, <1>3, <1>4 DEF RankBids, EventOK, TopOK, ReadOK, Matched, Matching, Changing, Adding,
    Sides
<1> QED
  BY <1>1, <1>3, <1>4, <1>5, LocalStep DEF RankBids, Sends, TypeInv, TypeOK

\* ZRANGE of getTopAsks in matchTopOrders, after which the next command is known.
LEMMA TypeInvRankAsks ==
  ASSUME TypeInv, NEW h \in Handlers, RankAsks(h)
  PROVE  TypeInv'
<1>1. EventOK(h) /\ TopOK(h) /\ call[h].top \in [Sides -> EntryType \cup {NoEntry}]
  BY DEF TypeInv, TypeOK, FrameOK, CallType
<1>2. PICK top \in [Sides -> EntryType \cup {NoEntry}] :
        /\ call' = [call EXCEPT ![h].top = top]
        /\ pc' = [pc EXCEPT ![h] = NextRead(h, top)]
        /\ top["BUY"] = call[h].top["BUY"]
        /\ top["SELL"] = call[h].top["SELL"] \/ top["SELL"].status = "unread"
  <2>1. CASE UNCHANGED call /\ Sends(h, NextRead(h, call[h].top))
    <3>1. call' = [call EXCEPT ![h].top = call[h].top]
      BY <2>1 DEF TypeInv, TypeOK, CallType
    <3> QED
      BY <1>1, <2>1, <3>1 DEF Sends
  <2>2. ASSUME NEW o \in Orders, IsTop("SELL", o),
               call' = [call EXCEPT ![h].top = [call[h].top EXCEPT !["SELL"] = Ranked("SELL", o)]],
               Sends(h, NextRead(h, [call[h].top EXCEPT !["SELL"] = Ranked("SELL", o)]))
        PROVE  \E top \in [Sides -> EntryType \cup {NoEntry}] :
                 /\ call' = [call EXCEPT ![h].top = top]
                 /\ pc' = [pc EXCEPT ![h] = NextRead(h, top)]
                 /\ top["BUY"] = call[h].top["BUY"]
                 /\ top["SELL"] = call[h].top["SELL"] \/ top["SELL"].status = "unread"
    <3> DEFINE top == [call[h].top EXCEPT !["SELL"] = Ranked("SELL", o)]
    <3>1. /\ top \in [Sides -> EntryType \cup {NoEntry}]
          /\ top["BUY"] = call[h].top["BUY"]
          /\ top["SELL"].status = "unread"
      BY <2>2, RankedTop DEF Sides
    <3>2. call' = [call EXCEPT ![h].top = top] /\ pc' = [pc EXCEPT ![h] = NextRead(h, top)]
      BY <2>2 DEF Sends
    <3> HIDE DEF top
    <3> QED
      BY <3>1, <3>2
  <2> QED
    BY <2>1, <2>2 DEF RankAsks
<1>3. /\ call' \in [Handlers -> CallType]
      /\ call'[h].event = call[h].event /\ call'[h].subject = call[h].subject
      /\ call'[h].settling = call[h].settling /\ call'[h].top = top
  BY <1>2, SetTop DEF TypeInv
<1>4. pc' \in [Handlers -> Commands] /\ pc'[h] = NextRead(h, top)
  BY <1>2 DEF NextRead, AfterReads, TypeInv, TypeOK, Commands
<1>5. EventOK(h)' /\ TopOK(h)' /\ ReadOK(h)'
  BY <1>1, <1>2, <1>3, <1>4 DEF RankAsks, NextRead, AfterReads, EventOK, TopOK, ReadOK, Matched,
    Matching, Changing, Adding, Sides
<1> QED
  BY <1>2, <1>3, <1>4, <1>5, LocalStep DEF RankAsks, TypeInv, TypeOK

\* Any step that ends the handler, with an answer or without.
LEMMA TypeInvReset ==
  ASSUME TypeInv, UNCHANGED <<redis, placed, listed>>, NEW h \in Handlers, Throws(h),
         told' \in SUBSET [event : {"orderCreated", "orderFilled", "orderCancelled"}, orderId : Orders],
         faults' \in Nat
  PROVE  TypeInv'
<1>1. call' \in [Handlers -> CallType] /\ call'[h] = NoCall
  BY SetNoCall DEF Throws, TypeInv
<1>2. pc' \in [Handlers -> Commands] /\ pc'[h] = "idle"
  BY DEF Throws, Sends, TypeInv, TypeOK, Commands
<1>3. TypeOK'
  BY <1>1, <1>2 DEF TypeInv, TypeOK, redis
<1>4. PricesOK'
  BY DEF TypeInv, PricesOK, redis
<1>5. EventOK(h)' /\ TopOK(h)' /\ ReadOK(h)'
  BY <1>1, <1>2, NoCallFields DEF EventOK, TopOK, ReadOK, Matched, Matching, Changing, Adding
<1>6. OthersKeep(h)
  BY DEF Throws, Sends, OthersKeep, TypeInv, TypeOK
<1> QED
  BY <1>3, <1>4, <1>5, <1>6, FrameStep DEF TypeInv

\* HGETALL of a top order: its quantity and status complete the entry.
LEMMA TypeInvRead ==
  ASSUME TypeInv, NEW h \in Handlers, ReadBid(h) \/ ReadAsk(h)
  PROVE  TypeInv'
<1>1. PICK s \in Sides : /\ ReadRanked(h, s)
                         /\ pc[h] = IF s = "BUY" THEN "readBid" ELSE "readAsk"
  BY DEF ReadBid, ReadAsk, Sides
<1> DEFINE stored == order[call[h].top[s].orderId]
           top == [call[h].top EXCEPT ![s].quantity = stored.quantity, ![s].status = stored.status]
<1>2. EventOK(h) /\ TopOK(h) /\ ReadOK(h)
  BY DEF TypeInv, FrameOK
<1>3. CASE stored = NoOrder
  BY <1>1, <1>3, TypeInvReset DEF ReadRanked, TypeInv, TypeOK
<1>4. CASE stored # NoOrder
  <2>1. call[h].top \in [Sides -> EntryType \cup {NoEntry}]
    BY DEF TypeInv, TypeOK, CallType
  <2>2. call[h].top[s] \in EntryType
    BY <1>1, <1>2, <2>1 DEF TopOK, Sides
  <2>3. stored \in OrderType
    BY <1>4, <2>2 DEF TypeInv, TypeOK, EntryType
  <2>4. /\ top \in [Sides -> EntryType \cup {NoEntry}]
        /\ top[s] \in EntryType /\ top[s].quantity \in Quantities
        /\ \A t \in Sides \ {s} : top[t] = call[h].top[t]
    BY <2>1, <2>2, <2>3 DEF EntryType, OrderType, Quantities
  <2>5. call' = [call EXCEPT ![h].top = top]
    BY <1>1, <1>4 DEF ReadRanked
  <2>6. pc' = [pc EXCEPT ![h] = IF s = "BUY" /\ top["SELL"] # NoEntry THEN "readAsk"
                                ELSE AfterReads(h, top)]
    BY <1>1, <1>4 DEF ReadRanked, Sends
  <2> HIDE DEF top
  <2>7. /\ call' \in [Handlers -> CallType]
        /\ call'[h].event = call[h].event /\ call'[h].subject = call[h].subject
        /\ call'[h].settling = call[h].settling /\ call'[h].top = top
    BY <2>4, <2>5, SetTop DEF TypeInv
  <2>8. /\ pc' \in [Handlers -> Commands]
        /\ pc'[h] = IF s = "BUY" /\ top["SELL"] # NoEntry THEN "readAsk" ELSE AfterReads(h, top)
    BY <2>6 DEF AfterReads, TypeInv, TypeOK, Commands
  <2>9. EventOK(h)' /\ TopOK(h)' /\ ReadOK(h)'
    BY <1>1, <1>2, <2>4, <2>7, <2>8 DEF ReadRanked, AfterReads, EventOK, TopOK, ReadOK, Matched,
      Matching, Changing, Adding, Sides
  <2> QED
    BY <1>1, <2>5, <2>6, <2>7, <2>8, <2>9, LocalStep DEF ReadRanked, TypeInv, TypeOK
<1> QED
  BY <1>3, <1>4

\* The quantity of a trade and what it leaves of the two orders.
LEMMA MatchArithmetic ==
  ASSUME TypeInv, NEW h \in Handlers, pc[h] = "storeTrade" \/ Matched(h)
  PROVE  /\ MatchQuantity(h) \in Quantities
         /\ MatchPrice(h) \in Prices
         /\ call[h].top["SELL"].price <= MatchPrice(h)
         /\ MatchPrice(h) <= call[h].top["BUY"].price
         /\ \A s \in Sides :
              /\ call[h].top[s] \in EntryType
              /\ Remaining(h, s) \in Nat
              /\ Remaining(h, s) < call[h].top[s].quantity
<1>1. Crosses(call[h].top["BUY"], call[h].top["SELL"])
  BY DEF TypeInv, FrameOK, TopOK
<1>2. \A s \in Sides : call[h].top[s] \in EntryType /\ call[h].top[s].quantity \in Quantities
  BY <1>1 DEF Crosses, TypeInv, TypeOK, FrameOK, TopOK, CallType, Sides
<1>3. \A s \in Sides : call[h].top[s].price \in Prices
  BY <1>2 DEF EntryType
<1> DEFINE b == call[h].top["BUY"].price
           a == call[h].top["SELL"].price
<1>4. b \in Nat /\ a \in Nat /\ a <= b
  BY <1>1, <1>3 DEF Crosses, Sides, Prices
<1>5. (b + a) \div 2 \in Nat /\ a <= (b + a) \div 2 /\ (b + a) \div 2 <= b
  <2> HIDE DEF a, b
  <2> QED
    BY <1>4
<1>6. MatchQuantity(h) \in Quantities
  BY <1>2 DEF MatchQuantity, Sides
<1>7. \A s \in Sides : Remaining(h, s) \in Nat /\ Remaining(h, s) < call[h].top[s].quantity
  BY <1>2 DEF Remaining, MatchQuantity, Quantities, Sides
<1> QED
  BY <1>2, <1>5, <1>6, <1>7 DEF MatchPrice, Prices

\* e between two sequences.
LEMMA Between ==
  ASSUME NEW S, NEW f \in Seq(S), NEW b \in Seq(S), NEW e \in S
  PROVE  /\ f \o <<e>> \o b \in Seq(S) /\ Len(f \o <<e>> \o b) = Len(f) + 1 + Len(b)
         /\ (f \o <<e>> \o b)[Len(f) + 1] = e
         /\ \A j \in 1 .. Len(f) : (f \o <<e>> \o b)[j] = f[j]
         /\ \A j \in 1 .. Len(b) : (f \o <<e>> \o b)[Len(f) + 1 + j] = b[j]
<1> DEFINE g == f \o <<e>>
<1>1. g \in Seq(S) /\ Len(g) = Len(f) + 1 /\ g[Len(f) + 1] = e
      /\ \A j \in 1 .. Len(f) : g[j] = f[j]
  OBVIOUS
<1> HIDE DEF g
<1>2. /\ g \o b \in Seq(S) /\ Len(g \o b) = Len(g) + Len(b)
      /\ \A j \in 1 .. Len(g) : (g \o b)[j] = g[j]
      /\ \A j \in 1 .. Len(b) : (g \o b)[Len(g) + j] = b[j]
  BY <1>1
<1>3. Len(f) \in Nat /\ Len(f) + 1 \in 1 .. Len(g) /\ \A j \in 1 .. Len(f) : j \in 1 .. Len(g)
  BY <1>1
<1>4. /\ g \o b \in Seq(S) /\ Len(g \o b) = Len(f) + 1 + Len(b)
      /\ (g \o b)[Len(f) + 1] = e
      /\ \A j \in 1 .. Len(f) : (g \o b)[j] = f[j]
      /\ \A j \in 1 .. Len(b) : (g \o b)[Len(f) + 1 + j] = b[j]
  BY <1>1, <1>2, <1>3
<1> QED
  BY <1>4 DEF g

InsertAfter(s, i, e) == SubSeq(s, 1, i) \o <<e>> \o SubSeq(s, i + 1, Len(s))

\* A sequence after e has been inserted at place i.
LEMMA InsertedAt ==
  ASSUME NEW S, NEW s \in Seq(S), NEW e \in S, NEW i \in 0 .. Len(s)
  PROVE  /\ InsertAfter(s, i, e) \in Seq(S) /\ Len(InsertAfter(s, i, e)) = Len(s) + 1
         /\ InsertAfter(s, i, e)[i + 1] = e
         /\ \A j \in 1 .. i : InsertAfter(s, i, e)[j] = s[j]
         /\ \A j \in i + 1 .. Len(s) : InsertAfter(s, i, e)[j + 1] = s[j]
<1> DEFINE f == SubSeq(s, 1, i)
           b == SubSeq(s, i + 1, Len(s))
           r == InsertAfter(s, i, e)
<1>1. f \in Seq(S) /\ Len(f) = i /\ \A j \in 1 .. i : f[j] = s[j]
  OBVIOUS
<1>2. b \in Seq(S) /\ Len(b) = Len(s) - i
      /\ \A j \in 1 .. Len(s) - i : b[j] = s[i + j]
  OBVIOUS
<1>3. r = f \o <<e>> \o b
  BY DEF InsertAfter
<1>4. Len(s) \in Nat /\ i \in Nat /\ i <= Len(s)
  OBVIOUS
<1> HIDE DEF f, b, r
<1>5. /\ r \in Seq(S) /\ Len(r) = Len(f) + 1 + Len(b)
      /\ r[Len(f) + 1] = e
      /\ \A j \in 1 .. Len(f) : r[j] = f[j]
      /\ \A j \in 1 .. Len(b) : r[Len(f) + 1 + j] = b[j]
  <2>1. f \in Seq(S) /\ b \in Seq(S)
    BY <1>1, <1>2
  <2>2. /\ f \o <<e>> \o b \in Seq(S) /\ Len(f \o <<e>> \o b) = Len(f) + 1 + Len(b)
        /\ (f \o <<e>> \o b)[Len(f) + 1] = e
        /\ \A j \in 1 .. Len(f) : (f \o <<e>> \o b)[j] = f[j]
        /\ \A j \in 1 .. Len(b) : (f \o <<e>> \o b)[Len(f) + 1 + j] = b[j]
    BY ONLY <2>1, Between, e \in S
  <2> QED
    BY ONLY <2>2, <1>3
<1>6. r \in Seq(S) /\ Len(r) = Len(s) + 1 /\ r[i + 1] = e
  BY <1>1, <1>2, <1>4, <1>5
<1>7. ASSUME NEW j \in 1 .. i
      PROVE  r[j] = s[j]
  BY <1>1, <1>5
<1>8. ASSUME NEW j \in i + 1 .. Len(s)
      PROVE  r[j + 1] = s[j]
  <2>1. j - i \in 1 .. Len(s) - i /\ i + (j - i) = j /\ i + 1 + (j - i) = j + 1
    BY <1>4
  <2>2. r[i + 1 + (j - i)] = b[j - i] /\ b[j - i] = s[i + (j - i)]
    BY <1>1, <1>2, <1>5, <2>1
  <2> QED
    BY <2>1, <2>2
<1> QED
  BY <1>6, <1>7, <1>8 DEF r

\* A trade put in somewhere among the trades leaves the others as they are.
LEMMA Inserted ==
  ASSUME trades \in Seq(TradeType), NEW e \in TradeType, NEW i \in 0 .. Len(trades),
         trades' = SubSeq(trades, 1, i) \o <<e>> \o SubSeq(trades, i + 1, Len(trades))
  PROVE  /\ trades' \in Seq(TradeType)
         /\ \A j \in 1 .. Len(trades') :
              trades'[j] = e \/ \E k \in 1 .. Len(trades) : trades'[j] = trades[k]
<1>1. trades' = InsertAfter(trades, i, e)
  BY DEF InsertAfter
<1>2. /\ trades' \in Seq(TradeType) /\ Len(trades') = Len(trades) + 1 /\ trades'[i + 1] = e
      /\ \A j \in 1 .. i : trades'[j] = trades[j]
      /\ \A j \in i + 1 .. Len(trades) : trades'[j + 1] = trades[j]
  <2> DEFINE r == InsertAfter(trades, i, e)
  <2>1. /\ r \in Seq(TradeType) /\ Len(r) = Len(trades) + 1 /\ r[i + 1] = e
        /\ \A j \in 1 .. i : r[j] = trades[j]
        /\ \A j \in i + 1 .. Len(trades) : r[j + 1] = trades[j]
    BY InsertedAt
  <2> HIDE DEF r
  <2>2. trades' = r
    BY <1>1 DEF r
  <2> QED
    BY ONLY <2>1, <2>2
<1>3. Len(trades) \in Nat /\ i \in Nat /\ i <= Len(trades)
  OBVIOUS
<1>4. ASSUME NEW j \in 1 .. Len(trades')
      PROVE  trades'[j] = e \/ \E k \in 1 .. Len(trades) : trades'[j] = trades[k]
  <2>1. j \in 1 .. i \/ j = i + 1 \/ j - 1 \in i + 1 .. Len(trades)
    <3>1. Len(trades') = Len(trades) + 1
      BY <1>2
    <3>2. j \in Int /\ 1 <= j /\ j <= Len(trades) + 1
      BY ONLY <3>1, <1>3, j \in 1 .. Len(trades')
    <3> QED
      BY ONLY <3>2, <1>3
  <2>2. CASE j \in 1 .. i
    <3>1. j \in 1 .. Len(trades)
      BY <1>3, <2>2
    <3> QED
      BY <1>2, <2>2, <3>1
  <2>3. CASE j - 1 \in i + 1 .. Len(trades)
    <3>1. (j - 1) + 1 = j /\ j - 1 \in 1 .. Len(trades)
      BY <1>3, <2>3
    <3>2. trades'[(j - 1) + 1] = trades[j - 1]
      BY <1>2, <2>3
    <3> QED
      BY <3>1, <3>2
  <2> QED
    BY <1>2, <2>1, <2>2, <2>3
<1> QED
  BY <1>2, <1>4

\* storeTrade of matchTopOrders: the trade is well formed.
LEMMA TypeInvStoreTrade ==
  ASSUME TypeInv, NEW h \in Handlers, StoreTrade(h)
  PROVE  TypeInv'
<1>1. EventOK(h) /\ TopOK(h)
  BY DEF TypeInv, FrameOK
<1>2. /\ call' \in [Handlers -> CallType]
      /\ call'[h].event = call[h].event /\ call'[h].subject = call[h].subject
      /\ call'[h].settling = "BUY" /\ call'[h].top = call[h].top
  BY SetSettling DEF StoreTrade, TypeInv, Sides
<1>3. pc' \in [Handlers -> Commands] /\ pc'[h] = Settle(h, "BUY")
  BY DEF StoreTrade, Sends, Settle, TypeInv, TypeOK, Commands
<1>4. trades' \in Seq(TradeType)
  <2> DEFINE trade == [buyOrderId |-> call[h].top["BUY"].orderId,
                       sellOrderId |-> call[h].top["SELL"].orderId,
                       quantity |-> MatchQuantity(h), price |-> MatchPrice(h)]
  <2>1. trade \in TradeType
    BY MatchArithmetic DEF StoreTrade, TradeType, EntryType, Sides
  <2>2. PICK i \in 0 .. Len(trades) :
          trades' = SubSeq(trades, 1, i) \o <<trade>> \o SubSeq(trades, i + 1, Len(trades))
    BY DEF StoreTrade
  <2> HIDE DEF trade
  <2>3. trades \in Seq(TradeType)
    BY DEF TypeInv, TypeOK
  <2> QED
    BY <2>1, <2>2, <2>3, Inserted
<1>5. TypeOK'
  BY <1>2, <1>3, <1>4 DEF StoreTrade, TypeInv, TypeOK
<1>6. PricesOK'
  BY DEF StoreTrade, TypeInv, PricesOK
<1>7. Remaining(h, "BUY")' = Remaining(h, "BUY") /\ Remaining(h, "BUY") \in Nat
  BY <1>2, MatchArithmetic DEF StoreTrade, Remaining, MatchQuantity, Sides
<1>8. EventOK(h)' /\ TopOK(h)' /\ ReadOK(h)'
  BY <1>1, <1>2, <1>3, <1>7 DEF StoreTrade, Settle, EventOK, TopOK, ReadOK, Matched, Matching,
    Changing, Adding
<1>9. OthersKeep(h)
  BY DEF StoreTrade, Sends, OthersKeep, TypeInv, TypeOK
<1> QED
  BY <1>5, <1>6, <1>8, <1>9, FrameStep DEF TypeInv

\* The other side of the trade, or the answer.
LEMMA Continues ==
  ASSUME TypeInv, NEW h \in Handlers, pc[h] \in Changing, Continue(h), placed' = placed
  PROVE  /\ pc' \in [Handlers -> Commands] /\ call' \in [Handlers -> CallType]
         /\ \A g \in Handlers \ {h} : pc'[g] = pc[g] /\ call'[g] = call[g]
         /\ EventOK(h)' /\ TopOK(h)' /\ ReadOK(h)'
<1>1. EventOK(h) /\ TopOK(h)
  BY DEF TypeInv, FrameOK
<1>2. CASE call[h].settling = "BUY"
  <2>1. /\ call' \in [Handlers -> CallType]
        /\ call'[h].event = call[h].event /\ call'[h].subject = call[h].subject
        /\ call'[h].settling = "SELL" /\ call'[h].top = call[h].top
    BY <1>2, SetSettling DEF Continue, TypeInv, Sides
  <2>2. pc' = [pc EXCEPT ![h] = Settle(h, "SELL")]
    BY <1>2 DEF Continue, Sends
  <2>3. pc' \in [Handlers -> Commands] /\ pc'[h] = Settle(h, "SELL")
    BY <2>2 DEF Settle, TypeInv, TypeOK, Commands
  <2>4. Remaining(h, "SELL")' = Remaining(h, "SELL") /\ Remaining(h, "SELL") \in Nat
    BY <1>2, <2>1, MatchArithmetic DEF Remaining, MatchQuantity, Matched, Sides
  <2>5. EventOK(h)' /\ TopOK(h)' /\ ReadOK(h)'
    BY <1>1, <1>2, <2>1, <2>3, <2>4 DEF Settle, EventOK, TopOK, ReadOK, Matched, Matching,
      Changing, Adding
  <2> QED
    BY <1>2, <2>1, <2>2, <2>3, <2>5 DEF Continue, TypeInv, TypeOK
<1>3. CASE call[h].settling # "BUY"
  <2>1. call' = [call EXCEPT ![h].read = NoOrder] /\ pc' = [pc EXCEPT ![h] = "respond"]
    BY <1>3 DEF Continue, Sends
  <2>2. /\ call' \in [Handlers -> CallType]
        /\ call'[h].event = call[h].event /\ call'[h].subject = call[h].subject
        /\ call'[h].settling = call[h].settling /\ call'[h].top = call[h].top
    BY <2>1, SetRead DEF TypeInv
  <2>3. pc' \in [Handlers -> Commands] /\ pc'[h] = "respond"
    BY <2>1 DEF TypeInv, TypeOK, Commands
  <2>4. EventOK(h)' /\ TopOK(h)' /\ ReadOK(h)'
    BY <1>1, <2>2, <2>3 DEF EventOK, TopOK, ReadOK, Matched, Matching, Changing, Adding
  <2> QED
    BY <2>1, <2>2, <2>3, <2>4 DEF TypeInv, TypeOK
<1> QED
  BY <1>2, <1>3

\* A step that only goes on to the other side of the trade, or to the answer.
LEMMA TypeInvContinue ==
  ASSUME TypeInv, NEW h \in Handlers, pc[h] \in Changing, Continue(h),
         UNCHANGED <<redis, placed, listed, told, faults>>
  PROVE  TypeInv'
  BY Continues, LocalStep DEF TypeInv, TypeOK

\* fillOrder's check of the status.
LEMMA TypeInvCheckOpen ==
  ASSUME TypeInv, NEW h \in Handlers, CheckOpen(h)
  PROVE  TypeInv'
<1>1. EventOK(h) /\ TopOK(h) /\ ReadOK(h)
  BY DEF TypeInv, FrameOK
<1>2. CASE Continue(h)
  BY <1>2, TypeInvContinue DEF CheckOpen, Changing
<1>3. CASE UNCHANGED call /\ Sends(h, "readForStatus")
  <2>1. pc' \in [Handlers -> Commands] /\ pc'[h] = "readForStatus"
    BY <1>3 DEF Sends, TypeInv, TypeOK, Commands
  <2>2. EventOK(h)' /\ TopOK(h)' /\ ReadOK(h)'
    BY <1>1, <1>3, <2>1 DEF CheckOpen, EventOK, TopOK, ReadOK, Matched, Matching, Changing, Adding
  <2> QED
    BY <1>3, <2>1, <2>2, LocalStep DEF CheckOpen, Sends, TypeInv, TypeOK
<1>4. CASE UNCHANGED call /\ Sends(h, "respondError") /\ call[h].event = "fillOrder"
  <2>1. pc' \in [Handlers -> Commands] /\ pc'[h] = "respondError"
    BY <1>4 DEF Sends, TypeInv, TypeOK, Commands
  <2>2. EventOK(h)' /\ TopOK(h)' /\ ReadOK(h)'
    BY <1>1, <1>4, <2>1 DEF CheckOpen, EventOK, TopOK, ReadOK, Matched, Matching, Changing, Adding
  <2> QED
    BY <1>4, <2>1, <2>2, LocalStep DEF CheckOpen, Sends, TypeInv, TypeOK
<1> QED
  BY <1>2, <1>3, <1>4 DEF CheckOpen

\* Whatever changes an order changes one of ours.
LEMMA TargetType ==
  ASSUME TypeInv, NEW h \in Handlers, pc[h] \in Changing
  PROVE  Target(h) \in Orders
<1>1. EventOK(h)
  BY DEF TypeInv, FrameOK
<1>2. CASE call[h].event \in {"cancelOrder", "fillOrder"}
  BY <1>1, <1>2 DEF EventOK, Target
<1>3. CASE call[h].event \notin {"cancelOrder", "fillOrder"}
  <2>1. Matched(h) /\ call[h].settling \in Sides
    BY <1>1, <1>3 DEF EventOK, Changing, Matched, TypeInv, TypeOK, CallType, IncomingEvents
  <2> QED
    BY <1>3, <2>1, MatchArithmetic DEF Target, EntryType
<1> QED
  BY <1>2, <1>3

\* getOrder of setOrderStatus.
LEMMA TypeInvReadForStatus ==
  ASSUME TypeInv, NEW h \in Handlers, ReadForStatus(h)
  PROVE  TypeInv'
<1>1. EventOK(h) /\ TopOK(h) /\ ReadOK(h)
  BY DEF TypeInv, FrameOK
<1> DEFINE stored == order[Target(h)]
           status == IF call[h].event = "cancelOrder" THEN "CANCELLED" ELSE "FILLED"
<1>2. CASE stored = NoOrder /\ call[h].event # "cancelOrder"
  BY <1>2, TypeInvContinue DEF ReadForStatus, Changing
<1>3. CASE stored = NoOrder /\ call[h].event = "cancelOrder"
  <2>1. UNCHANGED call /\ Sends(h, "respondError")
    BY <1>3 DEF ReadForStatus
  <2>2. pc' \in [Handlers -> Commands] /\ pc'[h] = "respondError"
    BY <2>1 DEF Sends, TypeInv, TypeOK, Commands
  <2>3. EventOK(h)' /\ TopOK(h)' /\ ReadOK(h)'
    BY <1>1, <1>3, <2>1, <2>2 DEF ReadForStatus, EventOK, TopOK, ReadOK, Matched, Matching,
      Changing, Adding
  <2> QED
    BY <2>1, <2>2, <2>3, LocalStep DEF ReadForStatus, Sends, TypeInv, TypeOK
<1>4. CASE stored # NoOrder
  <2>1. stored \in OrderType
    BY <1>4, TargetType DEF ReadForStatus, Changing, TypeInv, TypeOK
  <2>2. [stored EXCEPT !.status = status] \in OrderType
    BY <2>1 DEF OrderType, TradeStatuses
  <2>3. /\ call' = [call EXCEPT ![h].read = [stored EXCEPT !.status = status]]
        /\ pc' = [pc EXCEPT ![h] = "removeOrder"]
    BY <1>4 DEF ReadForStatus, LeavesBook, Sends
  <2>4. /\ call' \in [Handlers -> CallType]
        /\ call'[h].event = call[h].event /\ call'[h].subject = call[h].subject
        /\ call'[h].settling = call[h].settling /\ call'[h].top = call[h].top
        /\ call'[h].read \in OrderType
    BY <2>2, <2>3, SetRead DEF TypeInv
  <2>5. pc' \in [Handlers -> Commands] /\ pc'[h] = "removeOrder"
    BY <2>3 DEF TypeInv, TypeOK, Commands
  <2>6. EventOK(h)' /\ TopOK(h)' /\ ReadOK(h)'
    BY <1>1, <2>4, <2>5, NoOrderAssumption DEF ReadForStatus, EventOK, TopOK, ReadOK, Matched,
      Matching, Changing, Adding
  <2> QED
    BY <2>3, <2>4, <2>5, <2>6, LocalStep DEF ReadForStatus, TypeInv, TypeOK
<1> QED
  BY <1>2, <1>3, <1>4

\* getOrder of updateOrder: the quantity left is positive.
LEMMA TypeInvReadForUpdate ==
  ASSUME TypeInv, NEW h \in Handlers, ReadForUpdate(h)
  PROVE  TypeInv'
<1>1. EventOK(h) /\ TopOK(h) /\ ReadOK(h)
  BY DEF TypeInv, FrameOK
<1> DEFINE stored == order[Target(h)]
<1>2. CASE stored = NoOrder
  BY <1>2, TypeInvContinue DEF ReadForUpdate, Changing
<1>3. CASE stored # NoOrder
  <2> DEFINE left == Remaining(h, call[h].settling)
  <2>1. stored \in OrderType
    BY <1>3, TargetType DEF ReadForUpdate, Changing, TypeInv, TypeOK
  <2>2. left \in Quantities
    BY <1>1, MatchArithmetic DEF ReadForUpdate, TopOK, Matched, TypeInv, TypeOK, CallType, Quantities
  <2> HIDE DEF left
  <2>3. [stored EXCEPT !.quantity = left] \in OrderType
    BY <2>1, <2>2 DEF OrderType
  <2>4. /\ call' = [call EXCEPT ![h].read = [stored EXCEPT !.quantity = left]]
        /\ pc' = [pc EXCEPT ![h] = "saveUpdate"]
    BY <1>3 DEF ReadForUpdate, Sends, left
  <2>5. /\ call' \in [Handlers -> CallType]
        /\ call'[h].event = call[h].event /\ call'[h].subject = call[h].subject
        /\ call'[h].settling = call[h].settling /\ call'[h].top = call[h].top
        /\ call'[h].read \in OrderType
    BY <2>3, <2>4, SetRead DEF TypeInv
  <2>6. pc' \in [Handlers -> Commands] /\ pc'[h] = "saveUpdate"
    BY <2>4 DEF TypeInv, TypeOK, Commands
  <2>7. EventOK(h)' /\ TopOK(h)' /\ ReadOK(h)'
    BY <1>1, <2>5, <2>6, NoOrderAssumption DEF ReadForUpdate, EventOK, TopOK, ReadOK, Matched,
      Matching, Changing, Adding, Remaining, MatchQuantity
  <2> QED
    BY <2>4, <2>5, <2>6, <2>7, LocalStep DEF ReadForUpdate, TypeInv, TypeOK
<1> QED
  BY <1>2, <1>3

\* HSET of setOrderStatus and updateOrder.
LEMMA TypeInvSave ==
  ASSUME TypeInv, NEW h \in Handlers, SaveStatus(h) \/ SaveUpdate(h)
  PROVE  TypeInv'
<1>1. /\ order' = [order EXCEPT ![Target(h)] = call[h].read]
      /\ Continue(h) /\ UNCHANGED <<book, trades, placed, listed, told, faults>>
      /\ pc[h] \in Changing
  BY DEF SaveStatus, SaveUpdate, Changing
<1>2. order' \in [Orders -> OrderType \cup {NoOrder}]
  BY <1>1 DEF TypeInv, TypeOK, CallType
<1>3. /\ pc' \in [Handlers -> Commands] /\ call' \in [Handlers -> CallType]
      /\ \A g \in Handlers \ {h} : pc'[g] = pc[g] /\ call'[g] = call[g]
      /\ EventOK(h)' /\ TopOK(h)' /\ ReadOK(h)'
  BY <1>1, Continues
<1>4. TypeOK'
  BY <1>1, <1>2, <1>3 DEF TypeInv, TypeOK
<1>5. PricesOK' /\ OthersKeep(h)
  BY <1>1, <1>3 DEF TypeInv, PricesOK, OthersKeep
<1> QED
  BY <1>3, <1>4, <1>5, FrameStep DEF TypeInv

\* ZREM of setOrderStatus.
LEMMA TypeInvRemoveOrder ==
  ASSUME TypeInv, NEW h \in Handlers, RemoveOrder(h)
  PROVE  TypeInv'
<1>1. EventOK(h) /\ TopOK(h) /\ ReadOK(h)
  BY DEF TypeInv, FrameOK
<1>2. pc' \in [Handlers -> Commands] /\ pc'[h] = "saveStatus"
  BY DEF RemoveOrder, Sends, TypeInv, TypeOK, Commands
<1>3. call[h].read.side \in Sides
  BY <1>1 DEF RemoveOrder, ReadOK, TypeInv, TypeOK, CallType, OrderType
<1>4. /\ book' \in [Sides -> SortedSet(Orders)]
      /\ \A s \in Sides : \A o \in Members(book'[s]) :
           o \in Members(book[s]) /\ book'[s][o] = book[s][o]
  BY <1>3 DEF RemoveOrder, ZRem, SortedSet, Score, Members, TypeInv, TypeOK
<1>5. TypeOK'
  BY <1>2, <1>4 DEF RemoveOrder, TypeInv, TypeOK
<1>6. PricesOK'
  BY <1>4 DEF RemoveOrder, TypeInv, PricesOK, PriceOf
<1>7. EventOK(h)' /\ TopOK(h)' /\ ReadOK(h)'
  BY <1>1, <1>2 DEF RemoveOrder, EventOK, TopOK, ReadOK, Matched, Matching, Changing, Adding
<1>8. OthersKeep(h)
  BY DEF RemoveOrder, Sends, OthersKeep, TypeInv, TypeOK
<1> QED
  BY <1>5, <1>6, <1>7, <1>8, FrameStep DEF TypeInv

\* HSET of addOrder: a LIMIT order has a price to be ranked by.
LEMMA TypeInvSaveOrder ==
  ASSUME TypeInv, NEW h \in Handlers, SaveOrder(h)
  PROVE  TypeInv'
<1>1. EventOK(h) /\ TopOK(h) /\ ReadOK(h)
  BY DEF TypeInv, FrameOK
<1> DEFINE new == placed[call[h].subject]
<1>2. call[h].subject \in Orders /\ new # NoOrder /\ new \in OrderType
  BY <1>1 DEF SaveOrder, EventOK, Adding, TypeInv, TypeOK
<1>3. order' = [order EXCEPT ![call[h].subject] = new]
      /\ order' \in [Orders -> OrderType \cup {NoOrder}]
  BY <1>2 DEF SaveOrder, TypeInv, TypeOK
<1>4. /\ call' \in [Handlers -> CallType]
      /\ call'[h].event = call[h].event /\ call'[h].subject = call[h].subject
      /\ call'[h].settling = call[h].settling
      /\ \A s \in Sides : call'[h].top[s] = call[h].top[s] \/ call'[h].top[s].status = "unread"
  <2>1. CASE new.orderType = "LIMIT"
    <3>1. new.price \in Prices
      BY <1>2, <2>1 DEF TypeInv, PricesOK
    <3>2. call' = [call EXCEPT ![h].price = new.price]
      BY <2>1 DEF SaveOrder
    <3> HIDE DEF new
    <3>3. /\ call' \in [Handlers -> CallType]
          /\ call'[h].event = call[h].event /\ call'[h].subject = call[h].subject
          /\ call'[h].settling = call[h].settling
          /\ call'[h].top \in {call[h].top, NoCall.top}
      BY <3>1, <3>2, SetPrice DEF TypeInv
    <3> QED
      BY <3>3, NoCallFields
  <2>2. CASE new.orderType # "LIMIT"
    <3>1. call' = [call EXCEPT ![h].top = NoCall.top]
      BY <2>2 DEF SaveOrder
    <3> QED
      BY <3>1, SetTop, NoCallFields DEF TypeInv
  <2> QED
    BY <2>1, <2>2
<1>5. pc' \in [Handlers -> Commands] /\ pc'[h] \in {"addToBook", "rankOpposite"}
  BY DEF SaveOrder, Sends, TypeInv, TypeOK, Commands
<1>6. TypeOK'
  BY <1>3, <1>4, <1>5 DEF SaveOrder, TypeInv, TypeOK
<1>7. PricesOK'
  BY DEF SaveOrder, TypeInv, PricesOK
<1>8. EventOK(h)' /\ TopOK(h)' /\ ReadOK(h)'
  BY <1>1, <1>4, <1>5 DEF SaveOrder, EventOK, TopOK, ReadOK, Matched, Matching, Changing, Adding
<1>9. OthersKeep(h)
  BY DEF SaveOrder, Sends, OthersKeep, TypeInv, TypeOK
<1> QED
  BY <1>6, <1>7, <1>8, <1>9, FrameStep DEF TypeInv

\* The order that addOrder is about, which is the creator's own.
LEMMA CreatorType ==
  ASSUME TypeInv, NEW h \in Handlers, pc[h] \in Adding
  PROVE  /\ call[h].subject \in Orders /\ placed[call[h].subject] \in OrderType
         /\ placed[call[h].subject].side \in Sides
         /\ Opposite(placed[call[h].subject].side) \in Sides
  BY NoOrderAssumption DEF TypeInv, TypeOK, FrameOK, EventOK, OrderType, Opposite, Sides

\* ZRANGE of the opposite side, to price a MARKET order.
LEMMA TypeInvRankOpposite ==
  ASSUME TypeInv, NEW h \in Handlers, RankOpposite(h)
  PROVE  TypeInv'
<1>1. EventOK(h) /\ TopOK(h) /\ ReadOK(h)
  BY DEF TypeInv, FrameOK
<1> DEFINE side == Opposite(placed[call[h].subject].side)
<1>2. side \in Sides
  BY CreatorType DEF RankOpposite, Adding
<1> HIDE DEF side
<1>3. CASE UNCHANGED call /\ Sends(h, "readLastTrade")
  <2>1. pc' \in [Handlers -> Commands] /\ pc'[h] = "readLastTrade"
    BY <1>3 DEF Sends, TypeInv, TypeOK, Commands
  <2>2. EventOK(h)' /\ TopOK(h)' /\ ReadOK(h)'
    BY <1>1, <1>3, <2>1 DEF RankOpposite, EventOK, TopOK, ReadOK, Matched, Matching, Changing, Adding
  <2> QED
    BY <1>3, <2>1, <2>2, LocalStep DEF RankOpposite, Sends, TypeInv, TypeOK
<1>4. ASSUME NEW o \in Orders, IsTop(side, o), Sends(h, "readOpposite"),
             call' = [call EXCEPT ![h].top = [@ EXCEPT ![side] = Ranked(side, o)]]
      PROVE  TypeInv'
  <2> DEFINE top == [call[h].top EXCEPT ![side] = Ranked(side, o)]
  <2>1. /\ top \in [Sides -> EntryType \cup {NoEntry}]
        /\ top[side] # NoEntry /\ top[side].status = "unread"
        /\ \A t \in Sides \ {side} : top[t] = call[h].top[t]
    BY <1>2, <1>4, RankedTop
  <2>2. call' = [call EXCEPT ![h].top = top]
    BY <1>4
  <2> HIDE DEF top
  <2>3. /\ call' \in [Handlers -> CallType]
        /\ call'[h].event = call[h].event /\ call'[h].subject = call[h].subject
        /\ call'[h].settling = call[h].settling /\ call'[h].top = top
    BY <2>1, <2>2, SetTop DEF TypeInv
  <2>4. pc' \in [Handlers -> Commands] /\ pc'[h] = "readOpposite"
    BY <1>4 DEF Sends, TypeInv, TypeOK, Commands
  <2>5. EventOK(h)' /\ TopOK(h)' /\ ReadOK(h)'
    BY <1>1, <2>1, <2>3, <2>4 DEF RankOpposite, EventOK, TopOK, ReadOK, Matched, Matching,
      Changing, Adding, side
  <2> QED
    BY <1>4, <2>2, <2>3, <2>4, <2>5, LocalStep DEF RankOpposite, Sends, TypeInv, TypeOK
<1> QED
  BY <1>3, <1>4 DEF RankOpposite, side

\* HGETALL of the opposite top, to price a MARKET order.
LEMMA TypeInvReadOpposite ==
  ASSUME TypeInv, NEW h \in Handlers, ReadOpposite(h)
  PROVE  TypeInv'
<1>1. EventOK(h) /\ TopOK(h) /\ ReadOK(h)
  BY DEF TypeInv, FrameOK
<1> DEFINE top == call[h].top[Opposite(placed[call[h].subject].side)]
<1>2. CASE order[top.orderId] = NoOrder
  BY <1>2, TypeInvReset DEF ReadOpposite, TypeInv, TypeOK
<1>3. CASE order[top.orderId] # NoOrder
  <2>1. top.price \in Prices
    BY <1>1, CreatorType DEF ReadOpposite, Adding, TopOK, TypeInv, TypeOK, CallType, EntryType
  <2>2. call' = [call EXCEPT ![h].price = top.price, ![h].top = NoCall.top]
        /\ Sends(h, "addToBook")
    BY <1>3 DEF ReadOpposite
  <2> HIDE DEF top
  <2>3. /\ call' \in [Handlers -> CallType]
        /\ call'[h].event = call[h].event /\ call'[h].subject = call[h].subject
        /\ call'[h].settling = call[h].settling
        /\ call'[h].top \in {call[h].top, NoCall.top}
    BY <2>1, <2>2, SetPrice DEF TypeInv
  <2>4. \A s \in Sides : call'[h].top[s] = call[h].top[s] \/ call'[h].top[s].status = "unread"
    BY <2>3, NoCallFields
  <2>5. pc' \in [Handlers -> Commands] /\ pc'[h] = "addToBook"
    BY <2>2 DEF Sends, TypeInv, TypeOK, Commands
  <2>6. EventOK(h)' /\ TopOK(h)' /\ ReadOK(h)'
    BY <1>1, <2>3, <2>4, <2>5 DEF ReadOpposite, EventOK, TopOK, ReadOK, Matched, Matching,
      Changing, Adding
  <2> QED
    BY <2>2, <2>3, <2>5, <2>6, LocalStep DEF ReadOpposite, Sends, TypeInv, TypeOK
<1> QED
  BY <1>2, <1>3

\* getRecentTrades, to price a MARKET order that finds no opposite order.
LEMMA TypeInvReadLastTrade ==
  ASSUME TypeInv, NEW h \in Handlers, ReadLastTrade(h)
  PROVE  TypeInv'
<1>1. EventOK(h) /\ TopOK(h) /\ ReadOK(h)
  BY DEF TypeInv, FrameOK
<1>2. PICK price \in Prices : call' = [call EXCEPT ![h].price = price]
  <2>1. trades # <<>> => Head(trades).price \in Prices
    <3>1. trades \in Seq(TradeType)
      BY DEF TypeInv, TypeOK
    <3>2. trades # <<>> => Head(trades) \in TradeType
      BY <3>1
    <3> QED
      BY <3>2 DEF TradeType
  <2> QED
    BY <2>1, OrderMatchingAssumption DEF ReadLastTrade
<1>3. /\ call' \in [Handlers -> CallType]
      /\ call'[h].event = call[h].event /\ call'[h].subject = call[h].subject
      /\ call'[h].settling = call[h].settling
      /\ call'[h].top \in {call[h].top, NoCall.top}
  BY <1>2, SetPrice DEF TypeInv
<1>4. \A s \in Sides : call'[h].top[s] = call[h].top[s] \/ call'[h].top[s].status = "unread"
  BY <1>3, NoCallFields
<1>5. pc' \in [Handlers -> Commands] /\ pc'[h] = "addToBook"
  BY DEF ReadLastTrade, Sends, TypeInv, TypeOK, Commands
<1>6. EventOK(h)' /\ TopOK(h)' /\ ReadOK(h)'
  BY <1>1, <1>3, <1>4, <1>5 DEF ReadLastTrade, EventOK, TopOK, ReadOK, Matched, Matching,
    Changing, Adding
<1> QED
  BY <1>2, <1>3, <1>5, <1>6, LocalStep DEF ReadLastTrade, Sends, TypeInv, TypeOK

\* ZADD of addOrder: the score is a price, negated for a bid.
LEMMA TypeInvAddToBook ==
  ASSUME TypeInv, NEW h \in Handlers, AddToBook(h)
  PROVE  TypeInv'
<1>1. EventOK(h) /\ TopOK(h) /\ ReadOK(h)
  BY DEF TypeInv, FrameOK
<1> DEFINE o == call[h].subject
           side == placed[o].side
<1>2. o \in Orders /\ side \in Sides /\ call[h].price \in Prices
  BY CreatorType DEF AddToBook, Adding, TypeInv, TypeOK, CallType
<1>3. ScoreOf(side, call[h].price) \in Int /\ PriceOf(side, ScoreOf(side, call[h].price)) \in Prices
  BY <1>2 DEF ScoreOf, PriceOf, Prices
<1>4. book' = [book EXCEPT ![side] = [@ EXCEPT ![o] = ScoreOf(side, call[h].price)]]
  BY DEF AddToBook, ZAdd
<1> HIDE DEF o, side
<1>5. /\ book' \in [Sides -> SortedSet(Orders)]
      /\ \A s \in Sides : \A p \in Orders : book'[s][p] =
           IF s = side /\ p = o THEN ScoreOf(side, call[h].price) ELSE book[s][p]
  BY <1>2, <1>3, <1>4 DEF SortedSet, Score, TypeInv, TypeOK
<1>6. pc' \in [Handlers -> Commands] /\ pc'[h] = "respond"
  BY DEF AddToBook, Sends, TypeInv, TypeOK, Commands
<1>7. TypeOK'
  BY <1>2, <1>5, <1>6 DEF AddToBook, TypeInv, TypeOK, o
<1>8. PricesOK'
  <2>1. ASSUME NEW s \in Sides, NEW p \in Members(book'[s])
        PROVE  PriceOf(s, book'[s][p]) \in Prices
    <3>1. p \in Orders
      BY <1>5, <2>1 DEF Members, SortedSet
    <3>2. CASE s = side /\ p = o
      BY <1>3, <1>5, <3>1, <3>2
    <3>3. CASE ~(s = side /\ p = o)
      <4>1. book'[s][p] = book[s][p] /\ p \in Members(book[s])
        BY <1>5, <2>1, <3>1, <3>3 DEF Members, SortedSet, TypeInv, TypeOK
      <4> QED
        BY <4>1 DEF TypeInv, PricesOK
    <3> QED
      BY <3>2, <3>3
  <2> QED
    BY <2>1 DEF AddToBook, TypeInv, PricesOK, PriceOf
<1>9. EventOK(h)' /\ TopOK(h)' /\ ReadOK(h)'
  BY <1>1, <1>6 DEF AddToBook, EventOK, TopOK, ReadOK, Matched, Matching, Changing, Adding
<1>10. OthersKeep(h)
  BY DEF AddToBook, Sends, OthersKeep, TypeInv, TypeOK
<1> QED
  BY <1>7, <1>8, <1>9, <1>10, FrameStep DEF TypeInv

\* Every way a handler ends.
LEMMA TypeInvRespond ==
  ASSUME TypeInv, NEW h \in Handlers, Respond(h) \/ RespondError(h) \/ Fail(h)
  PROVE  TypeInv'
<1>1. EventOK(h)
  BY DEF TypeInv, FrameOK
<1>2. Respond(h) => [event : Answers(h), orderId : {call[h].subject}]
          \subseteq [event : {"orderCreated", "orderFilled", "orderCancelled"}, orderId : Orders]
  BY <1>1 DEF Respond, Answers, EventOK
<1> QED
  BY <1>2, TypeInvReset DEF Respond, RespondError, Fail, Throws, TypeInv, TypeOK

\* An empty Redis and no handler in flight.
LEMMA TypeInvInit == Init => TypeInv
  BY OrderMatchingAssumption, NoScoreAssumption DEF Init, TypeInv, TypeOK, PricesOK, FrameOK,
    EventOK, TopOK, ReadOK, Matched, SortedSet, EmptySortedSet, Score, Members, CallType, NoCall,
    Commands, Matching, Changing, Adding, Sides, OrderType, NoEntry, Crosses, Prices, EntryType,
    IncomingEvents

\* Every step of every handler keeps the invariant.
LEMMA TypeInvStep == TypeInv /\ [Next]_vars => TypeInv'
<1> SUFFICES ASSUME TypeInv, [Next]_vars
             PROVE  TypeInv'
  OBVIOUS
<1>1. CASE UNCHANGED vars
  BY <1>1 DEF vars, redis, TypeInv, TypeOK, PricesOK, FrameOK, EventOK, TopOK, ReadOK, Matched,
    Remaining, MatchQuantity
<1>2. ASSUME NEW h \in Handlers, Request(h)
      PROVE  TypeInv'
  BY <1>2, TypeInvRequestCreate, TypeInvRequestMatch, TypeInvRequestTarget DEF Request
<1>3. ASSUME NEW h \in Handlers, Run(h) \/ Fail(h)
      PROVE  TypeInv'
  BY <1>3, TypeInvRankBids, TypeInvRankAsks, TypeInvRead, TypeInvStoreTrade, TypeInvCheckOpen,
    TypeInvReadForStatus, TypeInvRemoveOrder, TypeInvSave, TypeInvReadForUpdate, TypeInvSaveOrder,
    TypeInvRankOpposite, TypeInvReadOpposite, TypeInvReadLastTrade, TypeInvAddToBook,
    TypeInvRespond DEF Run
<1> QED
  BY <1>1, <1>2, <1>3 DEF Next

\* In every reachable state the local variables of every handler are what the
\* code of its next command relies on, whatever the others do in between.
THEOREM TypeInvAlways == Spec => []TypeInv
<1>1. Init => TypeInv
  BY TypeInvInit
<1>2. TypeInv /\ [Next]_vars => TypeInv'
  BY TypeInvStep
<1> QED
  BY <1>1, <1>2, PTL DEF Spec

\* No interleaving and no failure of handlers makes createOrder, matchTopOrders,
\* cancelOrder or fillOrder store, rank or trade something malformed: a quantity
\* left by a trade is never zero or negative, a score is always a price.
THEOREM TypeCorrect == Spec => []TypeOK
<1>1. TypeInv => TypeOK
  BY DEF TypeInv
<1> QED
  BY <1>1, TypeInvAlways, PTL
=============================================================================
