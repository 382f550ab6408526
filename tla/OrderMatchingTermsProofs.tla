---------------------- MODULE OrderMatchingTermsProofs ----------------------
(***************************************************************************)
(* The third layer: what an order asks for is the same in the Order object *)
(* of createOrder, in its hash, at its place in the book, in every copy of *)
(* it that a handler holds, and in what it trades at.  It needs of LifeOK  *)
(* only StoredOK.                                                          *)
(*                                                                         *)
(* The fourth layer: what the answers to clients imply.  Only a creator    *)
(* brings an order into the book, so it is enough that an order which has  *)
(* been answered as closed has no creator left on its way there.  With it  *)
(* the invariant is complete, and OrderMatching implements OrderLife.      *)
(***************************************************************************)
EXTENDS OrderMatchingLifeProofs, OrderMatchingRefinement

\* What is stored was placed by a client.
LEMMA StoredIsPlaced ==
  ASSUME TypeInv, StoredOK, NEW o \in Orders, order[o] # NoOrder
  PROVE  /\ placed[o] # NoOrder /\ placed[o] \in OrderType /\ order[o] \in OrderType
         /\ order[o].side = placed[o].side
  BY DEF StoredOK, TypeInv, TypeOK

\* The top orders that a handler has ranked are stored.
LEMMA EntryIsStored ==
  ASSUME TypeInv, StoredOK, NEW h \in Handlers, NEW s \in Sides, call[h].top[s] # NoEntry
  PROVE  /\ call[h].top[s].orderId \in Orders /\ order[call[h].top[s].orderId] # NoOrder
         /\ placed[call[h].top[s].orderId] # NoOrder /\ placed[call[h].top[s].orderId] \in OrderType
<1>1. call[h].top[s] \in EntryType
  BY DEF TypeInv, TypeOK, CallType
<1>2. call[h].top[s].orderId \in Orders /\ order[call[h].top[s].orderId] # NoOrder
  BY <1>1 DEF EntryType, StoredOK, HasHash
<1> QED
  BY <1>2, StoredIsPlaced

\* And so is what can be ranked.
LEMMA TopIsStored ==
  ASSUME TypeInv, StoredOK, NEW s \in Sides, NEW o \in Orders, IsTop(s, o)
  PROVE  /\ order[o] # NoOrder /\ placed[o] # NoOrder /\ placed[o] \in OrderType
         /\ order[o].side = s /\ placed[o].side = s
<1>1. o \in Members(book[s])
  BY DEF IsTop, IsFirst, IsLast, Sides
<1>2. order[o] # NoOrder /\ order[o].side = s
  BY <1>1 DEF StoredOK
<1> QED
  BY <1>2, StoredIsPlaced

\* What a handler sets out to write back is stored.
LEMMA CopyIsStored ==
  ASSUME TypeInv, StoredOK, NEW h \in Handlers, pc[h] \in {"removeOrder", "saveStatus", "saveUpdate"}
  PROVE  /\ Target(h) \in Orders /\ order[Target(h)] # NoOrder /\ placed[Target(h)] # NoOrder
         /\ call[h].read \in OrderType /\ call[h].read # NoOrder
         /\ call[h].read.side = placed[Target(h)].side
<1>1. Target(h) \in Orders
  BY TargetType DEF Changing
<1>2. order[Target(h)] # NoOrder /\ call[h].read.side = placed[Target(h)].side
  BY DEF StoredOK, HasHash
<1>3. call[h].read # NoOrder /\ call[h].read \in OrderType
  BY DEF TypeInv, TypeOK, FrameOK, ReadOK, CallType
<1> QED
  BY <1>1, <1>2, <1>3, StoredIsPlaced

\* A step of h leaves the copies that the other handlers hold as good as they were.
LEMMA OthersTerms ==
  ASSUME TypeInv, StoredOK, TermsOK, NEW h \in Handlers, OthersKeep(h),
         NEW g \in Handlers \ {h}
  PROVE  CopyOK(g)' /\ SnapshotOK(g)'
<1>1. /\ CopyOK(g) /\ SnapshotOK(g) /\ EventOK(g)
      /\ pc'[g] = pc[g] /\ call'[g] = call[g] /\ Target(g)' = Target(g)
  BY DEF TermsOK, TypeInv, FrameOK, OthersKeep, Target
<1>2. pc[g] \in {"removeOrder", "saveStatus", "saveUpdate"} => placed'[Target(g)] = placed[Target(g)]
  BY CopyIsStored DEF OthersKeep
<1>3. CopyOK(g)'
  BY <1>1, <1>2 DEF CopyOK
<1>4. \A s \in Sides : call[g].top[s] # NoEntry =>
        placed'[call[g].top[s].orderId] = placed[call[g].top[s].orderId]
  BY EntryIsStored DEF OthersKeep
<1>5. call[g].event = "createOrder" => placed'[call[g].subject] = placed[call[g].subject]
  BY <1>1 DEF EventOK, OthersKeep
<1>6. pc[g] \in Adding => call[g].event = "createOrder"
  BY <1>1 DEF EventOK
<1>7. SnapshotOK(g)'
  BY <1>1, <1>4, <1>5, <1>6 DEF SnapshotOK, Adding
<1> QED
  BY <1>3, <1>7

\* It is enough to look at the handler that takes the step, and at Redis.
LEMMA TermsStep ==
  ASSUME TypeInv, StoredOK, TermsOK, NEW h \in Handlers, OthersKeep(h),
         CopyOK(h)', SnapshotOK(h)', RankedAtLimit', TradedOrdersArePlaced',
         StoredOrdersKeepTheirTerms', TradesHonourLimits'
  PROVE  TermsOK'
<1>1. \A g \in Handlers : CopyOK(g)' /\ SnapshotOK(g)'
  BY OthersTerms
<1> QED
  BY <1>1 DEF TermsOK

\* For the steps that change no key of Redis and place no order.
LEMMA TermsLocalStep ==
  ASSUME TypeInv, StoredOK, TermsOK, NEW h \in Handlers, UNCHANGED <<redis, placed>>,
         \A g \in Handlers \ {h} : pc'[g] = pc[g] /\ call'[g] = call[g],
         CopyOK(h)', SnapshotOK(h)'
  PROVE  TermsOK'
<1>1. OthersKeep(h)
  BY DEF OthersKeep
<1>2. RankedAtLimit' /\ TradedOrdersArePlaced'
  BY DEF TermsOK, RankedAtLimit, TradedOrdersArePlaced, redis
<1>3. StoredOrdersKeepTheirTerms' /\ TradesHonourLimits'
  BY DEF TermsOK, StoredOrdersKeepTheirTerms, TradesHonourLimits, redis
<1> QED
  BY <1>1, <1>2, <1>3, TermsStep

\* A handler that is done, or has failed, holds no copies.
LEMMA TermsReset ==
  ASSUME TypeInv, StoredOK, TermsOK, NEW h \in Handlers, Throws(h), UNCHANGED <<redis, placed>>
  PROVE  TermsOK'
<1>1. call'[h] = NoCall /\ pc'[h] = "idle"
  BY SetNoCall DEF Throws, Sends, TypeInv, TypeOK
<1>2. CopyOK(h)' /\ SnapshotOK(h)'
  BY <1>1, NoCallFields DEF CopyOK, SnapshotOK
<1>3. \A g \in Handlers \ {h} : pc'[g] = pc[g] /\ call'[g] = call[g]
  BY DEF Throws, Sends, TypeInv, TypeOK
<1> QED
  BY <1>1, <1>2, <1>3, TermsLocalStep

\* What can be ranked is on its own side, at its limit.
LEMMA RankedTerms ==
  ASSUME TypeInv, StoredOK, TermsOK, NEW s \in Sides, NEW o \in Orders, IsTop(s, o)
  PROVE  /\ Ranked(s, o).orderId = o /\ placed[o].side = s
         /\ placed[o].orderType = "LIMIT" => Ranked(s, o).price = placed[o].price
         /\ Ranked(s, o).quantity <= placed[o].quantity
<1>1. o \in Members(book[s])
  BY DEF IsTop, IsFirst, IsLast, Sides
<1>3. placed[o] \in OrderType /\ placed[o] # NoOrder
  BY TopIsStored
<1>4. placed[o].side = s
  BY TopIsStored
<1>5. placed[o].orderType = "LIMIT" => Ranked(s, o).price = placed[o].price
  <2> SUFFICES ASSUME placed[o].orderType = "LIMIT"
               PROVE  Ranked(s, o).price = placed[o].price
    OBVIOUS
  <2>1. book[s][o] = ScoreOf(s, placed[o].price)
    BY <1>1 DEF TermsOK, RankedAtLimit
  <2>2. placed[o].price \in Nat
    BY <1>3 DEF TypeInv, PricesOK, Prices
  <2>3. PriceOf(s, book[s][o]) = placed[o].price
    BY <2>1, <2>2 DEF ScoreOf, PriceOf
  <2> QED
    BY <2>3 DEF Ranked
<1>6. Ranked(s, o).orderId = o /\ Ranked(s, o).quantity = 0
  BY DEF Ranked
<1>7. placed[o].quantity \in Nat
  BY <1>3 DEF OrderType, Quantities
<1> QED
  BY <1>4, <1>5, <1>6, <1>7

\* Ranking the book in matchTopOrders.
LEMMA TermsRank ==
  ASSUME TypeInv, StoredOK, TermsOK, NEW h \in Handlers, RankBids(h) \/ RankAsks(h)
  PROVE  TermsOK'
<1>1. UNCHANGED <<redis, placed>>
      /\ \A g \in Handlers \ {h} : pc'[g] = pc[g] /\ call'[g] = call[g]
  BY DEF RankBids, RankAsks, Sends, TypeInv, TypeOK
<1>2. CopyOK(h)'
  BY MatchingKeeps DEF CopyOK
<1>3. SnapshotOK(h)'
  BY <1>1, MatchingKeeps, RankedTerms DEF TermsOK, SnapshotOK
<1> QED
  BY <1>1, <1>2, <1>3, TermsLocalStep

\* Reading the top orders in matchTopOrders: no hash has more than was asked for.
LEMMA TermsRead ==
  ASSUME TypeInv, StoredOK, TermsOK, NEW h \in Handlers, ReadBid(h) \/ ReadAsk(h)
  PROVE  TermsOK'
<1>1. PICK s \in Sides : /\ ReadRanked(h, s)
                         /\ pc[h] = IF s = "BUY" THEN "readBid" ELSE "readAsk"
  BY DEF ReadBid, ReadAsk, Sides
<1> DEFINE stored == order[call[h].top[s].orderId]
           top == [call[h].top EXCEPT ![s].quantity = stored.quantity, ![s].status = stored.status]
<1>2. SnapshotOK(h) /\ TopOK(h) /\ StoredOrdersKeepTheirTerms
  BY DEF TermsOK, TypeInv, FrameOK
<1>3. CASE stored = NoOrder
  BY <1>1, <1>3, TermsReset DEF ReadRanked
<1>4. CASE stored # NoOrder
  <2>1. call[h] \in CallType /\ call[h].top \in [Sides -> EntryType \cup {NoEntry}]
    BY DEF TypeInv, TypeOK, CallType
  <2>2. call[h].top[s] \in EntryType /\ call[h].top[s] # NoEntry
    BY <1>1, <1>2, <2>1 DEF TopOK, Sides
  <2>3. /\ top[s].orderId = call[h].top[s].orderId /\ top[s].price = call[h].top[s].price
        /\ top[s].quantity = stored.quantity
        /\ \A t \in Sides \ {s} : top[t] = call[h].top[t]
    BY <2>1, <2>2 DEF EntryType
  <2>4. stored.quantity <= placed[call[h].top[s].orderId].quantity
    BY <1>2, <1>4, <2>2 DEF StoredOrdersKeepTheirTerms, EntryType
  <2>5. call' = [call EXCEPT ![h].top = top]
    BY <1>1, <1>4 DEF ReadRanked
  <2>6. pc'[h] = IF s = "BUY" /\ top["SELL"] # NoEntry THEN "readAsk" ELSE AfterReads(h, top)
    BY <1>1, <1>4 DEF ReadRanked, Sends, TypeInv, TypeOK
  <2> HIDE DEF top
  <2>7. call'[h].top = top
    BY <2>1, <2>5 DEF TypeInv, TypeOK, CallType
  <2>8. UNCHANGED <<redis, placed>>
        /\ \A g \in Handlers \ {h} : pc'[g] = pc[g] /\ call'[g] = call[g]
    BY <1>1, <1>4 DEF ReadRanked, Sends, TypeInv, TypeOK
  <2>9. CopyOK(h)'
    BY <2>6 DEF CopyOK, AfterReads
  <2>10. pc'[h] \in {"readAsk", "storeTrade", "saveOrder", "respond"}
    BY <2>6 DEF AfterReads
  <2>11. SnapshotOK(h)'
    BY <1>2, <2>2, <2>3, <2>4, <2>7, <2>8, <2>10 DEF SnapshotOK
  <2> QED
    BY <2>8, <2>9, <2>11, TermsLocalStep
<1> QED
  BY <1>3, <1>4

\* storeTrade: the price is between the two that were read, each of which is the
\* limit of its order if it has one.
LEMMA TermsStoreTrade ==
  ASSUME TypeInv, StoredOK, TermsOK, NEW h \in Handlers, StoreTrade(h)
  PROVE  TermsOK'
<1> DEFINE b == call[h].top["BUY"]
           a == call[h].top["SELL"]
           trade == [buyOrderId |-> b.orderId, sellOrderId |-> a.orderId,
                     quantity |-> MatchQuantity(h), price |-> MatchPrice(h)]
<1>1. SnapshotOK(h) /\ Crosses(b, a)
  BY DEF StoreTrade, TermsOK, TypeInv, FrameOK, TopOK
<1>2. /\ trade \in TradeType /\ a.price <= trade.price /\ trade.price <= b.price
      /\ placed[b.orderId] # NoOrder /\ placed[a.orderId] # NoOrder
  <2>1. placed[b.orderId] # NoOrder /\ placed[a.orderId] # NoOrder
    BY <1>1, EntryIsStored DEF Crosses, Sides
  <2> QED
    BY <2>1, MatchArithmetic DEF StoreTrade, TradeType, EntryType, Sides
<1>3. /\ placed[b.orderId].side = "BUY" /\ placed[a.orderId].side = "SELL"
      /\ placed[b.orderId].orderType = "LIMIT" => b.price = placed[b.orderId].price
      /\ placed[a.orderId].orderType = "LIMIT" => a.price = placed[a.orderId].price
  BY <1>1 DEF SnapshotOK, Crosses, Sides
<1>4. \A i \in 1 .. Len(trades') : trades'[i] = trade \/ \E k \in 1 .. Len(trades) : trades'[i] = trades[k]
  <2>1. PICK i \in 0 .. Len(trades) :
          trades' = SubSeq(trades, 1, i) \o <<trade>> \o SubSeq(trades, i + 1, Len(trades))
    BY DEF StoreTrade
  <2>2. trade \in TradeType
    BY <1>2
  <2> HIDE DEF trade
  <2>3. trades \in Seq(TradeType)
    BY DEF TypeInv, TypeOK
  <2> QED
    BY <2>1, <2>2, <2>3, Inserted
<1>5. UNCHANGED <<order, book, placed>>
      /\ \A g \in Handlers \ {h} : pc'[g] = pc[g] /\ call'[g] = call[g]
  BY DEF StoreTrade, Sends, TypeInv, TypeOK
<1>6. trade.buyOrderId = b.orderId /\ trade.sellOrderId = a.orderId
  OBVIOUS
<1> HIDE DEF trade, a, b
<1>7. TradedOrdersArePlaced'
  BY <1>2, <1>4, <1>5, <1>6 DEF TermsOK, TradedOrdersArePlaced
<1>8. TradesHonourLimits'
  <2> SUFFICES ASSUME NEW i \in 1 .. Len(trades')
               PROVE  LET bid == placed[trades'[i].buyOrderId]
                          ask == placed[trades'[i].sellOrderId]
                      IN  /\ bid.side = "BUY"
                          /\ bid.orderType = "LIMIT" => trades'[i].price <= bid.price
                          /\ ask.side = "SELL"
                          /\ ask.orderType = "LIMIT" => trades'[i].price >= ask.price
    BY <1>5 DEF TradesHonourLimits
  <2>1. CASE trades'[i] = trade
    BY <1>2, <1>3, <1>6, <2>1
  <2>2. ASSUME NEW k \in 1 .. Len(trades), trades'[i] = trades[k]
        PROVE  LET bid == placed[trades'[i].buyOrderId]
                   ask == placed[trades'[i].sellOrderId]
               IN  /\ bid.side = "BUY"
                   /\ bid.orderType = "LIMIT" => trades'[i].price <= bid.price
                   /\ ask.side = "SELL"
                   /\ ask.orderType = "LIMIT" => trades'[i].price >= ask.price
    BY <2>2 DEF TermsOK, TradesHonourLimits
  <2> QED
    BY <1>4, <2>1, <2>2
<1>9. RankedAtLimit' /\ StoredOrdersKeepTheirTerms'
  BY <1>5 DEF TermsOK, RankedAtLimit, StoredOrdersKeepTheirTerms
<1>10. CopyOK(h)' /\ SnapshotOK(h)'
  <2>1. pc'[h] \in {"checkOpen", "readForUpdate"} /\ call'[h].top = call[h].top
    BY SetSettling DEF StoreTrade, Sends, Settle, TypeInv, TypeOK, Sides
  <2> QED
    BY <1>1, <1>5, <2>1 DEF CopyOK, SnapshotOK
<1>11. OthersKeep(h)
  BY <1>5 DEF OthersKeep
<1> QED
  BY <1>7, <1>8, <1>9, <1>10, <1>11, TermsStep

\* Going on to the other side of the trade, or to the answer, leaves no copy.
LEMMA ContinueTerms ==
  ASSUME TypeInv, StoredOK, TermsOK, NEW h \in Handlers, pc[h] \in Changing, Continue(h),
         placed' = placed
  PROVE  CopyOK(h)' /\ SnapshotOK(h)' /\ OthersKeep(h)
<1>1. /\ pc'[h] \in {"checkOpen", "readForUpdate", "respond"} /\ call'[h].top = call[h].top
      /\ \A g \in Handlers \ {h} : pc'[g] = pc[g] /\ call'[g] = call[g]
  BY ContinueKeeps
<1> QED
  BY <1>1 DEF CopyOK, TermsOK, SnapshotOK, OthersKeep

\* A step that does no more than that.
LEMMA TermsContinue ==
  ASSUME TypeInv, StoredOK, TermsOK, NEW h \in Handlers, pc[h] \in Changing, Continue(h),
         UNCHANGED <<redis, placed>>
  PROVE  TermsOK'
  BY ContinueTerms, ContinueKeeps, TermsLocalStep

\* The order that a trade is settled for had at least what the trade leaves of it.
LEMMA LeftOfTarget ==
  ASSUME TypeInv, StoredOK, TermsOK, NEW h \in Handlers, pc[h] = "readForUpdate"
  PROVE  /\ Remaining(h, call[h].settling) \in Quantities
         /\ Remaining(h, call[h].settling) <= placed[Target(h)].quantity
<1> DEFINE s == call[h].settling
           left == Remaining(h, s)
<1>1. Matched(h) /\ left > 0 /\ s \in Sides /\ Target(h) = call[h].top[s].orderId
  <2>1. Matched(h) /\ left > 0 /\ (call[h].event \in {"createOrder", "matchTopOrders"} <=> Matched(h))
    BY DEF TypeInv, FrameOK, TopOK, EventOK, Changing
  <2> QED
    BY <2>1 DEF Matched, Target, TypeInv, TypeOK, CallType
<1>2. call[h].top[s] # NoEntry
  BY <1>1 DEF TypeInv, FrameOK, TopOK, Crosses, Sides
<1>3. placed[Target(h)].quantity \in Nat
  BY <1>1, <1>2, EntryIsStored DEF OrderType, Quantities
<1>4. call[h].top[s].quantity <= placed[Target(h)].quantity
  BY <1>1, <1>2 DEF TermsOK, SnapshotOK
<1>5. left \in Nat /\ left < call[h].top[s].quantity /\ call[h].top[s].quantity \in Nat
  BY <1>1, MatchArithmetic DEF EntryType
<1> HIDE DEF s, left
<1>6. left \in Quantities /\ left <= placed[Target(h)].quantity
  BY <1>1, <1>3, <1>4, <1>5 DEF Quantities
<1> QED
  BY <1>6 DEF s, left

\* The reads of setOrderStatus and updateOrder: the copy says what its order says,
\* but for the status, and for the quantity left.
LEMMA TermsReadForChange ==
  ASSUME TypeInv, StoredOK, TermsOK, NEW h \in Handlers, ReadForStatus(h) \/ ReadForUpdate(h)
  PROVE  TermsOK'
<1> DEFINE stored == order[Target(h)]
<1>1. /\ pc[h] \in Changing /\ UNCHANGED <<redis, placed>>
      /\ SnapshotOK(h) /\ StoredOrdersKeepTheirTerms
  BY DEF ReadForStatus, ReadForUpdate, Changing, TermsOK
<1>2. CASE Continue(h)
  BY <1>1, <1>2, TermsContinue
<1>3. CASE stored = NoOrder /\ Sends(h, "respondError") /\ UNCHANGED call
  <2>1. pc'[h] = "respondError" /\ \A g \in Handlers \ {h} : pc'[g] = pc[g] /\ call'[g] = call[g]
    BY <1>3 DEF Sends, TypeInv, TypeOK
  <2> QED
    BY <1>1, <1>3, <2>1, TermsLocalStep DEF CopyOK, SnapshotOK
<1>4. CASE stored # NoOrder
  <2>1. stored \in OrderType /\ Target(h) \in Orders
    BY <1>1, <1>4, TargetType DEF TypeInv, TypeOK
  <2>2. PICK read \in OrderType :
          /\ call' = [call EXCEPT ![h].read = read]
          /\ pc' = [pc EXCEPT ![h] = IF ReadForStatus(h) THEN "removeOrder" ELSE "saveUpdate"]
          /\ read.orderType = stored.orderType /\ read.price = stored.price
          /\ read.quantity = stored.quantity \/ read.quantity <= placed[Target(h)].quantity
    <3>1. CASE ReadForStatus(h)
      <4> DEFINE status == IF call[h].event = "cancelOrder" THEN "CANCELLED" ELSE "FILLED"
                 read == [stored EXCEPT !.status = status]
      <4>1. /\ read \in OrderType /\ read.quantity = stored.quantity
            /\ read.orderType = stored.orderType /\ read.price = stored.price
        BY <2>1 DEF OrderType, TradeStatuses
      <4>2. call' = [call EXCEPT ![h].read = read] /\ pc' = [pc EXCEPT ![h] = "removeOrder"]
        BY <1>4, <3>1 DEF ReadForStatus, LeavesBook, Sends
      <4> HIDE DEF read
      <4> QED
        BY <3>1, <4>1, <4>2
    <3>2. CASE ReadForUpdate(h)
      <4> DEFINE left == Remaining(h, call[h].settling)
                 read == [stored EXCEPT !.quantity = left]
      <4>1. left \in Quantities /\ left <= placed[Target(h)].quantity
        BY <3>2, LeftOfTarget DEF ReadForUpdate
      <4>2. call' = [call EXCEPT ![h].read = read] /\ pc' = [pc EXCEPT ![h] = "saveUpdate"]
        BY <1>4, <3>2 DEF ReadForUpdate, Sends
      <4> HIDE DEF left
      <4>3. /\ read \in OrderType /\ read.quantity = left
            /\ read.orderType = stored.orderType /\ read.price = stored.price
        BY <2>1, <4>1 DEF OrderType
      <4>4. ~ReadForStatus(h)
        BY <3>2 DEF ReadForStatus, ReadForUpdate
      <4> HIDE DEF read
      <4> QED
        BY <4>1, <4>2, <4>3, <4>4
    <3> QED
      BY <3>1, <3>2
  <2>3. /\ call'[h].event = call[h].event /\ call'[h].subject = call[h].subject
        /\ call'[h].settling = call[h].settling /\ call'[h].top = call[h].top
        /\ call'[h].read = read
    BY <2>2, SetRead DEF TypeInv
  <2>4. pc'[h] \in {"removeOrder", "saveUpdate"}
        /\ \A g \in Handlers \ {h} : pc'[g] = pc[g] /\ call'[g] = call[g]
    BY <2>2 DEF TypeInv, TypeOK
  <2>5. /\ stored.orderType = placed[Target(h)].orderType
        /\ stored.price = placed[Target(h)].price
        /\ stored.quantity <= placed[Target(h)].quantity
    BY <1>1, <1>4, <2>1 DEF StoredOrdersKeepTheirTerms
  <2>6. Target(h)' = Target(h)
    BY <2>3 DEF Target
  <2>7. CopyOK(h)'
    BY <1>1, <2>2, <2>3, <2>5, <2>6 DEF CopyOK
  <2>8. SnapshotOK(h)'
    BY <1>1, <2>3, <2>4 DEF SnapshotOK
  <2> QED
    BY <1>1, <2>4, <2>7, <2>8, TermsLocalStep
<1> QED
  BY <1>2, <1>3, <1>4 DEF ReadForStatus, ReadForUpdate

\* fillOrder's check of the status reads no copy.
LEMMA TermsCheckOpen ==
  ASSUME TypeInv, StoredOK, TermsOK, NEW h \in Handlers, CheckOpen(h)
  PROVE  TermsOK'
<1>1. pc[h] \in Changing /\ UNCHANGED <<redis, placed>> /\ SnapshotOK(h)
  BY DEF CheckOpen, Changing, TermsOK
<1>2. CASE Continue(h)
  BY <1>1, <1>2, TermsContinue
<1>3. CASE UNCHANGED call /\ (Sends(h, "readForStatus") \/ Sends(h, "respondError"))
  <2>1. pc'[h] \in {"readForStatus", "respondError"}
        /\ \A g \in Handlers \ {h} : pc'[g] = pc[g] /\ call'[g] = call[g]
    BY <1>3 DEF Sends, TypeInv, TypeOK
  <2> QED
    BY <1>1, <1>3, <2>1, TermsLocalStep DEF CopyOK, SnapshotOK
<1> QED
  BY <1>2, <1>3 DEF CheckOpen

\* ZREM of setOrderStatus keeps the scores of the others.
LEMMA TermsRemoveOrder ==
  ASSUME TypeInv, StoredOK, TermsOK, NEW h \in Handlers, RemoveOrder(h)
  PROVE  TermsOK'
<1>1. CopyOK(h) /\ SnapshotOK(h)
  BY DEF TermsOK
<1>2. /\ UNCHANGED <<order, trades, placed, call>> /\ pc[h] = "removeOrder" /\ pc'[h] = "saveStatus"
      /\ \A g \in Handlers \ {h} : pc'[g] = pc[g] /\ call'[g] = call[g]
  BY DEF RemoveOrder, Sends, TypeInv, TypeOK
<1>3. \A s \in Sides : \A o \in Members(book'[s]) : o \in Members(book[s]) /\ book'[s][o] = book[s][o]
  <2>1. call[h].read.side \in Sides
    BY <1>2 DEF TypeInv, TypeOK, FrameOK, ReadOK, CallType, OrderType
  <2> QED
    BY <2>1 DEF RemoveOrder, ZRem, SortedSet, Score, Members, TypeInv, TypeOK
<1>4. RankedAtLimit'
  BY <1>2, <1>3 DEF TermsOK, RankedAtLimit, ScoreOf
<1>5. TradedOrdersArePlaced' /\ StoredOrdersKeepTheirTerms' /\ TradesHonourLimits'
  BY <1>2 DEF TermsOK, TradedOrdersArePlaced, StoredOrdersKeepTheirTerms, TradesHonourLimits
<1>6. Target(h)' = Target(h)
  BY <1>2 DEF Target
<1>7. CopyOK(h)' /\ SnapshotOK(h)'
  BY <1>1, <1>2, <1>6 DEF CopyOK, SnapshotOK
<1>8. OthersKeep(h)
  BY <1>2 DEF OthersKeep
<1> QED
  BY <1>4, <1>5, <1>7, <1>8, TermsStep

\* Writing an order back whole: an old copy says the same as a new one.
LEMMA TermsSave ==
  ASSUME TypeInv, StoredOK, TermsOK, NEW h \in Handlers, SaveStatus(h) \/ SaveUpdate(h)
  PROVE  TermsOK'
<1> DEFINE o == Target(h)
           read == call[h].read
<1>1. /\ pc[h] \in {"saveStatus", "saveUpdate"} /\ Continue(h)
      /\ UNCHANGED <<book, trades, placed>> /\ order' = [order EXCEPT ![o] = read]
  BY DEF SaveStatus, SaveUpdate
<1>2. /\ o \in Orders /\ placed[o] # NoOrder
      /\ read.side = placed[o].side /\ read.orderType = placed[o].orderType
      /\ read.price = placed[o].price /\ read.quantity <= placed[o].quantity
  BY <1>1, CopyIsStored DEF TermsOK, CopyOK
<1> HIDE DEF o, read
<1>3. order'[o] = read /\ \A p \in Orders \ {o} : order'[p] = order[p]
  BY <1>1, <1>2 DEF TypeInv, TypeOK
<1>4. StoredOrdersKeepTheirTerms'
  <2> SUFFICES ASSUME NEW p \in Orders, order'[p] # NoOrder
               PROVE  /\ placed[p] # NoOrder
                      /\ order'[p].side = placed[p].side
                      /\ order'[p].orderType = placed[p].orderType
                      /\ order'[p].price = placed[p].price
                      /\ order'[p].quantity <= placed[p].quantity
    BY <1>1 DEF StoredOrdersKeepTheirTerms
  <2>1. CASE p = o
    BY <1>2, <1>3, <2>1
  <2>2. CASE p # o
    BY <1>3, <2>2 DEF TermsOK, StoredOrdersKeepTheirTerms
  <2> QED
    BY <2>1, <2>2
<1>5. RankedAtLimit' /\ TradedOrdersArePlaced' /\ TradesHonourLimits'
  BY <1>1 DEF TermsOK, RankedAtLimit, TradedOrdersArePlaced, TradesHonourLimits
<1>6. CopyOK(h)' /\ SnapshotOK(h)' /\ OthersKeep(h)
  BY <1>1, ContinueTerms DEF Changing
<1> QED
  BY <1>4, <1>5, <1>6, TermsStep

\* HSET of addOrder: the Order object as it was built.
LEMMA TermsSaveOrder ==
  ASSUME TypeInv, StoredOK, TermsOK, NEW h \in Handlers, SaveOrder(h)
  PROVE  TermsOK'
<1> DEFINE o == call[h].subject
<1>1. SnapshotOK(h) /\ call[h] \in CallType
  BY DEF TermsOK, TypeInv, TypeOK
<1>2. o \in Orders /\ placed[o] \in OrderType /\ placed[o] # NoOrder
  BY CreatorType, NoOrderAssumption DEF SaveOrder, Adding
<1>3. /\ UNCHANGED <<book, trades, placed>> /\ order' = [order EXCEPT ![o] = placed[o]]
      /\ \A g \in Handlers \ {h} : pc'[g] = pc[g] /\ call'[g] = call[g]
      /\ pc'[h] = IF placed[o].orderType = "LIMIT" THEN "addToBook" ELSE "rankOpposite"
  BY DEF SaveOrder, Sends, TypeInv, TypeOK
<1>4. /\ call'[h].subject = o
      /\ placed[o].orderType = "LIMIT" => call'[h].price = placed[o].price /\ call'[h].top = call[h].top
      /\ placed[o].orderType # "LIMIT" => call'[h].top = NoCall.top
  BY <1>1 DEF SaveOrder, TypeInv, TypeOK, CallType
<1>5. placed[o].orderType \in {"LIMIT", "MARKET"} /\ placed[o].quantity \in Nat
  BY <1>2 DEF OrderType, OrderTypes, Quantities
<1> HIDE DEF o
<1>6. order'[o] = placed[o] /\ \A p \in Orders \ {o} : order'[p] = order[p]
  BY <1>2, <1>3 DEF TypeInv, TypeOK
<1>7. StoredOrdersKeepTheirTerms'
  <2> SUFFICES ASSUME NEW p \in Orders, order'[p] # NoOrder
               PROVE  /\ placed[p] # NoOrder
                      /\ order'[p].side = placed[p].side
                      /\ order'[p].orderType = placed[p].orderType
                      /\ order'[p].price = placed[p].price
                      /\ order'[p].quantity <= placed[p].quantity
    BY <1>3 DEF StoredOrdersKeepTheirTerms
  <2>1. CASE p = o
    BY <1>2, <1>5, <1>6, <2>1
  <2>2. CASE p # o
    BY <1>6, <2>2 DEF TermsOK, StoredOrdersKeepTheirTerms
  <2> QED
    BY <2>1, <2>2
<1>8. RankedAtLimit' /\ TradedOrdersArePlaced' /\ TradesHonourLimits'
  BY <1>3 DEF TermsOK, RankedAtLimit, TradedOrdersArePlaced, TradesHonourLimits
<1>9. CopyOK(h)'
  BY <1>3 DEF CopyOK
<1>10. SnapshotOK(h)'
  <2>1. CASE placed[o].orderType = "LIMIT"
    BY <1>1, <1>3, <1>4, <2>1 DEF SnapshotOK
  <2>2. CASE placed[o].orderType = "MARKET"
    BY <1>1, <1>3, <1>4, <2>2, NoCallFields DEF SnapshotOK
  <2> QED
    BY <1>5, <2>1, <2>2
<1>11. OthersKeep(h)
  BY <1>3 DEF OthersKeep
<1> QED
  BY <1>7, <1>8, <1>9, <1>10, <1>11, TermsStep

\* Finding a price for a resting MARKET order, which has no limit to keep to.
LEMMA TermsPrice ==
  ASSUME TypeInv, StoredOK, TermsOK, NEW h \in Handlers,
         RankOpposite(h) \/ ReadOpposite(h) \/ ReadLastTrade(h)
  PROVE  TermsOK'
<1>1. /\ SnapshotOK(h) /\ call[h] \in CallType /\ UNCHANGED <<redis, placed>>
      /\ placed[call[h].subject].orderType = "MARKET"
  BY DEF TermsOK, TypeInv, TypeOK, SnapshotOK, RankOpposite, ReadOpposite, ReadLastTrade
<1>2. CASE Throws(h)
  BY <1>1, <1>2, TermsReset
<1>3. CASE /\ call'[h].subject = call[h].subject
           /\ \A s \in Sides : \/ call'[h].top[s] \in {call[h].top[s], NoEntry}
                               \/ \E o \in Orders : IsTop(s, o) /\ call'[h].top[s] = Ranked(s, o)
           /\ pc'[h] \in {"readOpposite", "readLastTrade", "addToBook"}
           /\ \A g \in Handlers \ {h} : pc'[g] = pc[g] /\ call'[g] = call[g]
  <2>1. CopyOK(h)'
    BY <1>3 DEF CopyOK
  <2>2. SnapshotOK(h)'
    BY <1>1, <1>3, RankedTerms DEF SnapshotOK
  <2> QED
    BY <1>1, <1>3, <2>1, <2>2, TermsLocalStep
<1>4. CASE RankOpposite(h)
  <2> DEFINE side == Opposite(placed[call[h].subject].side)
  <2>1. side \in Sides
    BY <1>4, CreatorType DEF RankOpposite, Adding
  <2> HIDE DEF side
  <2>2. CASE UNCHANGED call /\ Sends(h, "readLastTrade")
    BY <1>3, <2>2 DEF Sends, TypeInv, TypeOK
  <2>3. ASSUME NEW o \in Orders, IsTop(side, o), Sends(h, "readOpposite"),
               call' = [call EXCEPT ![h].top = [@ EXCEPT ![side] = Ranked(side, o)]]
        PROVE  TermsOK'
    <3> DEFINE top == [call[h].top EXCEPT ![side] = Ranked(side, o)]
    <3>1. /\ top \in [Sides -> EntryType \cup {NoEntry}]
          /\ top[side] = Ranked(side, o)
          /\ \A t \in Sides \ {side} : top[t] = call[h].top[t]
      BY <2>1, <2>3, RankedTop
    <3>2. call' = [call EXCEPT ![h].top = top]
      BY <2>3
    <3> HIDE DEF top
    <3>3. call'[h].subject = call[h].subject /\ call'[h].top = top
      BY <3>1, <3>2, SetTop DEF TypeInv
    <3> QED
      BY <1>3, <2>3, <3>1, <3>2, <3>3 DEF Sends, TypeInv, TypeOK
  <2> QED
    BY <1>4, <2>2, <2>3 DEF RankOpposite, side
<1>5. CASE ReadOpposite(h) /\ ~Throws(h)
  <2>1. PICK price : call' = [call EXCEPT ![h].price = price, ![h].top = NoCall.top]
                     /\ Sends(h, "addToBook")
    BY <1>5 DEF ReadOpposite
  <2>2. call'[h].subject = call[h].subject /\ call'[h].top = NoCall.top
    BY <1>1, <2>1 DEF TypeInv, TypeOK, CallType
  <2> QED
    BY <1>3, <2>1, <2>2, NoCallFields DEF Sends, TypeInv, TypeOK
<1>6. CASE ReadLastTrade(h)
  <2>1. PICK price : call' = [call EXCEPT ![h].price = price]
    BY <1>6 DEF ReadLastTrade
  <2>2. call'[h].subject = call[h].subject /\ call'[h].top = call[h].top
    BY <1>1, <2>1 DEF TypeInv, TypeOK, CallType
  <2> QED
    BY <1>3, <1>6, <2>1, <2>2 DEF ReadLastTrade, Sends, TypeInv, TypeOK
<1> QED
  BY <1>2, <1>4, <1>5, <1>6

\* ZADD of addOrder: a LIMIT order goes in at its limit.
LEMMA TermsAddToBook ==
  ASSUME TypeInv, StoredOK, TermsOK, NEW h \in Handlers, AddToBook(h)
  PROVE  TermsOK'
<1> DEFINE o == call[h].subject
           side == placed[o].side
           score == ScoreOf(side, call[h].price)
<1>1. /\ SnapshotOK(h) /\ pc[h] = "addToBook"
      /\ UNCHANGED <<order, trades, placed, call>> /\ pc'[h] = "respond"
      /\ \A g \in Handlers \ {h} : pc'[g] = pc[g] /\ call'[g] = call[g]
  BY DEF AddToBook, TermsOK, Sends, TypeInv, TypeOK
<1>2. o \in Orders /\ side \in Sides
  BY <1>1, CreatorType DEF Adding
<1>3. placed[o].orderType = "LIMIT" => score = ScoreOf(side, placed[o].price)
  BY <1>1 DEF SnapshotOK
<1>4. book' = [book EXCEPT ![side] = [@ EXCEPT ![o] = score]]
  BY DEF AddToBook, ZAdd
<1>5. side = placed[o].side
  OBVIOUS
<1> HIDE DEF o, side, score
<1>6. \A s \in Sides : \A p \in Members(book'[s]) :
        (s = side /\ p = o /\ book'[s][p] = score) \/ (p \in Members(book[s]) /\ book'[s][p] = book[s][p])
  BY <1>2, <1>4 DEF Members, SortedSet, TypeInv, TypeOK
<1>7. RankedAtLimit'
  <2> SUFFICES ASSUME NEW s \in Sides, NEW p \in Members(book'[s]), placed[p].orderType = "LIMIT"
               PROVE  book'[s][p] = ScoreOf(s, placed[p].price)
    BY <1>1 DEF RankedAtLimit, ScoreOf
  <2>1. CASE p \in Members(book[s]) /\ book'[s][p] = book[s][p]
    BY <2>1 DEF TermsOK, RankedAtLimit
  <2>2. CASE s = side /\ p = o /\ book'[s][p] = score
    BY <1>3, <2>2
  <2> QED
    BY <1>6, <2>1, <2>2
<1>8. TradedOrdersArePlaced' /\ StoredOrdersKeepTheirTerms' /\ TradesHonourLimits'
  BY <1>1 DEF TermsOK, TradedOrdersArePlaced, StoredOrdersKeepTheirTerms, TradesHonourLimits
<1>9. CopyOK(h)' /\ SnapshotOK(h)'
  BY <1>1 DEF CopyOK, SnapshotOK
<1>10. OthersKeep(h)
  BY <1>1 DEF OthersKeep
<1> QED
  BY <1>7, <1>8, <1>9, <1>10, TermsStep

\* A fresh Order object, which nothing stored or traded refers to.
LEMMA TermsRequestCreate ==
  ASSUME TypeInv, StoredOK, TermsOK, NEW h \in Handlers, NEW o \in Orders, NEW r \in Requests,
         RequestCreate(h, o, r)
  PROVE  TermsOK'
<1>1. call[h] = NoCall /\ TypeOK
  BY DEF RequestCreate, TypeInv, FrameOK, EventOK
<1>2. /\ pc'[h] \in {"saveOrder", "rankBids"} /\ call'[h].top = NoCall.top
      /\ UNCHANGED <<order, book, trades>>
      /\ \A g \in Handlers \ {h} : pc'[g] = pc[g] /\ call'[g] = call[g]
  BY <1>1, SetRequest DEF RequestCreate, Sends, TypeOK, redis, IncomingEvents
<1>3. \A p \in Orders : placed[p] # NoOrder => placed'[p] = placed[p]
  BY DEF RequestCreate, TypeInv, TypeOK
<1>4. CopyOK(h)' /\ SnapshotOK(h)'
  BY <1>2, NoCallFields DEF CopyOK, SnapshotOK
<1>5. RankedAtLimit'
  <2> SUFFICES ASSUME NEW s \in Sides, NEW p \in Members(book[s]), placed'[p].orderType = "LIMIT"
               PROVE  book[s][p] = ScoreOf(s, placed'[p].price)
    BY <1>2 DEF RankedAtLimit, ScoreOf
  <2>1. p \in Orders /\ order[p] # NoOrder
    BY DEF StoredOK, Members, SortedSet, TypeInv, TypeOK
  <2> QED
    BY <1>3, <2>1, StoredIsPlaced DEF TermsOK, RankedAtLimit
<1>6. \A i \in 1 .. Len(trades) :
        /\ placed[trades[i].buyOrderId] # NoOrder
        /\ placed'[trades[i].buyOrderId] = placed[trades[i].buyOrderId]
        /\ placed[trades[i].sellOrderId] # NoOrder
        /\ placed'[trades[i].sellOrderId] = placed[trades[i].sellOrderId]
  <2> SUFFICES ASSUME NEW i \in 1 .. Len(trades)
               PROVE  trades[i].buyOrderId \in Orders /\ trades[i].sellOrderId \in Orders
    BY <1>3 DEF TermsOK, TradedOrdersArePlaced
  <2>1. trades \in Seq(TradeType)
    BY <1>1 DEF TypeOK
  <2>2. trades[i] \in TradeType
    BY <2>1
  <2> QED
    BY <2>2 DEF TradeType
<1>7. TradedOrdersArePlaced' /\ TradesHonourLimits'
  BY <1>2, <1>6 DEF TermsOK, TradedOrdersArePlaced, TradesHonourLimits
<1>8. StoredOrdersKeepTheirTerms'
  BY <1>2, <1>3 DEF TermsOK, StoredOrdersKeepTheirTerms
<1>9. OthersKeep(h)
  BY <1>2, <1>3 DEF OthersKeep
<1> QED
  BY <1>4, <1>5, <1>7, <1>8, <1>9, TermsStep

\* The events about orders that are there already.
LEMMA TermsRequestTarget ==
  ASSUME TypeInv, StoredOK, TermsOK, NEW h \in Handlers,
         RequestMatch(h) \/ \E o \in Orders : RequestCancel(h, o) \/ RequestFill(h, o)
  PROVE  TermsOK'
<1>1. call[h] = NoCall /\ call[h] \in CallType
  BY DEF RequestMatch, RequestCancel, RequestFill, TypeInv, TypeOK, FrameOK, EventOK
<1>2. call'[h].top = NoCall.top /\ pc'[h] \in {"rankBids", "readForStatus", "checkOpen"}
  BY <1>1 DEF RequestMatch, RequestCancel, RequestFill, Sends, TypeInv, TypeOK, CallType
<1>3. UNCHANGED <<redis, placed>>
      /\ \A g \in Handlers \ {h} : pc'[g] = pc[g] /\ call'[g] = call[g]
  BY DEF RequestMatch, RequestCancel, RequestFill, Sends, TypeInv, TypeOK
<1>4. CopyOK(h)' /\ SnapshotOK(h)'
  BY <1>2, NoCallFields DEF CopyOK, SnapshotOK
<1> QED
  BY <1>3, <1>4, TermsLocalStep

\* An empty Redis and no handler in flight.
LEMMA TermsInit == Init => TermsOK
<1> SUFFICES ASSUME Init
             PROVE  TermsOK
  OBVIOUS
<1>1. \A h \in Handlers : call[h] = NoCall /\ pc[h] = "idle"
  BY DEF Init
<1>2. \A h \in Handlers : CopyOK(h) /\ SnapshotOK(h)
  BY <1>1, NoCallFields DEF CopyOK, SnapshotOK
<1>3. \A s \in Sides : Members(book[s]) = {}
  BY DEF Init, Members, EmptySortedSet
<1>4. Len(trades) = 0
  BY DEF Init
<1> QED
  BY <1>2, <1>3, <1>4 DEF Init, TermsOK, RankedAtLimit, TradedOrdersArePlaced,
    StoredOrdersKeepTheirTerms, TradesHonourLimits

\* Every step of every handler keeps the invariant.
LEMMA TermsNext == TypeInv /\ StoredOK /\ TermsOK /\ [Next]_vars => TermsOK'
<1> SUFFICES ASSUME TypeInv, StoredOK, TermsOK, [Next]_vars
             PROVE  TermsOK'
  OBVIOUS
<1>1. CASE UNCHANGED vars
  BY <1>1 DEF vars, redis, TermsOK, CopyOK, Target, SnapshotOK, RankedAtLimit,
    TradedOrdersArePlaced, StoredOrdersKeepTheirTerms, TradesHonourLimits
<1>2. ASSUME NEW h \in Handlers, Request(h)
      PROVE  TermsOK'
  BY <1>2, TermsRequestCreate, TermsRequestTarget DEF Request
<1>3. ASSUME NEW h \in Handlers, Run(h) \/ Fail(h)
      PROVE  TermsOK'
  <2>1. CASE Respond(h) \/ RespondError(h) \/ Fail(h)
    BY <2>1, TermsReset DEF Respond, RespondError, Fail, Throws
  <2> QED
    BY <1>3, <2>1, TermsRank, TermsRead, TermsStoreTrade, TermsCheckOpen, TermsReadForChange,
      TermsRemoveOrder, TermsSave, TermsSaveOrder, TermsPrice, TermsAddToBook DEF Run
<1> QED
  BY <1>1, <1>2, <1>3 DEF Next

\* Life is more than being stored: what is listed has a hash.
LEMMA LifeIsStored == TypeInv /\ LifeOK => StoredOK
<1> SUFFICES ASSUME TypeInv, LifeOK
             PROVE  StoredOK
  OBVIOUS
<1>1. OrdersOK /\ BookedOrdersAreOpen
  BY DEF LifeOK
<1>2. ASSUME NEW h \in Handlers
      PROVE  HasHash(h)
  <2>1. CreatorOK(h) /\ TargetOK(h) /\ EventOK(h) /\ listed \subseteq Orders
    BY DEF LifeOK, TypeInv, TypeOK, FrameOK
  <2>2. pc[h] \in Adding \ {"saveOrder"} => order[call[h].subject] # NoOrder
    BY <2>1 DEF CreatorOK, EventOK, Creates
  <2> QED
    BY <1>1, <2>1, <2>2 DEF HasHash, TargetOK, OrdersOK
<1> QED
  BY <1>1, <1>2 DEF StoredOK, OrdersOK, BookedOrdersAreOpen

\* In every reachable state every copy of an order agrees with what its client
\* asked createOrder for, however old it is and whichever handler holds it.
THEOREM TermsAlways == Spec => [](TypeInv /\ LifeOK /\ TermsOK)
<1>1. Init => TypeInv /\ LifeOK /\ TermsOK
  BY TypeInvInit, LifeInit, TermsInit
<1>2. (TypeInv /\ LifeOK /\ TermsOK) /\ [Next]_vars => (TypeInv /\ LifeOK /\ TermsOK)'
  BY TypeInvStep, LifeNext, TermsNext, LifeIsStored
<1> QED
  BY <1>1, <1>2, PTL DEF Spec

\* setOrderStatus and updateOrder, which write whole hashes back from copies that
\* may be old, never change what was asked for nor raise the quantity above it.
THEOREM TermsKept == Spec => []StoredOrdersKeepTheirTerms
<1>1. TypeInv /\ LifeOK /\ TermsOK => StoredOrdersKeepTheirTerms
  BY DEF TermsOK
<1> QED
  BY <1>1, TermsAlways, PTL

\* matchTopOrders never trades a LIMIT order at a price worse than its limit, for
\* any number of handlers, orders and prices.
THEOREM LimitsHonoured == Spec => []TradesHonourLimits
<1>1. TypeInv /\ LifeOK /\ TermsOK => TradesHonourLimits
  BY DEF TermsOK
<1> QED
  BY <1>1, TermsAlways, PTL
-----------------------------------------------------------------------------
(* Answers.                                                                 *)

\* An order that others can name was placed by a client.
LEMMA ListedIsPlaced ==
  ASSUME TypeInv, LifeOK, NEW o \in listed
  PROVE  /\ o \in Orders /\ placed[o] # NoOrder /\ placed[o] \in OrderType
         /\ order[o] # NoOrder /\ order[o] \in OrderType
<1>1. o \in Orders /\ order[o] # NoOrder /\ placed[o] # NoOrder
  BY DEF LifeOK, OrdersOK, TypeInv, TypeOK
<1> QED
  BY <1>1 DEF TypeInv, TypeOK

\* No step gives a handler another order to create, except the event itself, and
\* that takes an id nothing is known of.
LEMMA CreatesOnce ==
  ASSUME TypeInv, LifeOK, [Next]_vars, NEW g \in Handlers, NEW o \in Orders,
         Creates(g, o)', placed[o] # NoOrder
  PROVE  Creates(g, o)
<1>1. call[g] \in CallType /\ NoCall.event # "createOrder"
  BY NoCallFields DEF TypeInv, TypeOK
<1>2. CASE UNCHANGED vars
  BY <1>2 DEF vars, Creates
<1>3. ASSUME NEW h \in Handlers, Request(h)
      PROVE  Creates(g, o)
  <2>1. CASE g # h
    BY <1>3, <2>1 DEF Request, RequestCreate, RequestMatch, RequestCancel, RequestFill, Creates,
      TypeInv, TypeOK
  <2>2. ASSUME NEW p \in Orders, NEW r \in Requests, RequestCreate(h, p, r), g = h
        PROVE  FALSE
    <3>1. call'[h].subject = p
      BY <1>1, <2>2 DEF RequestCreate, TypeInv, TypeOK, CallType
    <3> QED
      BY <2>2, <3>1 DEF RequestCreate, Creates
  <2>3. CASE g = h /\ (RequestMatch(h) \/ \E p \in Orders : RequestCancel(h, p) \/ RequestFill(h, p))
    BY <1>1, <2>3 DEF RequestMatch, RequestCancel, RequestFill, Creates, TypeInv, TypeOK, CallType
  <2> QED
    BY <1>3, <2>1, <2>2, <2>3 DEF Request
<1>4. ASSUME NEW h \in Handlers, Throws(h)
      PROVE  Creates(g, o)
  BY <1>1, <1>4 DEF Throws, Creates, TypeInv, TypeOK
<1>5. ASSUME NEW h \in Handlers, Continue(h)
      PROVE  Creates(g, o)
  BY <1>1, <1>5, ContinueKeeps DEF Creates
<1>6. ASSUME NEW h \in Handlers, RankBids(h) \/ RankAsks(h)
      PROVE  Creates(g, o)
  BY <1>1, <1>6, MatchingKeeps DEF RankBids, RankAsks, Creates, TypeInv, TypeOK
<1>7. ASSUME NEW h \in Handlers, UNCHANGED call
      PROVE  Creates(g, o)
  BY <1>7 DEF Creates
<1>8. ASSUME NEW h \in Handlers, NEW x,
             \/ call' = [call EXCEPT ![h].top = x]
             \/ call' = [call EXCEPT ![h].read = x]
             \/ call' = [call EXCEPT ![h].price = x]
             \/ call' = [call EXCEPT ![h].settling = x]
             \/ call' = [call EXCEPT ![h].price = x, ![h].top = NoCall.top]
      PROVE  Creates(g, o)
  <2>1. call'[g].event = call[g].event /\ call'[g].subject = call[g].subject
    <3>1. CASE g # h
      BY <1>8, <3>1 DEF TypeInv, TypeOK
    <3>2. CASE g = h
      BY <1>1, <1>8, <3>2 DEF TypeInv, TypeOK, CallType
    <3> QED
      BY <3>1, <3>2
  <2> QED
    BY <2>1 DEF Creates
<1>9. ASSUME NEW h \in Handlers, Run(h) \/ Fail(h)
      PROVE  Creates(g, o)
  <2>1. CASE ReadBid(h) \/ ReadAsk(h) \/ RankOpposite(h) \/ ReadOpposite(h) \/ ReadLastTrade(h)
    BY <1>4, <1>7, <1>8, <2>1 DEF ReadBid, ReadAsk, ReadRanked, RankOpposite, ReadOpposite, ReadLastTrade
  <2>2. CASE StoreTrade(h) \/ CheckOpen(h) \/ ReadForStatus(h) \/ ReadForUpdate(h) \/ SaveOrder(h)
    BY <1>5, <1>7, <1>8, <2>2 DEF StoreTrade, CheckOpen, ReadForStatus, ReadForUpdate, SaveOrder
  <2>3. CASE RemoveOrder(h) \/ SaveStatus(h) \/ SaveUpdate(h) \/ AddToBook(h)
    BY <1>5, <1>7, <2>3 DEF RemoveOrder, SaveStatus, SaveUpdate, AddToBook
  <2>4. CASE Respond(h) \/ RespondError(h) \/ Fail(h)
    BY <1>4, <2>4 DEF Respond, RespondError, Fail, Throws
  <2> QED
    BY <1>6, <1>9, <2>1, <2>2, <2>3, <2>4 DEF Run
<1> QED
  BY <1>2, <1>3, <1>9 DEF Next

\* A step of one handler leaves the locals of the others alone.
LEMMA OthersStay ==
  ASSUME TypeInv, NEW h \in Handlers, Request(h) \/ Run(h) \/ Fail(h), NEW g \in Handlers \ {h}
  PROVE  pc'[g] = pc[g] /\ call'[g] = call[g]
<1> USE DEF Sends, TypeInv, TypeOK
<1>1. CASE Request(h)
  BY <1>1 DEF Request, RequestCreate, RequestMatch, RequestCancel, RequestFill
<1>2. ASSUME Continue(h)
      PROVE  pc'[g] = pc[g] /\ call'[g] = call[g]
  BY <1>2, ContinueKeeps
<1>3. CASE RankBids(h) \/ RankAsks(h) \/ ReadBid(h) \/ ReadAsk(h) \/ StoreTrade(h)
  BY <1>3 DEF RankBids, RankAsks, ReadBid, ReadAsk, ReadRanked, Throws, StoreTrade
<1>4. CASE CheckOpen(h) \/ ReadForStatus(h) \/ SaveStatus(h) \/ ReadForUpdate(h) \/ SaveUpdate(h)
  BY <1>2, <1>4 DEF CheckOpen, ReadForStatus, SaveStatus, ReadForUpdate, SaveUpdate
<1>5. CASE RemoveOrder(h) \/ SaveOrder(h) \/ RankOpposite(h) \/ ReadOpposite(h) \/ ReadLastTrade(h)
  BY <1>5 DEF RemoveOrder, SaveOrder, RankOpposite, ReadOpposite, ReadLastTrade, Throws
<1>6. CASE AddToBook(h) \/ Respond(h) \/ RespondError(h) \/ Fail(h)
  BY <1>6 DEF AddToBook, Respond, RespondError, Fail, Throws
<1> QED
  BY <1>1, <1>3, <1>4, <1>5, <1>6 DEF Run

\* An answer that is due is given or, if the handler fails, never.
LEMMA RespondLast ==
  ASSUME TypeInv, [Next]_vars, NEW g \in Handlers, pc[g] = "respond"
  PROVE  call'[g] = NoCall \/ (pc'[g] = "respond" /\ call'[g] = call[g])
<1>1. CASE UNCHANGED vars
  BY <1>1 DEF vars
<1>2. ASSUME NEW h \in Handlers, Request(h) \/ Run(h) \/ Fail(h)
      PROVE  call'[g] = NoCall \/ (pc'[g] = "respond" /\ call'[g] = call[g])
  <2>1. CASE g # h
    BY <1>2, <2>1, OthersStay
  <2>2. CASE g = h
    <3>1. Respond(g) \/ Fail(g)
      BY <1>2, <2>2 DEF Request, RequestCreate, RequestMatch, RequestCancel, RequestFill, Run,
        RankBids, RankAsks, ReadBid, ReadAsk, StoreTrade, CheckOpen, ReadForStatus, RemoveOrder,
        SaveStatus, ReadForUpdate, SaveUpdate, SaveOrder, RankOpposite, ReadOpposite,
        ReadLastTrade, AddToBook, RespondError
    <3> QED
      BY <3>1 DEF Respond, Fail, Throws, TypeInv, TypeOK
  <2> QED
    BY <2>1, <2>2
<1> QED
  BY <1>1, <1>2 DEF Next

\* Only answers are told, about the order of the request.
LEMMA ToldByAnswer ==
  ASSUME [Next]_vars, NEW a \in told', a \notin told
  PROVE  \E h \in Handlers :
           /\ Respond(h) /\ a.orderId = call[h].subject /\ a.event \in Answers(h)
<1>1. ASSUME NEW h \in Handlers, Respond(h)
      PROVE  a.orderId = call[h].subject /\ a.event \in Answers(h)
  BY <1>1 DEF Respond
<1> QED
  BY <1>1 DEF Next, Request, Run, RequestCreate, RequestMatch, RequestCancel, RequestFill, RankBids,
    RankAsks, ReadBid, ReadAsk, ReadRanked, StoreTrade, CheckOpen, ReadForStatus, RemoveOrder,
    SaveStatus, ReadForUpdate, SaveUpdate, SaveOrder, RankOpposite, ReadOpposite, ReadLastTrade,
    AddToBook, RespondError, Fail, vars

\* No step forgets what has been in the book.
LEMMA ListedGrows == [Next]_vars => listed \subseteq listed'
  BY DEF Next, Request, Run, RequestCreate, RequestMatch, RequestCancel, RequestFill, RankBids,
    RankAsks, ReadBid, ReadAsk, ReadRanked, StoreTrade, CheckOpen, ReadForStatus, RemoveOrder,
    SaveStatus, ReadForUpdate, SaveUpdate, SaveOrder, RankOpposite, ReadOpposite, ReadLastTrade,
    AddToBook, Respond, RespondError, Fail, vars

\* The handlers never change what a client asked for, and never take back an answer.
LEMMA PlacedAndToldStay ==
  ASSUME TypeInv, [Next]_vars
  PROVE  /\ \A o \in Orders : placed[o] # NoOrder => placed'[o] = placed[o]
         /\ told \subseteq told'
<1>1. ASSUME NEW h \in Handlers, NEW o \in Orders, NEW r \in Requests, RequestCreate(h, o, r)
      PROVE  /\ \A p \in Orders : placed[p] # NoOrder => placed'[p] = placed[p]
             /\ told \subseteq told'
  BY <1>1 DEF RequestCreate, TypeInv, TypeOK
<1>2. ASSUME ~\E h \in Handlers, o \in Orders, r \in Requests : RequestCreate(h, o, r)
      PROVE  placed' = placed /\ told \subseteq told'
  BY <1>2 DEF Next, Request, Run, RequestMatch, RequestCancel, RequestFill, RankBids,
    RankAsks, ReadBid, ReadAsk, ReadRanked, StoreTrade, CheckOpen, ReadForStatus, RemoveOrder,
    SaveStatus, ReadForUpdate, SaveUpdate, SaveOrder, RankOpposite, ReadOpposite, ReadLastTrade,
    AddToBook, Respond, RespondError, Fail, vars
<1> QED
  BY <1>1, <1>2

\* cancelOrder and fillOrder come to their answer over ZREM.
LEMMA ClosedWhenAnswered ==
  ASSUME TypeInv, LifeOK, NEW g \in Handlers, Request(g) \/ Run(g) \/ Fail(g),
         pc'[g] = "respond", call'[g].event \in {"cancelOrder", "fillOrder"}
  PROVE  call'[g].subject \in listed /\ ~InBook(call'[g].subject)
<1>1. EventOK(g) /\ TopOK(g) /\ TargetOK(g) /\ call[g] \in CallType
  BY DEF TypeInv, TypeOK, FrameOK, LifeOK
<1>2. CASE SaveStatus(g)
  <2>1. /\ call'[g].event = call[g].event /\ call'[g].subject = call[g].subject
        /\ Target(g) = call[g].subject
    BY <1>2, ContinueKeeps DEF SaveStatus, Target
  <2> QED
    BY <1>1, <1>2, <2>1 DEF SaveStatus, TargetOK
<1>3. CASE ReadForStatus(g) /\ Continue(g)
  <2>1. call[g].event = "fillOrder" /\ Target(g) = call[g].subject
    BY <1>1, <1>3, ContinueKeeps DEF ReadForStatus, Target, Sends, TypeInv, TypeOK
  <2>2. call[g].subject \in listed /\ order[call[g].subject] = NoOrder
    BY <1>1, <1>3, <2>1 DEF ReadForStatus, TargetOK, Sends, TypeInv, TypeOK
  <2> QED
    BY <2>2, ListedIsPlaced
<1>4. CASE CheckOpen(g) \/ ReadForUpdate(g) \/ SaveUpdate(g)
  <2>1. CASE Continue(g)
    <3>1. call'[g].event = call[g].event
      BY <2>1, ContinueKeeps
    <3>2. call[g].event \notin {"cancelOrder", "fillOrder"}
      <4>1. CASE CheckOpen(g)
        BY <1>1, <4>1 DEF CheckOpen, EventOK, Sends, TypeInv, TypeOK
      <4>2. CASE ReadForUpdate(g) \/ SaveUpdate(g)
        BY <1>1, <4>2 DEF ReadForUpdate, SaveUpdate, TopOK, EventOK
      <4> QED
        BY <1>4, <4>1, <4>2
    <3> QED
      BY <3>1, <3>2
  <2>2. CASE ~Continue(g)
    BY <1>4, <2>2 DEF CheckOpen, ReadForUpdate, SaveUpdate, Sends, TypeInv, TypeOK
  <2> QED
    BY <2>1, <2>2
<1>5. CASE AddToBook(g)
  BY <1>1, <1>5 DEF AddToBook, EventOK, Adding
<1>6. CASE RankBids(g) \/ RankAsks(g)
  BY <1>1, <1>6, MatchingKeeps DEF RankBids, RankAsks, EventOK, Matching
<1>7. CASE ReadBid(g) \/ ReadAsk(g)
  <2>1. PICK s \in Sides : ReadRanked(g, s) /\ pc[g] \in Matching
    BY <1>7 DEF ReadBid, ReadAsk, Sides, Matching
  <2>2. PICK top : call' = [call EXCEPT ![g].top = top]
    BY <2>1 DEF ReadRanked, Throws, Sends, TypeInv, TypeOK
  <2>3. call'[g].event = call[g].event
    BY <1>1, <2>2 DEF TypeInv, TypeOK, CallType
  <2> QED
    BY <1>1, <2>1, <2>3 DEF EventOK
<1>8. CASE ReadForStatus(g) /\ ~Continue(g)
  BY <1>8 DEF ReadForStatus, LeavesBook, Sends, TypeInv, TypeOK
<1>9. CASE Request(g) \/ StoreTrade(g) \/ RemoveOrder(g) \/ SaveOrder(g)
  BY <1>9 DEF Request, RequestCreate, RequestMatch, RequestCancel, RequestFill, StoreTrade, Settle,
    RemoveOrder, SaveOrder, Sends, TypeInv, TypeOK
<1>10. CASE \/ RankOpposite(g) \/ ReadOpposite(g) \/ ReadLastTrade(g)
            \/ Respond(g) \/ RespondError(g) \/ Fail(g)
  BY <1>10 DEF RankOpposite, ReadOpposite, ReadLastTrade, Respond, RespondError, Fail, Throws, Sends,
    TypeInv, TypeOK
<1> QED
  BY <1>2, <1>3, <1>4, <1>5, <1>6, <1>7, <1>8, <1>9, <1>10 DEF Run

\* An order that has been answered has no creator on its way to the book.
LEMMA AnsweredHasNoCreator ==
  ASSUME TypeInv, LifeOK, AnswersOK, [Next]_vars, NEW a \in told', NEW g \in Handlers,
         Creates(g, a.orderId)'
  PROVE  pc'[g] = "respond" /\ a.orderId \in listed
<1> DEFINE o == a.orderId
<1>1. a \in told => o \in Orders /\ placed[o] # NoOrder
  <2>1. a \in told => o \in Orders
    BY DEF TypeInv, TypeOK
  <2> QED
    BY <2>1 DEF LifeOK, OrdersOK
<1>2. ASSUME a \in told
      PROVE  pc'[g] = "respond" /\ o \in listed
  <2>1. Creates(g, o) /\ call'[g].event = "createOrder"
    BY <1>1, <1>2, CreatesOnce DEF Creates
  <2>2. pc[g] = "respond" /\ o \in listed
    BY <1>2, <2>1 DEF AnswersOK
  <2> QED
    BY <2>1, <2>2, RespondLast, NoCallFields
<1>3. ASSUME a \notin told
      PROVE  pc'[g] = "respond" /\ o \in listed
  <2>1. PICK h \in Handlers : Respond(h) /\ o = call[h].subject /\ a.event \in Answers(h)
    BY <1>3, ToldByAnswer
  <2>2. pc[h] = "respond" /\ EventOK(h) /\ CreatorOK(h) /\ call'[h] = NoCall
    BY <2>1 DEF Respond, LifeOK, TypeInv, TypeOK, FrameOK
  <2>3. g # h /\ call'[g] = call[g] /\ pc'[g] = pc[g] /\ Creates(g, o)
    BY <2>1, <2>2, NoCallFields DEF Respond, Creates, Sends, TypeInv, TypeOK
  <2>4. call[h].event \in {"cancelOrder", "fillOrder"} /\ o \in Orders
    BY <2>1, <2>2, <2>3 DEF Answers, Creates, CreatorOK, EventOK
  <2>5. o \in listed
    BY <2>1, <2>2, <2>4 DEF AnswersOK
  <2> QED
    BY <2>3, <2>4, <2>5 DEF LifeOK, CreatorOK
<1> QED
  BY <1>2, <1>3

\* Whoever is about to be answered that an order is closed will be answered so
\* truthfully: the order left the book, and does not come back.
LEMMA AnswerIsTrue ==
  ASSUME TypeInv, LifeOK, AnswersOK, [Next]_vars, NEW g \in Handlers,
         pc'[g] = "respond", call'[g].event \in {"cancelOrder", "fillOrder"}
  PROVE  call'[g].subject \in listed /\ ~InBook(call'[g].subject)
<1>1. ASSUME pc[g] = "respond", call'[g] = call[g]
      PROVE  call'[g].subject \in listed /\ ~InBook(call'[g].subject)
  BY <1>1 DEF AnswersOK
<1>2. CASE UNCHANGED vars
  BY <1>1, <1>2 DEF vars
<1>3. ASSUME NEW h \in Handlers, Request(h) \/ Run(h) \/ Fail(h)
      PROVE  call'[g].subject \in listed /\ ~InBook(call'[g].subject)
  <2>1. CASE g = h
    BY <1>3, <2>1, ClosedWhenAnswered
  <2>2. CASE g # h
    BY <1>1, <1>3, <2>2, OthersStay
  <2> QED
    BY <2>1, <2>2
<1> QED
  BY <1>2, <1>3 DEF Next

\* A new answer that an order is closed is given when the order is out of the book.
LEMMA ClosedWhenTold ==
  ASSUME TypeInv, LifeOK, AnswersOK, [Next]_vars, NEW a \in told', a \notin told,
         a.event \in {"orderCancelled", "orderFilled"}
  PROVE  ~InBook(a.orderId)
<1>1. PICK h \in Handlers : Respond(h) /\ a.orderId = call[h].subject /\ a.event \in Answers(h)
  BY ToldByAnswer
<1>2. pc[h] = "respond" /\ EventOK(h) /\ CreatorOK(h)
  BY <1>1 DEF Respond, LifeOK, TypeInv, FrameOK
<1>3. CASE call[h].event \in {"cancelOrder", "fillOrder"}
  BY <1>1, <1>2, <1>3 DEF AnswersOK
<1>4. CASE call[h].event = "createOrder"
  <2>1. Matched(h) /\ a.orderId \in Orders /\ Creates(h, a.orderId)
    BY <1>1, <1>2, <1>4 DEF Answers, EventOK, Creates
  <2>2. order[a.orderId] = NoOrder
    BY <1>2, <2>1 DEF CreatorOK
  <2> QED
    BY <2>2 DEF LifeOK, BookedOrdersAreOpen, InBook
<1> QED
  BY <1>1, <1>3, <1>4 DEF Answers

\* An empty Redis and no answers.
LEMMA AnswersInit == Init => AnswersOK
  BY DEF Init, AnswersOK, AnsweredOrdersAreGone

\* Every step of every handler keeps the invariant.
LEMMA AnswersNext == TypeInv /\ LifeOK /\ AnswersOK /\ [Next]_vars => AnswersOK'
<1> SUFFICES ASSUME TypeInv, LifeOK, AnswersOK, [Next]_vars
             PROVE  AnswersOK'
  OBVIOUS
<1>1. (\A a \in told : \A h \in Handlers :
         Creates(h, a.orderId) => pc[h] = "respond" /\ a.orderId \in listed)'
  BY AnsweredHasNoCreator, ListedGrows
<1>2. (\A h \in Handlers :
         pc[h] = "respond" /\ call[h].event \in {"cancelOrder", "fillOrder"}
           => call[h].subject \in listed /\ ~InBook(call[h].subject))'
  <2> SUFFICES ASSUME NEW h \in Handlers, pc'[h] = "respond",
                      call'[h].event \in {"cancelOrder", "fillOrder"}
               PROVE  call'[h].subject \in listed' /\ ~InBook(call[h].subject)'
    OBVIOUS
  <2>1. call'[h].subject \in listed /\ ~InBook(call'[h].subject)
    BY AnswerIsTrue
  <2>2. ~InBook(call[h].subject)'
    BY <2>1, NoRelistingStep DEF InBook
  <2> QED
    BY <2>1, <2>2, ListedGrows
<1>3. AnsweredOrdersAreGone'
  <2> SUFFICES ASSUME NEW o \in Orders, NEW e \in {"orderCancelled", "orderFilled"},
                      [event |-> e, orderId |-> o] \in told'
               PROVE  ~InBook(o)'
    BY DEF AnsweredOrdersAreGone, InBook
  <2> DEFINE a == [event |-> e, orderId |-> o]
  <2>1. ~InBook(o)
    <3>1. CASE a \in told
      BY <3>1 DEF AnswersOK, AnsweredOrdersAreGone
    <3>2. CASE a \notin told
      BY <3>2, ClosedWhenTold
    <3> QED
      BY <3>1, <3>2
  <2>2. \A h \in Handlers : ~(pc[h] = "addToBook" /\ Creates(h, o))
    <3>1. CASE a \in told
      BY <3>1 DEF AnswersOK
    <3>2. CASE a \notin told
      <4> SUFFICES ASSUME NEW h \in Handlers, pc[h] = "addToBook", Creates(h, o)
                   PROVE  FALSE
        OBVIOUS
      <4>1. PICK g \in Handlers : Respond(g) /\ o = call[g].subject /\ e \in Answers(g)
        BY <3>2, ToldByAnswer
      <4>2. pc[g] = "respond" /\ EventOK(g) /\ g # h
        BY <4>1 DEF Respond, TypeInv, FrameOK
      <4>3. call[g].event # "createOrder"
        BY <4>1, <4>2 DEF Creates, LifeOK, CreatorOK
      <4>4. o \in listed
        BY <4>1, <4>2, <4>3 DEF Answers, AnswersOK
      <4> QED
        BY <4>4 DEF LifeOK, CreatorOK
    <3> QED
      BY <3>1, <3>2
  <2> QED
    BY <2>1, <2>2, EntersFromCreator
<1> QED
  BY <1>1, <1>2, <1>3 DEF AnswersOK

\* The inductive invariant holds in every reachable state, for any number of
\* handlers, orders, prices and failures.
THEOREM InvariantAlways == Spec => []IInv
<1>1. Init => IInv
  BY TypeInvInit, LifeInit, TermsInit, AnswersInit DEF IInv
<1>2. IInv /\ [Next]_vars => IInv'
  BY TypeInvStep, LifeNext, TermsNext, LifeIsStored, AnswersNext DEF IInv
<1> QED
  BY <1>1, <1>2, PTL DEF Spec

\* Once a client has been told that an order is cancelled or filled, the order is
\* and stays out of the book, however createOrder, matchTopOrders, cancelOrder and
\* fillOrder interleave and fail.
THEOREM AnsweredStayGone == Spec => []AnsweredOrdersAreGone
<1>1. IInv => AnsweredOrdersAreGone
  BY DEF IInv, AnswersOK
<1> QED
  BY <1>1, InvariantAlways, PTL
-----------------------------------------------------------------------------
(* OrderMatching implements OrderLife.  ZADD, ZREM and the answers are the *)
(* only commands that move an order on; each is shown to take the order    *)
(* from the phase that OrderLife asks for.                                 *)

\* The phase of an order depends on what is known of that order alone.
LEMMA SamePhase ==
  ASSUME NEW p \in Orders, placed'[p] = placed[p], InBook(p)' <=> InBook(p),
         p \in listed' <=> p \in listed,
         [event |-> "orderFilled", orderId |-> p] \in told'
           <=> [event |-> "orderFilled", orderId |-> p] \in told
  PROVE  Phase(p)' = Phase(p)
  BY DEF Phase

\* A step that leaves every phase alone leaves OrderLife's orders alone.
LEMMA SameLife ==
  ASSUME \A p \in Orders : Phase(p)' = Phase(p)
  PROVE  LifeOf' = LifeOf
  BY DEF LifeOf

\* A step that moves one order on is a step of that order in OrderLife.
LEMMA OneMoves ==
  ASSUME NEW o \in Orders, NEW from, NEW to, Phase(o) = from, Phase(o)' = to,
         \A p \in Orders \ {o} : Phase(p)' = Phase(p)
  PROVE  Life!Passes(o, from, to)
<1>1. LifeOf' = [LifeOf EXCEPT ![o] = to]
  BY DEF LifeOf
<1>2. LifeOf[o] = from
  BY DEF LifeOf
<1> QED
  BY <1>1, <1>2 DEF Life!Passes

\* What no client sees is no step of OrderLife.
LEMMA HiddenStep ==
  ASSUME UNCHANGED <<placed, book, listed, told>>
  PROVE  UNCHANGED <<LifeOf, told>>
<1>1. \A p \in Orders : InBook(p)' <=> InBook(p)
  BY DEF InBook
<1>2. \A p \in Orders : Phase(p)' = Phase(p)
  BY <1>1 DEF Phase
<1> QED
  BY <1>2, SameLife

\* createOrder takes an id that nothing is known of.
LEMMA PlaceStep ==
  ASSUME IInv, NEW h \in Handlers, NEW o \in Orders, NEW r \in Requests, RequestCreate(h, o, r)
  PROVE  Life!Place(o)
<1>1. call'[h].event = "createOrder" /\ call'[h].subject = o
  BY SetRequest DEF RequestCreate, IInv, TypeInv, IncomingEvents
<1>2. placed'[o] # NoOrder
  <2>1. TypeInv'
    BY TypeInvRequestCreate DEF IInv
  <2> QED
    BY <1>1, <2>1 DEF TypeInv, FrameOK, EventOK
<1>3. placed[o] = NoOrder /\ UNCHANGED <<book, listed, told>>
  BY DEF RequestCreate, redis
<1>4. ~InBook(o) /\ o \notin listed /\ [event |-> "orderFilled", orderId |-> o] \notin told
  BY <1>3 DEF IInv, LifeOK, OrdersOK
<1>5. \A p \in Orders : InBook(p)' <=> InBook(p)
  BY <1>3 DEF InBook
<1>6. Phase(o) = "unknown" /\ Phase(o)' = "placed"
  BY <1>2, <1>3, <1>4, <1>5 DEF Phase
<1>7. \A p \in Orders \ {o} : Phase(p)' = Phase(p)
  <2>1. \A p \in Orders \ {o} : placed'[p] = placed[p]
    BY DEF RequestCreate, IInv, TypeInv, TypeOK
  <2> QED
    BY <1>3, <1>5, <2>1 DEF Phase
<1> QED
  BY <1>3, <1>6, <1>7, OneMoves DEF Life!Place

\* Whoever sends ZADD created the order, which neither rested nor was answered.
LEMMA RestStep ==
  ASSUME IInv, NEW h \in Handlers, AddToBook(h)
  PROVE  \E o \in Orders : Life!Rest(o)
<1>0. PICK o, side : o = call[h].subject /\ side = placed[o].side
  OBVIOUS
<1>1. /\ o \in Orders /\ placed[o] \in OrderType /\ side \in Sides /\ Creates(h, o)
      /\ placed[o] # NoOrder
  <2>1. pc[h] = "addToBook" /\ pc[h] \in Adding /\ EventOK(h)
    BY DEF AddToBook, Adding, IInv, TypeInv, FrameOK
  <2> QED
    BY <1>0, <2>1, CreatorType DEF EventOK, Creates, IInv
<1>2. ~InBook(o) /\ o \notin listed
  BY <1>0, <1>1 DEF AddToBook, IInv, LifeOK, CreatorOK, OrdersOK
<1>3. [event |-> "orderFilled", orderId |-> o] \notin told
  <2> SUFFICES ASSUME [event |-> "orderFilled", orderId |-> o] \in told
               PROVE  FALSE
    OBVIOUS
  <2>1. Creates(h, o) => pc[h] = "respond"
    BY DEF IInv, AnswersOK
  <2> QED
    BY <1>0, <1>1, <2>1 DEF AddToBook
<1>4. Phase(o) = "placed"
  BY <1>1, <1>2, <1>3 DEF Phase
<1>5. placed' = placed /\ told' = told /\ listed' = listed \cup {o}
  BY <1>0 DEF AddToBook
<1>6. /\ book' \in [Sides -> SortedSet(Orders)]
      /\ book[side] \in SortedSet(Orders)
      /\ book'[side] = ZAdd(book[side], o, ScoreOf(side, call[h].price))
      /\ \A s \in Sides \ {side} : book'[s] = book[s]
  <2>1. TypeInv'
    BY TypeInvAddToBook DEF IInv
  <2> QED
    BY <1>0, <1>1, <2>1 DEF AddToBook, IInv, TypeInv, TypeOK
<1>7. ScoreOf(side, call[h].price) # NoScore
  <2>1. call[h].price \in Nat
    BY DEF IInv, TypeInv, TypeOK, CallType, Prices
  <2>2. ScoreOf(side, call[h].price) \in Int
    BY <2>1 DEF ScoreOf
  <2> QED
    BY <2>2, NoScoreAssumption
<1>8. InBook(o)'
  <2>1. o \in Members(book'[side])
    BY <1>1, <1>6, <1>7 DEF Members, ZAdd, SortedSet
  <2> QED
    BY <1>1, <2>1 DEF InBook
<1>9. \A p \in Orders \ {o} : InBook(p)' <=> InBook(p)
  <2>1. \A s \in Sides, p \in Orders \ {o} : p \in Members(book'[s]) <=> p \in Members(book[s])
    BY <1>6 DEF Members, ZAdd, SortedSet
  <2> QED
    BY <2>1 DEF InBook
<1>10. Phase(o)' = "resting"
  BY <1>1, <1>5, <1>8 DEF Phase
<1>11. \A p \in Orders \ {o} : Phase(p)' = Phase(p)
  BY <1>5, <1>9 DEF Phase
<1>12. Life!Rest(o)
  BY <1>1, <1>4, <1>5, <1>10, <1>11, OneMoves DEF Life!Rest
<1> QED
  BY <1>1, <1>12

\* ZREM takes the order off its own side, the only one it can be on.
LEMMA LeaveStep ==
  ASSUME IInv, NEW h \in Handlers, RemoveOrder(h)
  PROVE  (\E o \in Orders : Life!Leave(o)) \/ UNCHANGED <<LifeOf, told>>
<1>0. PICK o, side : o = Target(h) /\ side = call[h].read.side
  OBVIOUS
<1>1. o \in listed /\ side = placed[o].side
  BY <1>0 DEF RemoveOrder, IInv, LifeOK, TargetOK
<1>2. o \in Orders /\ placed[o] # NoOrder /\ placed[o] \in OrderType /\ order[o] # NoOrder
  BY <1>1, ListedIsPlaced DEF IInv
<1>3. side \in Sides /\ order[o].side = side
  BY <1>0, <1>1, <1>2 DEF OrderType, IInv, LifeOK, OrdersOK
<1>4. placed' = placed /\ told' = told /\ listed' = listed
  BY DEF RemoveOrder
<1>5. /\ \A s \in Sides : book[s] \in SortedSet(Orders)
      /\ book'[side] = ZRem(book[side], o)
      /\ \A s \in Sides \ {side} : book'[s] = book[s]
  BY <1>0, <1>3 DEF RemoveOrder, IInv, TypeInv, TypeOK
<1>6. \A p \in Orders \ {o} : InBook(p)' <=> InBook(p)
  <2>1. \A s \in Sides, p \in Orders \ {o} : p \in Members(book'[s]) <=> p \in Members(book[s])
    BY <1>3, <1>5 DEF Members, ZRem, SortedSet
  <2> QED
    BY <2>1 DEF InBook
<1>7. \A p \in Orders \ {o} : Phase(p)' = Phase(p)
  BY <1>4, <1>6 DEF Phase
<1>8. ~InBook(o)'
  <2>1. o \notin Members(book'[side])
    BY <1>2, <1>3, <1>5 DEF Members, ZRem, SortedSet
  <2>2. \A s \in Sides \ {side} : o \notin Members(book'[s])
    BY <1>3, <1>5 DEF IInv, LifeOK, BookedOrdersAreOpen
  <2> QED
    BY <2>1, <2>2 DEF InBook
<1>9. Phase(o)' = "gone"
  BY <1>1, <1>2, <1>4, <1>8 DEF Phase
<1>10. CASE InBook(o)
  <2>1. Phase(o) = "resting"
    BY <1>2, <1>10 DEF Phase
  <2>2. Life!Leave(o)
    BY <1>2, <1>4, <1>7, <1>9, <2>1, OneMoves DEF Life!Leave
  <2> QED
    BY <1>2, <2>2
<1>11. CASE ~InBook(o)
  <2>1. Phase(o) = "gone"
    BY <1>1, <1>2, <1>11 DEF Phase
  <2> QED
    BY <1>4, <1>7, <1>9, <2>1, SameLife
<1> QED
  BY <1>10, <1>11

\* An answer says what the phase of its order allows.
LEMMA TellStep ==
  ASSUME IInv, NEW h \in Handlers, Respond(h)
  PROVE  Life!Next \/ UNCHANGED <<LifeOf, told>>
<1>0. PICK o : o = call[h].subject
  OBVIOUS
<1> DEFINE filled(p) == [event |-> "orderFilled", orderId |-> p]
<1>1. pc[h] = "respond" /\ EventOK(h) /\ CreatorOK(h) /\ call[h].event \in IncomingEvents
  BY DEF Respond, IInv, TypeInv, TypeOK, CallType, FrameOK, EventOK, LifeOK
<1>2. UNCHANGED <<placed, book, listed>> /\ told' = told \cup [event : Answers(h), orderId : {o}]
  BY <1>0 DEF Respond, redis
<1>3. \A p \in Orders : InBook(p)' <=> InBook(p)
  BY <1>2 DEF InBook
<1>4. \A p \in Orders \ {o} : filled(p) \in told' <=> filled(p) \in told
  BY <1>2
<1>5. \A p \in Orders \ {o} : Phase(p)' = Phase(p)
  BY <1>2, <1>3, <1>4 DEF Phase
<1>6. CASE call[h].event = "matchTopOrders"
  <2>1. Answers(h) = {}
    BY <1>6 DEF Answers
  <2>2. told' = told
    BY <1>2, <2>1
  <2> QED
    BY <1>2, <2>2, HiddenStep
<1>7. CASE call[h].event \in {"cancelOrder", "fillOrder"}
  <2>1. o \in listed /\ ~InBook(o)
    BY <1>0, <1>1, <1>7 DEF IInv, AnswersOK
  <2>2. o \in Orders /\ placed[o] # NoOrder
    BY <2>1, ListedIsPlaced DEF IInv
  <2>3. Phase(o) = "gone" /\ Phase(o)' = "gone"
    BY <1>2, <1>3, <2>1, <2>2 DEF Phase
  <2>4. UNCHANGED LifeOf /\ LifeOf[o] = "gone"
    BY <1>5, <2>2, <2>3, SameLife DEF LifeOf
  <2>5. PICK e \in {"orderCancelled", "orderFilled"} : Answers(h) = {e}
    BY <1>7 DEF Answers
  <2>6. Life!TellClosed(o, e)
    BY <1>2, <2>4, <2>5 DEF Life!TellClosed, Life!Tells
  <2> QED
    BY <2>2, <2>6 DEF Life!Next
<1>8. CASE call[h].event = "createOrder" /\ ~Matched(h)
  <2>1. o \in Orders /\ Creates(h, o) /\ placed[o] # NoOrder
    BY <1>0, <1>1, <1>8 DEF EventOK, Creates
  <2>2. o \in listed
    BY <1>0, <1>1, <1>8, <2>1 DEF CreatorOK
  <2>3. Answers(h) = {"orderCreated"}
    BY <1>8 DEF Answers
  <2>4. \A p \in Orders : filled(p) \in told' <=> filled(p) \in told
    BY <1>2, <2>3
  <2>5. \A p \in Orders : Phase(p)' = Phase(p)
    BY <1>2, <1>3, <2>4 DEF Phase
  <2>6. Phase(o) \in {"resting", "gone"}
    BY <2>1, <2>2 DEF Phase
  <2>7. UNCHANGED LifeOf /\ LifeOf[o] \in {"resting", "gone"}
    BY <2>1, <2>5, <2>6, SameLife DEF LifeOf
  <2>8. Life!TellCreated(o)
    BY <1>2, <2>3, <2>7 DEF Life!TellCreated, Life!Tells
  <2> QED
    BY <2>1, <2>8 DEF Life!Next
<1>9. CASE call[h].event = "createOrder" /\ Matched(h)
  <2>1. o \in Orders /\ Creates(h, o) /\ placed[o] # NoOrder
    BY <1>0, <1>1, <1>9 DEF EventOK, Creates
  <2>2. o \notin listed /\ ~InBook(o)
    BY <1>0, <1>1, <1>9, <2>1 DEF CreatorOK, IInv, LifeOK, OrdersOK
  <2>3. filled(o) \notin told
    <3> SUFFICES ASSUME filled(o) \in told
                 PROVE  FALSE
      OBVIOUS
    <3>1. o \in listed
      BY <1>0, <2>1 DEF IInv, AnswersOK
    <3> QED
      BY <2>2, <3>1
  <2>4. Answers(h) = {"orderCreated", "orderFilled"}
    BY <1>9 DEF Answers
  <2>5. filled(o) \in told'
    BY <1>2, <2>4
  <2>6. Phase(o) = "placed" /\ Phase(o)' = "gone"
    BY <1>2, <1>3, <2>1, <2>2, <2>3, <2>5 DEF Phase
  <2>7. Life!TellExecuted(o)
    BY <1>2, <1>5, <2>1, <2>4, <2>6, OneMoves DEF Life!TellExecuted, Life!Tells
  <2> QED
    BY <2>1, <2>7 DEF Life!Next
<1> QED
  BY <1>1, <1>6, <1>7, <1>8, <1>9 DEF IncomingEvents

\* Every command of every handler is a step of OrderLife or hidden from clients.
LEMMA LifeStepOrStutter ==
  IInv /\ [Next]_vars => Life!Next \/ UNCHANGED <<LifeOf, told>>
<1> SUFFICES ASSUME IInv, [Next]_vars
             PROVE  Life!Next \/ UNCHANGED <<LifeOf, told>>
  OBVIOUS
<1>1. CASE UNCHANGED vars
  BY <1>1, HiddenStep DEF vars
<1>2. ASSUME NEW h \in Handlers, Request(h)
      PROVE  Life!Next \/ UNCHANGED <<LifeOf, told>>
  <2>1. ASSUME NEW o \in Orders, NEW r \in Requests, RequestCreate(h, o, r)
        PROVE  Life!Next
    BY <2>1, PlaceStep DEF Life!Next
  <2>2. CASE RequestMatch(h) \/ \E o \in Orders : RequestCancel(h, o) \/ RequestFill(h, o)
    BY <2>2, HiddenStep DEF RequestMatch, RequestCancel, RequestFill, redis
  <2> QED
    BY <1>2, <2>1, <2>2 DEF Request
<1>3. ASSUME NEW h \in Handlers, AddToBook(h)
      PROVE  Life!Next
  BY <1>3, RestStep DEF Life!Next
<1>4. ASSUME NEW h \in Handlers, RemoveOrder(h)
      PROVE  Life!Next \/ UNCHANGED <<LifeOf, told>>
  BY <1>4, LeaveStep DEF Life!Next
<1>5. ASSUME NEW h \in Handlers, Respond(h)
      PROVE  Life!Next \/ UNCHANGED <<LifeOf, told>>
  BY <1>5, TellStep
<1>6. ASSUME NEW h \in Handlers,
             \/ RankBids(h) \/ RankAsks(h) \/ ReadBid(h) \/ ReadAsk(h) \/ StoreTrade(h)
             \/ CheckOpen(h) \/ ReadForStatus(h) \/ SaveStatus(h)
             \/ ReadForUpdate(h) \/ SaveUpdate(h)
             \/ SaveOrder(h) \/ RankOpposite(h) \/ ReadOpposite(h) \/ ReadLastTrade(h)
             \/ RespondError(h) \/ Fail(h)
      PROVE  UNCHANGED <<LifeOf, told>>
  <2>1. UNCHANGED <<placed, book, listed, told>>
    BY <1>6 DEF RankBids, RankAsks, ReadBid, ReadAsk, ReadRanked, StoreTrade, CheckOpen,
      ReadForStatus, SaveStatus, ReadForUpdate, SaveUpdate, SaveOrder, RankOpposite,
      ReadOpposite, ReadLastTrade, RespondError, Fail, redis
  <2> QED
    BY <2>1, HiddenStep
<1> QED
  BY <1>1, <1>2, <1>3, <1>4, <1>5, <1>6 DEF Next, Run

\* However createOrder, matchTopOrders, cancelOrder and fillOrder interleave and
\* fail, every order goes through its life once and in order, and every answer
\* about it fits the phase it has reached.
THEOREM OrdersLiveOnce == Spec => ImplementsOrderLife
<1>1. Init => Life!Init
  BY DEF Init, Life!Init, LifeOf, Phase
<1>2. IInv /\ [Next]_vars => [Life!Next]_<<LifeOf, told>>
  BY LifeStepOrStutter
<1> QED
  BY <1>1, <1>2, InvariantAlways, PTL DEF Spec, ImplementsOrderLife, Life!Spec
=============================================================================
