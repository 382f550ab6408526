----------------------- MODULE OrderMatchingLifeProofs ----------------------
(***************************************************************************)
(* The second layer: the life of an order.  Interferes(h) says what a step *)
(* of one handler may do to the orders that the others hold; with it, a    *)
(* lemma per command needs to look only at the handler that takes it.      *)
(***************************************************************************)
EXTENDS OrderMatchingTypeProofs

(* What a step of handler h may do to the orders of other handlers: nothing *)
(* to those that only their creator knows, and nothing that would bring an  *)
(* order back into the book.                                                *)

Interferes(h) ==
  /\ \A g \in Handlers \ {h} : pc'[g] = pc[g] /\ call'[g] = call[g]
  /\ listed \subseteq listed' /\ told \subseteq told'
  /\ \A o \in Orders : placed[o] # NoOrder => placed'[o] = placed[o]
  /\ \A o \in Orders : Creates(h, o)' => Creates(h, o) \/ placed[o] = NoOrder
  /\ \A o \in Orders : o \in listed' => o \in listed \/ Creates(h, o)
  /\ \A o \in Orders : order'[o] # order[o] => o \in listed \/ Creates(h, o)
  /\ \A o \in Orders : [event |-> "orderCreated", orderId |-> o] \in told'
       => [event |-> "orderCreated", orderId |-> o] \in told \/ Creates(h, o)
  /\ \A o \in Orders : o \in listed /\ InBook(o)' => InBook(o)

\* A step of h leaves the order that another handler is creating to that handler.
LEMMA OthersCreate ==
  ASSUME TypeInv, LifeOK, NEW h \in Handlers, Interferes(h), NEW g \in Handlers, g # h
  PROVE  CreatorOK(g)'
<1> SUFFICES ASSUME NEW o \in Orders, Creates(g, o)'
             PROVE  /\ (\A f \in Handlers : Creates(f, o) => f = g)'
                    /\ ([event |-> "orderCreated", orderId |-> o] \notin told)'
                    /\ (pc[g] # "respond" => o \notin listed)'
                    /\ (pc[g] \in Adding \ {"saveOrder"} => order[o] = placed[o])'
                    /\ (pc[g] = "saveOrder" \/ pc[g] \in Matching \/ Matched(g) => order[o] = NoOrder)'
                    /\ (pc[g] = "respond" /\ ~Matched(g) => o \in listed)'
  BY DEF CreatorOK
<1>1. Creates(g, o) /\ pc'[g] = pc[g] /\ call'[g] = call[g]
  BY DEF Interferes, Creates
<1>2. CreatorOK(g) /\ placed[o] # NoOrder /\ placed'[o] = placed[o] /\ OrdersOK
  BY <1>1 DEF LifeOK, Creates, TypeInv, FrameOK, EventOK, Interferes
<1>3. ~Creates(h, o)
  BY <1>1, <1>2 DEF CreatorOK
<1>4. \A f \in Handlers : Creates(f, o)' => f = g
  <2>1. ASSUME NEW f \in Handlers, Creates(f, o)', f # h
        PROVE  f = g
    <3>1. Creates(f, o)
      BY <2>1 DEF Interferes, Creates
    <3> QED
      BY <1>1, <1>2, <3>1 DEF CreatorOK
  <2>2. ~Creates(h, o)'
    BY <1>2, <1>3 DEF Interferes
  <2> QED
    BY <2>1, <2>2
<1>5. ([event |-> "orderCreated", orderId |-> o] \notin told)'
  BY <1>1, <1>2, <1>3 DEF Interferes, CreatorOK
<1>6. (pc[g] # "respond" => o \notin listed)' /\ (pc[g] = "respond" /\ ~Matched(g) => o \in listed)'
  BY <1>1, <1>2, <1>3 DEF Interferes, CreatorOK, Matched
<1>7. order[o] = NoOrder => order'[o] = NoOrder
  BY <1>2, <1>3 DEF Interferes, OrdersOK
<1>8. pc[g] \in Adding => order'[o] = order[o]
  BY <1>1, <1>2, <1>3 DEF Interferes, CreatorOK, Adding
<1> QED
  BY <1>1, <1>2, <1>4, <1>5, <1>6, <1>7, <1>8 DEF CreatorOK, Matched, Adding

\* A step of h leaves the orders that another handler is changing listed, and
\* does not put them back into the book.
LEMMA OthersTarget ==
  ASSUME TypeInv, LifeOK, NEW h \in Handlers, Interferes(h), NEW g \in Handlers, g # h
  PROVE  TargetOK(g)'
<1>1. TargetOK(g) /\ OrdersOK /\ pc'[g] = pc[g] /\ call'[g] = call[g]
  BY DEF LifeOK, Interferes
<1>2. Target(g)' = Target(g)
  BY <1>1 DEF Target
<1>3. \A o \in listed : o \in Orders /\ placed[o] # NoOrder /\ placed'[o] = placed[o]
  BY <1>1 DEF OrdersOK, Interferes, TypeInv, TypeOK
<1>4. pc[g] \in {"removeOrder", "saveStatus", "saveUpdate"} =>
        /\ Target(g) \in listed /\ placed'[Target(g)] = placed[Target(g)]
        /\ InBook(Target(g))' => InBook(Target(g))
  BY <1>1, <1>2, <1>3 DEF TargetOK, Interferes, InBook
<1>5. listed \subseteq listed' /\ told \subseteq told'
  BY DEF Interferes
<1>6. \A o : Known(o) => Known(o)'
  BY <1>5 DEF Known
<1>7. (\A s \in Sides : call[g].top[s] # NoEntry => call[g].top[s].orderId \in listed)'
  BY <1>1, <1>5 DEF TargetOK
<1>8. /\ (call[g].event \in {"cancelOrder", "fillOrder"} => Known(call[g].subject))'
      /\ (pc[g] = "readForStatus" /\ call[g].event = "fillOrder" => call[g].subject \in listed)'
  BY <1>1, <1>5, <1>6 DEF TargetOK, Known
<1>9. /\ (pc[g] = "saveStatus" => ~InBook(Target(g)))'
      /\ (pc[g] = "saveUpdate" /\ call[g].read.status # "OPEN" => ~InBook(Target(g)))'
  BY <1>1, <1>2, <1>4 DEF TargetOK, InBook
<1>10. (pc[g] \in {"removeOrder", "saveStatus", "saveUpdate"} =>
          Target(g) \in listed /\ call[g].read.side = placed[Target(g)].side)'
  BY <1>1, <1>2, <1>4, <1>5 DEF TargetOK
<1> QED
  BY <1>7, <1>8, <1>9, <1>10 DEF TargetOK

\* It is enough to look at the handler that takes the step.
LEMMA LifeStep ==
  ASSUME TypeInv, LifeOK, NEW h \in Handlers, Interferes(h),
         CreatorOK(h)', TargetOK(h)', OrdersOK', BookedOrdersAreOpen'
  PROVE  LifeOK'
<1>1. \A g \in Handlers : CreatorOK(g)' /\ TargetOK(g)'
  BY OthersCreate, OthersTarget
<1> QED
  BY <1>1 DEF LifeOK

\* For the steps that only change the handler's own state.
LEMMA LifeLocalStep ==
  ASSUME TypeInv, LifeOK, NEW h \in Handlers,
         UNCHANGED <<order, book, placed, listed, told>>,
         \A g \in Handlers \ {h} : pc'[g] = pc[g] /\ call'[g] = call[g],
         \A o \in Orders : Creates(h, o)' => Creates(h, o),
         CreatorOK(h)', TargetOK(h)'
  PROVE  LifeOK'
<1>1. Interferes(h)
  BY DEF Interferes, InBook
<1>2. OrdersOK'
  BY DEF LifeOK, OrdersOK, InBook
<1>3. BookedOrdersAreOpen'
  BY DEF LifeOK, BookedOrdersAreOpen
<1> QED
  BY <1>1, <1>2, <1>3, LifeStep

(* What each command keeps of its handler's locals.                         *)

\* No command changes what the handler is about, and only reads and ranks change
\* the entries it compares.
LEMMA MatchingKeeps ==
  ASSUME TypeInv, NEW h \in Handlers, RankBids(h) \/ RankAsks(h)
  PROVE  /\ call'[h].event = call[h].event /\ call'[h].subject = call[h].subject
         /\ call'[h].settling = call[h].settling
         /\ pc'[h] \in {"rankAsks", "readBid", "readAsk", "storeTrade", "saveOrder", "respond"}
         /\ pc'[h] = "respond" => call[h].event # "createOrder"
         /\ \A s \in Sides :
              \/ call'[h].top[s] = call[h].top[s]
              \/ \E o \in Orders : IsTop(s, o) /\ call'[h].top[s] = Ranked(s, o)
<1>1. call[h] \in CallType /\ call[h].top \in [Sides -> EntryType \cup {NoEntry}]
  BY DEF TypeInv, TypeOK, CallType
<1>2. CASE UNCHANGED call
  BY <1>2 DEF RankBids, RankAsks, Sends, NextRead, AfterReads, TypeInv, TypeOK
<1>3. ASSUME NEW s \in Sides, NEW o \in Orders, IsTop(s, o),
             call' = [call EXCEPT ![h].top = [call[h].top EXCEPT ![s] = Ranked(s, o)]]
      PROVE  /\ call'[h].event = call[h].event /\ call'[h].subject = call[h].subject
             /\ call'[h].settling = call[h].settling
             /\ \A t \in Sides :
                  \/ call'[h].top[t] = call[h].top[t]
                  \/ \E p \in Orders : IsTop(t, p) /\ call'[h].top[t] = Ranked(t, p)
  <2> DEFINE top == [call[h].top EXCEPT ![s] = Ranked(s, o)]
  <2>1. /\ top \in [Sides -> EntryType \cup {NoEntry}]
        /\ top[s] = Ranked(s, o)
        /\ \A t \in Sides \ {s} : top[t] = call[h].top[t]
    BY <1>1, <1>3, RankedTop
  <2>2. call' = [call EXCEPT ![h].top = top]
    BY <1>3
  <2> HIDE DEF top
  <2>3. /\ call'[h].event = call[h].event /\ call'[h].subject = call[h].subject
        /\ call'[h].settling = call[h].settling /\ call'[h].top = top
    BY <2>1, <2>2, SetTop DEF TypeInv
  <2> QED
    BY <1>3, <2>1, <2>3
<1>4. /\ pc'[h] \in {"rankAsks", "readBid", "readAsk", "storeTrade", "saveOrder", "respond"}
      /\ pc'[h] = "respond" => call[h].event # "createOrder"
  BY DEF RankBids, RankAsks, Sends, NextRead, AfterReads, TypeInv, TypeOK
<1> QED
  BY <1>2, <1>3, <1>4 DEF RankBids, RankAsks, Sides

\* What can be ranked has been listed.
LEMMA TopIsListed ==
  ASSUME LifeOK, NEW s \in Sides, NEW o \in Orders, IsTop(s, o)
  PROVE  o \in listed
<1>1. InBook(o)
  BY DEF IsTop, IsFirst, IsLast, InBook, Sides
<1> QED
  BY <1>1 DEF LifeOK, OrdersOK

\* Ranking the book in matchTopOrders.
LEMMA LifeRank ==
  ASSUME TypeInv, LifeOK, NEW h \in Handlers, RankBids(h) \/ RankAsks(h)
  PROVE  LifeOK'
<1>1. CreatorOK(h) /\ TargetOK(h) /\ EventOK(h)
  BY DEF LifeOK, TypeInv, FrameOK
<1>2. pc[h] \in Matching /\ UNCHANGED <<redis, placed, listed, told, faults>>
  BY DEF RankBids, RankAsks, Matching
<1>3. \A g \in Handlers \ {h} : pc'[g] = pc[g] /\ call'[g] = call[g]
  BY DEF RankBids, RankAsks, Sends, TypeInv, TypeOK
<1>4. CreatorOK(h)'
  BY <1>1, <1>2, <1>3, MatchingKeeps DEF CreatorOK, Creates, Matched, Matching, Adding, EventOK, redis
<1>5. \A s \in Sides : call'[h].top[s] # NoEntry => call'[h].top[s].orderId \in listed
  <2>1. \A s \in Sides, o \in Orders : Ranked(s, o).orderId = o
    BY DEF Ranked
  <2> QED
    BY <1>1, <2>1, MatchingKeeps, TopIsListed DEF TargetOK
<1>6. TargetOK(h)'
  BY <1>1, <1>2, <1>5, MatchingKeeps DEF TargetOK, EventOK
<1> QED
  BY <1>2, <1>4, <1>6, <1>3, MatchingKeeps, LifeLocalStep DEF Creates, redis

\* A handler that is done, or has failed, is in nobody's way.
LEMMA LifeReset ==
  ASSUME TypeInv, LifeOK, NEW h \in Handlers, Throws(h), UNCHANGED <<redis, placed, listed, told>>
  PROVE  LifeOK'
<1>1. call'[h] = NoCall /\ pc'[h] = "idle"
  BY SetNoCall DEF Throws, Sends, TypeInv, TypeOK
<1>2. CreatorOK(h)' /\ TargetOK(h)'
  BY <1>1, NoCallFields DEF CreatorOK, Creates, TargetOK
<1>3. \A g \in Handlers \ {h} : pc'[g] = pc[g] /\ call'[g] = call[g]
  BY DEF Throws, Sends, TypeInv, TypeOK
<1> QED
  BY <1>1, <1>2, <1>3, NoCallFields, LifeLocalStep DEF Creates, redis

\* Reading the top orders in matchTopOrders.
LEMMA LifeRead ==
  ASSUME TypeInv, LifeOK, NEW h \in Handlers, ReadBid(h) \/ ReadAsk(h)
  PROVE  LifeOK'
<1>1. PICK s \in Sides : /\ ReadRanked(h, s)
                         /\ pc[h] = IF s = "BUY" THEN "readBid" ELSE "readAsk"
  BY DEF ReadBid, ReadAsk, Sides
<1> DEFINE stored == order[call[h].top[s].orderId]
           top == [call[h].top EXCEPT ![s].quantity = stored.quantity, ![s].status = stored.status]
<1>2. CreatorOK(h) /\ TargetOK(h) /\ EventOK(h) /\ TopOK(h)
  BY DEF LifeOK, TypeInv, FrameOK
<1>3. CASE stored = NoOrder
  BY <1>1, <1>3, LifeReset DEF ReadRanked
<1>4. CASE stored # NoOrder
  <2>1. call[h] \in CallType /\ call[h].top \in [Sides -> EntryType \cup {NoEntry}]
    BY DEF TypeInv, TypeOK, CallType
  <2>2. call[h].top[s] \in EntryType
    BY <1>1, <1>2, <2>1 DEF TopOK, Sides
  <2>3. \A t \in Sides : top[t] # NoEntry => call[h].top[t] # NoEntry
                                             /\ top[t].orderId = call[h].top[t].orderId
    BY <1>1, <1>2, <2>1, <2>2 DEF TopOK, EntryType, Sides
  <2>4. call' = [call EXCEPT ![h].top = top]
    BY <1>1, <1>4 DEF ReadRanked
  <2>5. pc'[h] = IF s = "BUY" /\ top["SELL"] # NoEntry THEN "readAsk" ELSE AfterReads(h, top)
    BY <1>1, <1>4 DEF ReadRanked, Sends, TypeInv, TypeOK
  <2> HIDE DEF top
  <2>6. /\ call'[h].event = call[h].event /\ call'[h].subject = call[h].subject
        /\ call'[h].settling = call[h].settling /\ call'[h].top = top
    BY <2>1, <2>4 DEF TypeInv, TypeOK, CallType
  <2>7. UNCHANGED <<redis, placed, listed, told>>
    BY <1>1 DEF ReadRanked
  <2>8. \A g \in Handlers \ {h} : pc'[g] = pc[g] /\ call'[g] = call[g]
    BY <1>1, <1>4 DEF ReadRanked, Sends, TypeInv, TypeOK
  <2>9. CreatorOK(h)'
    BY <1>1, <1>2, <2>5, <2>6, <2>7, <2>8 DEF AfterReads, CreatorOK, Creates, Matched, Matching, Adding,
      EventOK, redis
  <2>10. TargetOK(h)'
    BY <1>1, <1>2, <2>3, <2>5, <2>6, <2>7 DEF AfterReads, TargetOK, EventOK, Matching, redis
  <2> QED
    BY <2>6, <2>7, <2>9, <2>10, <2>8, LifeLocalStep DEF Creates, redis
<1> QED
  BY <1>3, <1>4

\* storeTrade touches no order yet.
LEMMA LifeStoreTrade ==
  ASSUME TypeInv, LifeOK, NEW h \in Handlers, StoreTrade(h)
  PROVE  LifeOK'
<1>1. CreatorOK(h) /\ TargetOK(h) /\ EventOK(h)
  BY DEF LifeOK, TypeInv, FrameOK
<1>2. /\ call'[h].event = call[h].event /\ call'[h].subject = call[h].subject
      /\ call'[h].settling = "BUY" /\ call'[h].top = call[h].top
  BY SetSettling DEF StoreTrade, TypeInv, Sides
<1>3. pc'[h] \in {"checkOpen", "readForUpdate"}
  BY DEF StoreTrade, Sends, Settle, TypeInv, TypeOK
<1>4. CreatorOK(h)'
  BY <1>1, <1>2, <1>3 DEF StoreTrade, CreatorOK, Creates, Matched, Matching, Adding
<1>5. TargetOK(h)'
  BY <1>1, <1>2, <1>3 DEF StoreTrade, TargetOK, EventOK, Matching
<1>6. \A g \in Handlers \ {h} : pc'[g] = pc[g] /\ call'[g] = call[g]
  BY DEF StoreTrade, Sends, TypeInv, TypeOK
<1> QED
  BY <1>2, <1>4, <1>5, <1>6, LifeLocalStep DEF StoreTrade, Creates

\* Clients can only name orders they know.
LEMMA LifeRequestTarget ==
  ASSUME TypeInv, LifeOK, NEW h \in Handlers, RequestMatch(h) \/ \E o \in Orders : RequestCancel(h, o) \/ RequestFill(h, o)
  PROVE  LifeOK'
<1>1. call[h] = NoCall /\ call[h] \in CallType
  BY DEF RequestMatch, RequestCancel, RequestFill, TypeInv, TypeOK, FrameOK, EventOK
<1>2. /\ call'[h].event \in {"matchTopOrders", "cancelOrder", "fillOrder"}
      /\ call'[h].event # "matchTopOrders" => Known(call'[h].subject)
      /\ call'[h].settling = "none" /\ call'[h].top = NoCall.top
      /\ pc'[h] = IF call'[h].event = "matchTopOrders" THEN "rankBids"
                  ELSE IF call'[h].event = "cancelOrder" THEN "readForStatus" ELSE "checkOpen"
  BY <1>1, NoCallFields DEF RequestMatch, RequestCancel, RequestFill, Sends, TypeInv, TypeOK, CallType
<1>3. UNCHANGED <<redis, placed, listed, told>>
      /\ \A g \in Handlers \ {h} : pc'[g] = pc[g] /\ call'[g] = call[g]
  BY DEF RequestMatch, RequestCancel, RequestFill, Sends, TypeInv, TypeOK
<1>4. CreatorOK(h)' /\ TargetOK(h)'
  BY <1>2, <1>3, NoCallFields DEF CreatorOK, Creates, TargetOK, Known
<1> QED
  BY <1>2, <1>3, <1>4, LifeLocalStep DEF Creates, redis

\* A createOrder that settles a trade of two other orders has stored nothing yet.
LEMMA ChangingCreator ==
  ASSUME TypeInv, LifeOK, NEW h \in Handlers, pc[h] \in Changing,
         pc'[h] \in Changing \cup {"respond", "respondError"},
         call'[h].event = call[h].event, call'[h].subject = call[h].subject,
         Matched(h)' = Matched(h),
         UNCHANGED <<placed, listed, told>>,
         \A o \in Orders \ listed : order'[o] = order[o],
         \A g \in Handlers \ {h} : pc'[g] = pc[g] /\ call'[g] = call[g]
  PROVE  CreatorOK(h)'
<1>1. CreatorOK(h) /\ EventOK(h)
  BY DEF LifeOK, TypeInv, FrameOK
<1> SUFFICES ASSUME NEW o \in Orders, Creates(h, o)
             PROVE  /\ \A g \in Handlers : Creates(g, o)' => g = h
                    /\ [event |-> "orderCreated", orderId |-> o] \notin told'
                    /\ o \notin listed' /\ Matched(h)' /\ order'[o] = NoOrder
  BY DEF CreatorOK, Creates, Changing, Adding, Matching
<1>2. Matched(h) /\ o \notin listed /\ order[o] = NoOrder
  BY <1>1 DEF CreatorOK, Creates, EventOK, Changing
<1>3. \A g \in Handlers : Creates(g, o)' => g = h
  BY <1>1 DEF CreatorOK, Creates
<1> QED
  BY <1>1, <1>2, <1>3 DEF CreatorOK

\* Going on to the other side, or to the answer, keeps what the handler is about.
LEMMA ContinueKeeps ==
  ASSUME TypeInv, NEW h \in Handlers, Continue(h)
  PROVE  /\ call'[h].event = call[h].event /\ call'[h].subject = call[h].subject
         /\ call'[h].top = call[h].top
         /\ Matched(h)' = Matched(h)
         /\ pc'[h] \in {"checkOpen", "readForUpdate", "respond"}
         /\ pc'[h] # "respond" => Matched(h)
         /\ pc'[h] = "respond" => call[h].settling # "BUY"
         /\ \A g \in Handlers \ {h} : pc'[g] = pc[g] /\ call'[g] = call[g]
<1>1. call[h] \in CallType
  BY DEF TypeInv, TypeOK
<1>2. CASE call[h].settling = "BUY"
  BY <1>1, <1>2 DEF Continue, Sends, Settle, Matched, TypeInv, TypeOK, CallType
<1>3. CASE call[h].settling # "BUY"
  BY <1>1, <1>3 DEF Continue, Sends, Settle, Matched, TypeInv, TypeOK, CallType
<1> QED
  BY <1>2, <1>3

\* Once a target is dealt with the handler holds no copy to write back.
LEMMA ContinueTarget ==
  ASSUME TypeInv, LifeOK, NEW h \in Handlers, pc[h] \in Changing, Continue(h),
         UNCHANGED <<placed, listed, told>>
  PROVE  TargetOK(h)'
<1>1. TargetOK(h) /\ EventOK(h)
  BY DEF LifeOK, TypeInv, FrameOK
<1> QED
  BY <1>1, ContinueKeeps DEF TargetOK, Known

\* A step that only goes on to the other side of the trade, or to the answer.
LEMMA LifeContinue ==
  ASSUME TypeInv, LifeOK, NEW h \in Handlers, pc[h] \in Changing, Continue(h),
         UNCHANGED <<redis, placed, listed, told, faults>>
  PROVE  LifeOK'
<1>1. CreatorOK(h)'
  BY ContinueKeeps, ChangingCreator DEF Changing, redis
<1>2. TargetOK(h)'
  BY ContinueTarget
<1> QED
  BY <1>1, <1>2, ContinueKeeps, LifeLocalStep DEF Creates, redis

\* An order that is stored has been listed, if it is not a creator's own.
LEMMA KnownIsListed ==
  ASSUME LifeOK, NEW o \in Orders, Known(o), order[o] # NoOrder
  PROVE  o \in listed
  BY DEF LifeOK, OrdersOK, Known

\* What a handler is about to change has been listed, if it exists at all.
LEMMA TargetIsListed ==
  ASSUME TypeInv, LifeOK, NEW h \in Handlers, pc[h] \in Changing, order[Target(h)] # NoOrder
  PROVE  /\ Target(h) \in Orders /\ Target(h) \in listed
         /\ order[Target(h)] \in OrderType
         /\ order[Target(h)].side = placed[Target(h)].side
<1>1. Target(h) \in Orders /\ order[Target(h)] \in OrderType
  BY TargetType DEF TypeInv, TypeOK
<1>2. EventOK(h) /\ TopOK(h) /\ TargetOK(h) /\ OrdersOK
  BY DEF LifeOK, TypeInv, FrameOK
<1>3. Target(h) \in listed
  <2>1. CASE call[h].event \in {"cancelOrder", "fillOrder"}
    BY <1>1, <1>2, <2>1, KnownIsListed DEF Target, TargetOK
  <2>2. CASE call[h].event \notin {"cancelOrder", "fillOrder"}
    <3>1. Matched(h) /\ call[h].settling \in Sides
      BY <1>2, <2>2 DEF EventOK, Changing, Matched, TypeInv, TypeOK, CallType, IncomingEvents
    <3>2. call[h].top[call[h].settling] # NoEntry
      BY <1>2, <3>1 DEF TopOK, Crosses, Sides
    <3> QED
      BY <1>2, <2>2, <3>1, <3>2 DEF Target, TargetOK
  <2> QED
    BY <2>1, <2>2
<1> QED
  BY <1>1, <1>2, <1>3 DEF OrdersOK

\* fillOrder's check: an order found OPEN has been listed.
LEMMA LifeCheckOpen ==
  ASSUME TypeInv, LifeOK, NEW h \in Handlers, CheckOpen(h)
  PROVE  LifeOK'
<1>1. TargetOK(h) /\ EventOK(h)
  BY DEF LifeOK, TypeInv, FrameOK
<1>2. CASE Continue(h)
  BY <1>2, LifeContinue DEF CheckOpen, Changing
<1>3. CASE /\ UNCHANGED call
           /\ \/ order[Target(h)] # NoOrder /\ Sends(h, "readForStatus")
              \/ Sends(h, "respondError")
  <2>1. /\ pc'[h] \in {"readForStatus", "respondError"}
        /\ \A g \in Handlers \ {h} : pc'[g] = pc[g] /\ call'[g] = call[g]
    BY <1>3 DEF Sends, TypeInv, TypeOK
  <2>2. UNCHANGED <<redis, placed, listed, told, call>> /\ pc[h] \in Changing
    BY <1>3 DEF CheckOpen, Changing
  <2>3. CreatorOK(h)'
    BY <2>1, <2>2, ChangingCreator DEF Changing, Matched, redis
  <2>4. pc'[h] = "readForStatus" /\ call[h].event = "fillOrder" => call[h].subject \in listed
    BY <1>3, <2>2, TargetIsListed DEF Sends, Target, TypeInv, TypeOK
  <2>5. TargetOK(h)'
    BY <1>1, <2>1, <2>2, <2>4 DEF TargetOK, Known
  <2> QED
    BY <2>1, <2>2, <2>3, <2>5, LifeLocalStep DEF Creates, redis
<1> QED
  BY <1>2, <1>3 DEF CheckOpen

\* getOrder of setOrderStatus: an order found has been listed.
LEMMA LifeReadForStatus ==
  ASSUME TypeInv, LifeOK, NEW h \in Handlers, ReadForStatus(h)
  PROVE  LifeOK'
<1>1. TargetOK(h) /\ EventOK(h) /\ pc[h] \in Changing
  BY DEF LifeOK, TypeInv, FrameOK, ReadForStatus, Changing
<1> DEFINE stored == order[Target(h)]
           status == IF call[h].event = "cancelOrder" THEN "CANCELLED" ELSE "FILLED"
<1>2. CASE Continue(h)
  BY <1>1, <1>2, LifeContinue DEF ReadForStatus
<1>3. CASE stored = NoOrder /\ call[h].event = "cancelOrder"
  <2>1. UNCHANGED <<redis, placed, listed, told, call>> /\ Sends(h, "respondError")
    BY <1>3 DEF ReadForStatus
  <2>2. /\ pc'[h] = "respondError"
        /\ \A g \in Handlers \ {h} : pc'[g] = pc[g] /\ call'[g] = call[g]
    BY <2>1 DEF Sends, TypeInv, TypeOK
  <2>3. CreatorOK(h)'
    BY <1>1, <2>1, <2>2, ChangingCreator DEF Changing, Matched, redis
  <2>4. TargetOK(h)'
    BY <1>1, <2>1, <2>2 DEF TargetOK, Known
  <2> QED
    BY <2>1, <2>2, <2>3, <2>4, LifeLocalStep DEF Creates, redis
<1>4. CASE stored # NoOrder
  <2>1. Target(h) \in listed /\ stored \in OrderType /\ stored.side = placed[Target(h)].side
    BY <1>1, <1>4, TargetIsListed
  <2> DEFINE read == [stored EXCEPT !.status = status]
  <2>2. read \in OrderType /\ read.side = placed[Target(h)].side
    BY <2>1 DEF OrderType, TradeStatuses
  <2>3. call' = [call EXCEPT ![h].read = read] /\ Sends(h, "removeOrder")
        /\ UNCHANGED <<redis, placed, listed, told>>
    BY <1>4 DEF ReadForStatus, LeavesBook
  <2> HIDE DEF read
  <2>4. /\ call'[h].event = call[h].event /\ call'[h].subject = call[h].subject
        /\ call'[h].settling = call[h].settling /\ call'[h].top = call[h].top
        /\ call'[h].read = read
    BY <2>2, <2>3, SetRead DEF TypeInv
  <2>5. /\ pc'[h] = "removeOrder"
        /\ \A g \in Handlers \ {h} : pc'[g] = pc[g] /\ call'[g] = call[g]
    BY <2>3 DEF Sends, TypeInv, TypeOK
  <2>6. CreatorOK(h)'
    BY <1>1, <2>3, <2>4, <2>5, ChangingCreator DEF Changing, Matched, redis
  <2>7. Target(h)' = Target(h)
    BY <2>4 DEF Target
  <2>8. TargetOK(h)'
    BY <1>1, <2>1, <2>2, <2>3, <2>4, <2>5, <2>7 DEF TargetOK, Known
  <2> QED
    BY <2>3, <2>4, <2>5, <2>6, <2>8, LifeLocalStep DEF Creates, redis
<1> QED
  BY <1>2, <1>3, <1>4 DEF ReadForStatus

\* getOrder of updateOrder: an order found closed is out of the book, and will
\* still be when this copy is written back.
LEMMA LifeReadForUpdate ==
  ASSUME TypeInv, LifeOK, NEW h \in Handlers, ReadForUpdate(h)
  PROVE  LifeOK'
<1>1. TargetOK(h) /\ EventOK(h) /\ TopOK(h) /\ pc[h] \in Changing /\ BookedOrdersAreOpen
  BY DEF LifeOK, TypeInv, FrameOK, ReadForUpdate, Changing
<1> DEFINE stored == order[Target(h)]
           left == Remaining(h, call[h].settling)
<1>2. CASE Continue(h)
  BY <1>1, <1>2, LifeContinue DEF ReadForUpdate
<1>3. CASE stored # NoOrder
  <2>1. Target(h) \in listed /\ stored \in OrderType /\ stored.side = placed[Target(h)].side
    BY <1>1, <1>3, TargetIsListed
  <2>2. left \in Quantities
    BY <1>1, MatchArithmetic DEF ReadForUpdate, TopOK, Matched, TypeInv, TypeOK, CallType, Quantities
  <2>3. stored.status # "OPEN" => ~InBook(Target(h))
    BY <1>1 DEF BookedOrdersAreOpen, InBook
  <2> DEFINE read == [stored EXCEPT !.quantity = left]
  <2>4. read \in OrderType /\ read.side = placed[Target(h)].side /\ read.status = stored.status
    BY <2>1, <2>2 DEF OrderType
  <2>5. call' = [call EXCEPT ![h].read = read] /\ Sends(h, "saveUpdate")
        /\ UNCHANGED <<redis, placed, listed, told>>
    BY <1>3 DEF ReadForUpdate
  <2> HIDE DEF read
  <2>6. /\ call'[h].event = call[h].event /\ call'[h].subject = call[h].subject
        /\ call'[h].settling = call[h].settling /\ call'[h].top = call[h].top
        /\ call'[h].read = read
    BY <2>4, <2>5, SetRead DEF TypeInv
  <2>7. /\ pc'[h] = "saveUpdate"
        /\ \A g \in Handlers \ {h} : pc'[g] = pc[g] /\ call'[g] = call[g]
    BY <2>5 DEF Sends, TypeInv, TypeOK
  <2>8. CreatorOK(h)'
    BY <1>1, <2>5, <2>6, <2>7, ChangingCreator DEF Changing, Matched, redis
  <2>9. Target(h)' = Target(h)
    BY <2>6 DEF Target
  <2>10. TargetOK(h)'
    BY <1>1, <2>1, <2>3, <2>4, <2>5, <2>6, <2>7, <2>9 DEF TargetOK, Known, InBook, redis
  <2> QED
    BY <2>5, <2>6, <2>7, <2>8, <2>10, LifeLocalStep DEF Creates, redis
<1> QED
  BY <1>2, <1>3 DEF ReadForUpdate

\* ZREM of setOrderStatus: the order is on no side of the book afterwards.
LEMMA LifeRemoveOrder ==
  ASSUME TypeInv, LifeOK, NEW h \in Handlers, RemoveOrder(h)
  PROVE  LifeOK'
<1> DEFINE o == Target(h)
<1>1. TargetOK(h) /\ OrdersOK /\ BookedOrdersAreOpen /\ pc[h] \in Changing
  BY DEF LifeOK, RemoveOrder, Changing
<1>2. UNCHANGED <<order, placed, listed, told, call>>
      /\ pc'[h] = "saveStatus"
      /\ \A g \in Handlers \ {h} : pc'[g] = pc[g] /\ call'[g] = call[g]
  BY DEF RemoveOrder, Sends, TypeInv, TypeOK
<1>3. /\ o \in listed /\ call[h].read.side \in Sides /\ call[h].read.side = placed[o].side
      /\ order[o] # NoOrder => order[o].side = placed[o].side
  BY <1>1 DEF RemoveOrder, TargetOK, OrdersOK, TypeInv, TypeOK, CallType, OrderType, FrameOK, ReadOK
<1>4. \A s \in Sides : Members(book'[s]) =
        IF s = call[h].read.side THEN Members(book[s]) \ {o} ELSE Members(book[s])
  BY <1>3 DEF RemoveOrder, ZRem, SortedSet, Members, TypeInv, TypeOK
<1>5. o' = o
  BY <1>2 DEF Target
<1>6. ~InBook(o)' /\ \A p : InBook(p)' => InBook(p)
  <2>1. \A s \in Sides : o \in Members(book[s]) => s = call[h].read.side
    BY <1>1, <1>3 DEF BookedOrdersAreOpen
  <2>2. \A s \in Sides : o \notin Members(book'[s])
    BY <1>4, <2>1
  <2>3. \A p : InBook(p)' => InBook(p)
    BY <1>4 DEF InBook
  <2> QED
    BY <1>5, <2>2, <2>3 DEF InBook
<1>7. CreatorOK(h)'
  BY <1>1, <1>2, ChangingCreator DEF Changing, Matched
<1>8. TargetOK(h)'
  BY <1>1, <1>2, <1>6, <1>5 DEF TargetOK, RemoveOrder, Known
<1>9. OrdersOK'
  BY <1>1, <1>2, <1>6 DEF OrdersOK
<1>10. BookedOrdersAreOpen'
  BY <1>1, <1>2, <1>4 DEF BookedOrdersAreOpen
<1>11. Interferes(h)
  BY <1>2, <1>6 DEF Interferes, Creates
<1> QED
  BY <1>7, <1>8, <1>9, <1>10, <1>11, LifeStep

\* Writing an order back whole: what it says of the book must still be so.
LEMMA LifeSave ==
  ASSUME TypeInv, LifeOK, NEW h \in Handlers, SaveStatus(h) \/ SaveUpdate(h)
  PROVE  LifeOK'
<1> DEFINE o == Target(h)
           read == call[h].read
<1>1. TargetOK(h) /\ OrdersOK /\ BookedOrdersAreOpen /\ pc[h] \in Changing
  BY DEF LifeOK, SaveStatus, SaveUpdate, Changing
<1>2. /\ UNCHANGED <<book, placed, listed, told>> /\ Continue(h)
      /\ order' = [order EXCEPT ![o] = read]
      /\ pc[h] \in {"saveStatus", "saveUpdate"}
  BY DEF SaveStatus, SaveUpdate
<1>3. /\ o \in listed /\ o \in Orders /\ read \in OrderType /\ read # NoOrder
      /\ read.side = placed[o].side
      /\ read.status # "OPEN" => ~InBook(o)
      /\ placed[o] # NoOrder
  <2>1. pc[h] = "saveStatus" => ~InBook(o)
    BY <1>1 DEF TargetOK
  <2>2. read \in OrderType /\ read # NoOrder
    BY <1>2, NoOrderAssumption DEF TypeInv, TypeOK, CallType, FrameOK, ReadOK
  <2>3. o \in listed /\ o \in Orders /\ read.side = placed[o].side
    BY <1>1, <1>2 DEF TargetOK, TypeInv, TypeOK
  <2> QED
    BY <1>1, <1>2, <2>1, <2>2, <2>3 DEF TargetOK, OrdersOK
<1> HIDE DEF o, read
<1>4. order'[o] = read /\ \A p \in Orders \ {o} : order'[p] = order[p]
  BY <1>2, <1>3 DEF TypeInv, TypeOK
<1>5. \A p : InBook(p)' <=> InBook(p)
  BY <1>2 DEF InBook
<1>6. CreatorOK(h)'
  BY <1>1, <1>2, <1>3, <1>4, ContinueKeeps, ChangingCreator DEF Changing
<1>7. TargetOK(h)'
  BY <1>1, <1>2, ContinueTarget
<1>8. OrdersOK'
  <2> SUFFICES ASSUME NEW p \in Orders
               PROVE  /\ p \in listed' => order'[p] # NoOrder
                      /\ [event |-> "orderCreated", orderId |-> p] \in told' /\ p \notin listed'
                           => order'[p] = NoOrder
                      /\ InBook(p)' => p \in listed'
                      /\ order'[p] # NoOrder => placed'[p] # NoOrder /\ order'[p].side = placed'[p].side
                      /\ placed'[p] # NoOrder => placed'[p].status = "OPEN"
                      /\ placed'[p] = NoOrder => \A a \in told' : a.orderId # p
    BY DEF OrdersOK
  <2>1. CASE p = o
    BY <1>1, <1>2, <1>3, <1>4, <1>5, <2>1 DEF OrdersOK
  <2>2. CASE p # o
    BY <1>1, <1>2, <1>4, <1>5, <2>2 DEF OrdersOK
  <2> QED
    BY <2>1, <2>2
<1>9. BookedOrdersAreOpen'
  <2> SUFFICES ASSUME NEW s \in Sides, NEW p \in Members(book[s])
               PROVE  order'[p] # NoOrder /\ order'[p].status = "OPEN" /\ order'[p].side = s
    BY <1>2 DEF BookedOrdersAreOpen
  <2>1. /\ p \in Orders /\ InBook(p)
        /\ order[p] # NoOrder /\ order[p].status = "OPEN" /\ order[p].side = s
    BY <1>1 DEF BookedOrdersAreOpen, InBook, Members, SortedSet, TypeInv, TypeOK
  <2>2. CASE p = o
    BY <1>1, <1>3, <1>4, <2>1, <2>2 DEF OrdersOK
  <2>3. CASE p # o
    BY <1>4, <2>1, <2>3
  <2> QED
    BY <2>2, <2>3
<1>10. Interferes(h)
  BY <1>2, <1>3, <1>4, <1>5, ContinueKeeps DEF Interferes, Creates
<1> QED
  BY <1>6, <1>7, <1>8, <1>9, <1>10, LifeStep

\* HSET of addOrder: the order is stored, and still its creator's own.
LEMMA LifeSaveOrder ==
  ASSUME TypeInv, LifeOK, NEW h \in Handlers, SaveOrder(h)
  PROVE  LifeOK'
<1> DEFINE o == call[h].subject
<1>1. CreatorOK(h) /\ TargetOK(h) /\ EventOK(h) /\ OrdersOK /\ BookedOrdersAreOpen
  BY DEF LifeOK, TypeInv, FrameOK
<1>2. /\ o \in Orders /\ placed[o] # NoOrder /\ Creates(h, o)
      /\ o \notin listed /\ [event |-> "orderCreated", orderId |-> o] \notin told
      /\ call[h].settling = "none"
  BY <1>1 DEF SaveOrder, EventOK, Adding, Creates, CreatorOK, Matched
<1>3. /\ call'[h].event = "createOrder" /\ call'[h].subject = o
      /\ call'[h].settling = "none"
      /\ \A s \in Sides : call'[h].top[s] # NoEntry => call'[h].top[s] = call[h].top[s]
  <2>1. call[h] \in CallType
    BY DEF TypeInv, TypeOK
  <2> QED
    BY <1>1, <1>2, <2>1, NoCallFields DEF SaveOrder, EventOK, Adding, TypeInv, TypeOK, CallType
<1>4. /\ pc'[h] \in {"addToBook", "rankOpposite"}
      /\ UNCHANGED <<book, placed, listed, told>>
      /\ \A g \in Handlers \ {h} : pc'[g] = pc[g] /\ call'[g] = call[g]
  BY DEF SaveOrder, Sends, TypeInv, TypeOK
<1>5. order' = [order EXCEPT ![o] = placed[o]]
  BY DEF SaveOrder
<1> HIDE DEF o
<1>6. order'[o] = placed[o] /\ \A p \in Orders \ {o} : order'[p] = order[p]
  BY <1>2, <1>5 DEF TypeInv, TypeOK
<1>7. \A p : InBook(p)' <=> InBook(p)
  BY <1>4 DEF InBook
<1>8. CreatorOK(h)'
  BY <1>1, <1>2, <1>3, <1>4, <1>6 DEF CreatorOK, Creates, Matched, Adding, Matching
<1>9. TargetOK(h)'
  BY <1>1, <1>3, <1>4 DEF TargetOK
<1>10. OrdersOK'
  BY <1>1, <1>2, <1>4, <1>6, <1>7 DEF OrdersOK
<1>11. BookedOrdersAreOpen'
  <2> SUFFICES ASSUME NEW s \in Sides, NEW p \in Members(book[s])
               PROVE  order'[p] = order[p]
    BY <1>1, <1>4 DEF BookedOrdersAreOpen
  <2>1. p \in Orders /\ InBook(p)
    BY DEF InBook, Members, SortedSet, TypeInv, TypeOK
  <2> QED
    BY <1>1, <1>2, <1>6, <2>1 DEF OrdersOK
<1>12. Interferes(h)
  BY <1>2, <1>3, <1>4, <1>6, <1>7 DEF Interferes, Creates
<1> QED
  BY <1>8, <1>9, <1>10, <1>11, <1>12, LifeStep

\* Finding a price for a resting MARKET order.
LEMMA LifePrice ==
  ASSUME TypeInv, LifeOK, NEW h \in Handlers,
         RankOpposite(h) \/ ReadOpposite(h) \/ ReadLastTrade(h)
  PROVE  LifeOK'
<1>1. CreatorOK(h) /\ TargetOK(h) /\ EventOK(h) /\ TopOK(h) /\ call[h] \in CallType
  BY DEF LifeOK, TypeInv, FrameOK, TypeOK
<1>2. UNCHANGED <<redis, placed, listed, told, faults>>
      /\ pc[h] \in {"rankOpposite", "readOpposite", "readLastTrade"}
  BY DEF RankOpposite, ReadOpposite, ReadLastTrade
<1>3. CASE Throws(h)
  BY <1>2, <1>3, LifeReset
<1>4. CASE /\ call'[h].event = call[h].event /\ call'[h].subject = call[h].subject
           /\ call'[h].settling = call[h].settling
           /\ \A s \in Sides : call'[h].top[s] # NoEntry => call'[h].top[s].orderId \in listed
           /\ pc'[h] \in {"readOpposite", "readLastTrade", "addToBook"}
           /\ \A g \in Handlers \ {h} : pc'[g] = pc[g] /\ call'[g] = call[g]
  <2>1. CreatorOK(h)'
    BY <1>1, <1>2, <1>4 DEF CreatorOK, Creates, Matched, Adding, Matching, redis
  <2>2. TargetOK(h)'
    BY <1>1, <1>2, <1>4 DEF TargetOK, Known
  <2> QED
    BY <1>2, <1>4, <2>1, <2>2, LifeLocalStep DEF Creates, redis
<1>5. CASE RankOpposite(h)
  <2> DEFINE side == Opposite(placed[call[h].subject].side)
  <2>1. side \in Sides
    BY <1>2, CreatorType DEF Adding
  <2> HIDE DEF side
  <2>2. CASE UNCHANGED call /\ Sends(h, "readLastTrade")
    BY <1>1, <1>4, <2>2 DEF Sends, TargetOK, TypeInv, TypeOK
  <2>3. ASSUME NEW o \in Orders, IsTop(side, o), Sends(h, "readOpposite"),
               call' = [call EXCEPT ![h].top = [@ EXCEPT ![side] = Ranked(side, o)]]
        PROVE  LifeOK'
    <3> DEFINE top == [call[h].top EXCEPT ![side] = Ranked(side, o)]
    <3>1. /\ top[side].orderId = o
          /\ top \in [Sides -> EntryType \cup {NoEntry}]
          /\ \A t \in Sides \ {side} : top[t] = call[h].top[t]
      BY <2>1, <2>3, RankedTop DEF Ranked
    <3>2. call' = [call EXCEPT ![h].top = top]
      BY <2>3
    <3> HIDE DEF top
    <3>3. /\ call'[h].event = call[h].event /\ call'[h].subject = call[h].subject
          /\ call'[h].settling = call[h].settling /\ call'[h].top = top
      BY <3>1, <3>2, SetTop DEF TypeInv
    <3>4. \A s \in Sides : call'[h].top[s] # NoEntry => call'[h].top[s].orderId \in listed
      BY <1>1, <2>1, <2>3, <3>1, <3>3, TopIsListed DEF TargetOK
    <3> QED
      BY <1>4, <2>3, <3>2, <3>3, <3>4 DEF Sends, TypeInv, TypeOK
  <2> QED
    BY <1>5, <2>2, <2>3 DEF RankOpposite, side
<1>6. CASE ReadOpposite(h) /\ ~Throws(h)
  <2> DEFINE price == call[h].top[Opposite(placed[call[h].subject].side)].price
  <2>1. price \in Prices
    BY <1>1, <1>6, CreatorType DEF ReadOpposite, Adding, TopOK, CallType, EntryType
  <2>2. call' = [call EXCEPT ![h].price = price, ![h].top = NoCall.top] /\ Sends(h, "addToBook")
    BY <1>6 DEF ReadOpposite
  <2> HIDE DEF price
  <2>3. /\ call'[h].event = call[h].event /\ call'[h].subject = call[h].subject
        /\ call'[h].settling = call[h].settling
        /\ call'[h].top \in {call[h].top, NoCall.top}
    BY <2>1, <2>2, SetPrice DEF TypeInv
  <2> QED
    BY <1>1, <1>4, <2>2, <2>3, NoCallFields DEF Sends, TargetOK, TypeInv, TypeOK
<1>7. CASE ReadLastTrade(h)
  <2>1. PICK price : call' = [call EXCEPT ![h].price = price]
    BY <1>7 DEF ReadLastTrade
  <2>2. /\ call'[h].event = call[h].event /\ call'[h].subject = call[h].subject
        /\ call'[h].settling = call[h].settling /\ call'[h].top = call[h].top
        /\ \A g \in Handlers \ {h} : call'[g] = call[g]
    BY <1>1, <2>1 DEF TypeInv, TypeOK, CallType
  <2> QED
    BY <1>1, <1>4, <1>7, <2>2 DEF ReadLastTrade, Sends, TargetOK, TypeInv, TypeOK
<1> QED
  BY <1>3, <1>5, <1>6, <1>7

\* ZADD of addOrder: from here on others can name the order.
LEMMA LifeAddToBook ==
  ASSUME TypeInv, LifeOK, NEW h \in Handlers, AddToBook(h)
  PROVE  LifeOK'
<1> DEFINE o == call[h].subject
           side == placed[o].side
           score == ScoreOf(side, call[h].price)
<1>1. CreatorOK(h) /\ TargetOK(h) /\ EventOK(h) /\ OrdersOK /\ BookedOrdersAreOpen
  BY DEF LifeOK, TypeInv, FrameOK
<1>2. /\ o \in Orders /\ placed[o] # NoOrder /\ Creates(h, o) /\ o \notin listed
      /\ order[o] = placed[o] /\ placed[o].status = "OPEN" /\ side \in Sides
      /\ [event |-> "orderCreated", orderId |-> o] \notin told
      /\ call[h].event = "createOrder" /\ ~Matched(h)
  BY <1>1, CreatorType DEF AddToBook, EventOK, Adding, Creates, CreatorOK, OrdersOK
<1>3. /\ UNCHANGED <<order, placed, told, call>> /\ listed' = listed \cup {o}
      /\ pc'[h] = "respond"
      /\ \A g \in Handlers \ {h} : pc'[g] = pc[g] /\ call'[g] = call[g]
  BY DEF AddToBook, Sends, TypeInv, TypeOK
<1>4. score \in Int
  BY <1>2 DEF ScoreOf, Prices, TypeInv, TypeOK, CallType
<1>5. book' = [book EXCEPT ![side] = [@ EXCEPT ![o] = score]]
  BY DEF AddToBook, ZAdd
<1>6. o' = o /\ side' = side
  BY <1>3
<1> HIDE DEF o, side, score
<1>7. \A s \in Sides : Members(book'[s]) =
        IF s = side THEN Members(book[s]) \cup {o} ELSE Members(book[s])
  BY <1>2, <1>4, <1>5, NoScoreAssumption DEF Members, SortedSet, TypeInv, TypeOK
<1>8. \A p : InBook(p)' => InBook(p) \/ p = o
  BY <1>7 DEF InBook
<1>9. CreatorOK(h)'
  BY <1>1, <1>2, <1>3 DEF CreatorOK, Creates, Matched, Adding, Matching
<1>10. TargetOK(h)'
  BY <1>1, <1>2, <1>3 DEF TargetOK, Known
<1>11. OrdersOK'
  BY <1>1, <1>2, <1>3, <1>8, NoOrderAssumption DEF OrdersOK
<1>12. BookedOrdersAreOpen'
  <2> SUFFICES ASSUME NEW s \in Sides, NEW p \in Members(book'[s])
               PROVE  order[p] # NoOrder /\ order[p].status = "OPEN" /\ order[p].side = s
    BY <1>3 DEF BookedOrdersAreOpen
  <2>1. CASE p \in Members(book[s])
    BY <1>1, <2>1 DEF BookedOrdersAreOpen
  <2>2. CASE p = o /\ s = side
    BY <1>2, <2>2 DEF side
  <2> QED
    BY <1>7, <2>1, <2>2
<1>13. Interferes(h)
  BY <1>2, <1>3, <1>8 DEF Interferes, Creates
<1> QED
  BY <1>9, <1>10, <1>11, <1>12, <1>13, LifeStep

\* The answer: an order said to be created is listed, or was never stored.
LEMMA LifeRespond ==
  ASSUME TypeInv, LifeOK, NEW h \in Handlers, Respond(h)
  PROVE  LifeOK'
<1>1. CreatorOK(h) /\ TargetOK(h) /\ EventOK(h) /\ OrdersOK /\ BookedOrdersAreOpen
  BY DEF LifeOK, TypeInv, FrameOK
<1>2. /\ UNCHANGED <<order, book, placed, listed>> /\ pc'[h] = "idle" /\ call'[h] = NoCall
      /\ \A g \in Handlers \ {h} : pc'[g] = pc[g] /\ call'[g] = call[g]
  BY DEF Respond, Sends, TypeInv, TypeOK, redis
<1>3. \A a \in told' : a \in told \/ (a.orderId = call[h].subject /\ a.event \in Answers(h))
  BY DEF Respond
<1>4. told \subseteq told'
  BY DEF Respond
<1>5. \A o : [event |-> "orderCreated", orderId |-> o] \in told' =>
        \/ [event |-> "orderCreated", orderId |-> o] \in told
        \/ o = call[h].subject /\ call[h].event = "createOrder"
  BY DEF Respond, Answers
<1>6. CreatorOK(h)' /\ TargetOK(h)'
  BY <1>2, NoCallFields DEF CreatorOK, Creates, TargetOK
<1>7. OrdersOK'
  <2> SUFFICES ASSUME NEW o \in Orders
               PROVE  /\ [event |-> "orderCreated", orderId |-> o] \in told' /\ o \notin listed
                           => order[o] = NoOrder
                      /\ placed[o] = NoOrder => \A a \in told' : a.orderId # o
    BY <1>1, <1>2 DEF OrdersOK, InBook
  <2>1. o = call[h].subject /\ call[h].event = "createOrder" /\ o \notin listed => order[o] = NoOrder
    BY <1>1 DEF Respond, CreatorOK, Creates
  <2>2. o = call[h].subject /\ Answers(h) # {} => placed[o] # NoOrder
    <3>1. CASE call[h].event = "createOrder"
      BY <1>1, <3>1 DEF EventOK
    <3>2. CASE call[h].event \in {"cancelOrder", "fillOrder"}
      BY <1>1, <3>2 DEF TargetOK, Known, OrdersOK
    <3> QED
      BY <3>1, <3>2 DEF Answers
  <2> QED
    BY <1>1, <1>3, <1>5, <2>1, <2>2 DEF OrdersOK
<1>8. BookedOrdersAreOpen'
  BY <1>1, <1>2 DEF BookedOrdersAreOpen
<1>9. Interferes(h)
  BY <1>2, <1>4, <1>5, NoCallFields DEF Interferes, Creates, InBook
<1> QED
  BY <1>6, <1>7, <1>8, <1>9, LifeStep

\* A fresh id: no one has heard of it.
LEMMA LifeRequestCreate ==
  ASSUME TypeInv, LifeOK, NEW h \in Handlers, NEW o \in Orders, NEW r \in Requests,
         RequestCreate(h, o, r)
  PROVE  LifeOK'
<1>1. OrdersOK /\ BookedOrdersAreOpen /\ call[h] = NoCall /\ call[h] \in CallType
  BY DEF RequestCreate, LifeOK, TypeInv, TypeOK, FrameOK, EventOK
<1>2. /\ call'[h].event = "createOrder" /\ call'[h].subject = o
      /\ call'[h].settling = "none" /\ call'[h].top = NoCall.top
      /\ pc'[h] \in {"saveOrder", "rankBids"}
  BY <1>1, SetRequest, NoCallFields DEF RequestCreate, Sends, TypeInv, TypeOK, IncomingEvents
<1>3. /\ UNCHANGED <<order, book, listed, told>>
      /\ \A g \in Handlers \ {h} : pc'[g] = pc[g] /\ call'[g] = call[g]
  BY DEF RequestCreate, Sends, TypeInv, TypeOK, redis
<1>4. /\ placed[o] = NoOrder /\ placed'[o].status = "OPEN" /\ placed'[o] # NoOrder
      /\ \A p \in Orders \ {o} : placed'[p] = placed[p]
  <2>1. placed[o] = NoOrder /\ \A p \in Orders \ {o} : placed'[p] = placed[p]
    BY DEF RequestCreate, TypeInv, TypeOK
  <2>2. placed'[o] = [side |-> r.side, orderType |-> r.orderType, price |-> r.price,
                      quantity |-> r.quantity, status |-> "OPEN"]
    BY DEF RequestCreate, TypeInv, TypeOK
  <2>3. placed'[o] \in OrderType
    BY <2>2, OrderMatchingAssumption DEF RequestType, OrderType, OrderTypes, TradeStatuses
  <2> QED
    BY <2>1, <2>2, <2>3, NoOrderAssumption
<1>5. /\ o \notin listed /\ order[o] = NoOrder
      /\ [event |-> "orderCreated", orderId |-> o] \notin told
      /\ \A g \in Handlers : ~Creates(g, o)
  BY <1>1, <1>4 DEF OrdersOK, Creates, TypeInv, FrameOK, EventOK
<1>6. CreatorOK(h)'
  BY <1>2, <1>3, <1>5 DEF CreatorOK, Creates, Matched, Matching, Adding
<1>7. TargetOK(h)'
  BY <1>2, NoCallFields DEF TargetOK
<1>8. OrdersOK'
  <2> SUFFICES ASSUME NEW p \in Orders
               PROVE  /\ order[p] # NoOrder => placed'[p] # NoOrder /\ order[p].side = placed'[p].side
                      /\ placed'[p] # NoOrder => placed'[p].status = "OPEN"
                      /\ placed'[p] = NoOrder => \A a \in told : a.orderId # p
    BY <1>1, <1>3 DEF OrdersOK, InBook
  <2>1. CASE p = o
    BY <1>4, <1>5, <2>1
  <2>2. CASE p # o
    BY <1>1, <1>4, <2>2 DEF OrdersOK
  <2> QED
    BY <2>1, <2>2
<1>9. BookedOrdersAreOpen'
  BY <1>1, <1>3 DEF BookedOrdersAreOpen
<1>10. Interferes(h)
  BY <1>2, <1>3, <1>4 DEF Interferes, Creates, InBook
<1> QED
  BY <1>6, <1>7, <1>8, <1>9, <1>10, LifeStep

\* An empty Redis and no handler in flight.
LEMMA LifeInit == Init => LifeOK
<1> SUFFICES ASSUME Init
             PROVE  LifeOK
  OBVIOUS
<1>1. \A h \in Handlers : call[h] = NoCall /\ pc[h] = "idle"
  BY DEF Init
<1>2. \A h \in Handlers : CreatorOK(h) /\ TargetOK(h)
  BY <1>1, NoCallFields DEF CreatorOK, Creates, TargetOK
<1>3. \A s \in Sides : Members(book[s]) = {}
  BY DEF Init, Members, EmptySortedSet
<1> QED
  BY <1>2, <1>3 DEF Init, LifeOK, OrdersOK, BookedOrdersAreOpen, InBook

\* Every step of every handler keeps the invariant.
LEMMA LifeNext == TypeInv /\ LifeOK /\ [Next]_vars => LifeOK'
<1> SUFFICES ASSUME TypeInv, LifeOK, [Next]_vars
             PROVE  LifeOK'
  OBVIOUS
<1>1. CASE UNCHANGED vars
  BY <1>1 DEF vars, redis, LifeOK, CreatorOK, Creates, TargetOK, Target, Matched, Known, OrdersOK,
    InBook, BookedOrdersAreOpen
<1>2. ASSUME NEW h \in Handlers, Request(h)
      PROVE  LifeOK'
  BY <1>2, LifeRequestCreate, LifeRequestTarget DEF Request
<1>3. ASSUME NEW h \in Handlers, Run(h) \/ Fail(h)
      PROVE  LifeOK'
  <2>1. CASE RespondError(h) \/ Fail(h)
    BY <2>1, LifeReset DEF RespondError, Fail, Throws
  <2> QED
    BY <1>3, <2>1, LifeRank, LifeRead, LifeStoreTrade, LifeCheckOpen, LifeReadForStatus,
      LifeRemoveOrder, LifeSave, LifeReadForUpdate, LifeSaveOrder, LifePrice, LifeAddToBook,
      LifeRespond DEF Run
<1> QED
  BY <1>1, <1>2, <1>3 DEF Next

\* In every reachable state an order is its creator's own until it is in the book,
\* and what any handler sets out to write back has been in the book, whatever the
\* interleaving of createOrder, matchTopOrders, cancelOrder and fillOrder.
THEOREM LifeAlways == Spec => [](TypeInv /\ LifeOK)
<1>1. Init => TypeInv /\ LifeOK
  BY TypeInvInit, LifeInit
<1>2. (TypeInv /\ LifeOK) /\ [Next]_vars => (TypeInv /\ LifeOK)'
  BY TypeInvStep, LifeNext
<1> QED
  BY <1>1, <1>2, PTL DEF Spec

\* However handlers interleave and fail between the commands of addOrder,
\* setOrderStatus and updateOrder, an order that can be ranked exists, is OPEN and
\* is on its own side of the book.
THEOREM BookedAlwaysOpen == Spec => []BookedOrdersAreOpen
<1>1. TypeInv /\ LifeOK => BookedOrdersAreOpen
  BY DEF LifeOK
<1> QED
  BY <1>1, LifeAlways, PTL

\* Only two commands change the book: one removes, the other adds the order of
\* its own createOrder.
LEMMA EntersFromCreator ==
  ASSUME TypeInv, [Next]_vars, NEW o, ~InBook(o), InBook(o)'
  PROVE  \E h \in Handlers : pc[h] = "addToBook" /\ Creates(h, o)
<1>1. CASE book' = book
  BY <1>1 DEF InBook
<1>2. ASSUME NEW h \in Handlers, RemoveOrder(h)
      PROVE  FALSE
  <2>1. call[h].read.side \in Sides /\ Target(h) \in Orders
    BY <1>2, TargetType DEF RemoveOrder, Changing, TypeInv, TypeOK, CallType, OrderType, FrameOK, ReadOK
  <2>2. \A s \in Sides : Members(book'[s]) \subseteq Members(book[s])
    BY <1>2, <2>1 DEF RemoveOrder, ZRem, SortedSet, Members, TypeInv, TypeOK
  <2> QED
    BY <2>2 DEF InBook
<1>3. ASSUME NEW h \in Handlers, AddToBook(h)
      PROVE  pc[h] = "addToBook" /\ Creates(h, o)
  <2>1. /\ pc[h] = "addToBook" /\ Creates(h, call[h].subject)
        /\ placed[call[h].subject].side \in Sides
    BY <1>3, CreatorType DEF AddToBook, Adding, Creates, TypeInv, FrameOK, EventOK
  <2>2. \A s \in Sides : Members(book'[s]) \subseteq Members(book[s]) \cup {call[h].subject}
    BY <1>3, <2>1 DEF AddToBook, ZAdd, SortedSet, Members, TypeInv, TypeOK
  <2> QED
    BY <2>1, <2>2 DEF InBook
<1> QED
  BY <1>1, <1>2, <1>3 DEF Next, Request, Run, RequestCreate, RequestMatch, RequestCancel,
    RequestFill, RankBids, RankAsks, ReadBid, ReadAsk, ReadRanked, StoreTrade, CheckOpen,
    ReadForStatus, SaveStatus, ReadForUpdate, SaveUpdate, SaveOrder, RankOpposite, ReadOpposite,
    ReadLastTrade, Respond, RespondError, Fail, redis, vars

\* What was listed has no creator left that would add it.
LEMMA NoRelistingStep ==
  ASSUME TypeInv, LifeOK, [Next]_vars, NEW o \in listed, ~InBook(o)
  PROVE  ~InBook(o)'
<1>1. \A h \in Handlers : ~(pc[h] = "addToBook" /\ Creates(h, o))
  BY DEF LifeOK, CreatorOK, TypeInv, TypeOK
<1> QED
  BY <1>1, EntersFromCreator

\* No command of any handler puts an order back that has left the book.
THEOREM NeverRelisted == Spec => NoRelisting
<1>1. TypeInv /\ LifeOK /\ [Next]_vars => [\A o \in listed : ~InBook(o) => ~InBook(o)']_vars
  BY NoRelistingStep
<1> QED
  BY <1>1, LifeAlways, PTL DEF Spec, NoRelisting
=============================================================================
