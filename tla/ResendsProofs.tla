----------------------------- MODULE ResendsProofs -----------------------------
(***************************************************************************)
(* What Resends keeps, proved: an order that comes back into the book by a *)
(* second ZADD can be closed, but it is stored, on its side, at its terms. *)
(* OrderMatching's own steps keep TypeInv and TermsOK as before; what is   *)
(* new is that StoredOK is enough, and the step that loses a reply.        *)
(***************************************************************************)
EXTENDS ResendsInvariant, OrderMatchingTermsProofs

\* Hashes are not deleted, and no Order object changes once it was placed.
Keeps(h) ==
  /\ OthersKeep(h)
  /\ \A o \in Orders : order[o] # NoOrder => order'[o] # NoOrder

\* It is enough to look at the handler that takes the step, and at Redis.
LEMMA StoredStep ==
  ASSUME TypeInv, StoredOK, NEW h \in Handlers, Keeps(h), HasHash(h)',
         \A o \in Orders : order'[o] # NoOrder => placed'[o] # NoOrder /\ order'[o].side = placed'[o].side,
         \A s \in Sides : \A o \in Members(book'[s]) : order'[o] # NoOrder /\ order'[o].side = s
  PROVE  StoredOK'
<1>1. ASSUME NEW g \in Handlers \ {h}
      PROVE  HasHash(g)'
  <2>1. HasHash(g) /\ EventOK(g) /\ pc'[g] = pc[g] /\ call'[g] = call[g] /\ Target(g)' = Target(g)
    BY DEF StoredOK, TypeInv, FrameOK, Keeps, OthersKeep, Target
  <2>2. \A s \in Sides : call[g].top[s] # NoEntry => order'[call[g].top[s].orderId] # NoOrder
    BY EntryIsStored DEF Keeps
  <2>3. pc[g] \in Adding \ {"saveOrder"} => order'[call[g].subject] # NoOrder
    BY <2>1 DEF HasHash, EventOK, Keeps
  <2>4. pc[g] \in {"removeOrder", "saveStatus", "saveUpdate"} =>
          order'[Target(g)] # NoOrder /\ call[g].read.side = placed'[Target(g)].side
    BY CopyIsStored DEF Keeps, OthersKeep
  <2> QED
    BY <2>1, <2>2, <2>3, <2>4 DEF HasHash
<1> QED
  BY <1>1 DEF StoredOK

\* For the steps that write no order and no book, and place no order.
LEMMA StoredLocalStep ==
  ASSUME TypeInv, StoredOK, NEW h \in Handlers, UNCHANGED <<order, book, placed>>,
         \A g \in Handlers \ {h} : pc'[g] = pc[g] /\ call'[g] = call[g],
         HasHash(h)'
  PROVE  StoredOK'
<1>1. Keeps(h)
  BY DEF Keeps, OthersKeep
<1> QED
  BY <1>1, StoredStep DEF StoredOK

LEMMA StoredReset ==
  ASSUME TypeInv, StoredOK, NEW h \in Handlers, Throws(h), UNCHANGED <<order, book, placed>>
  PROVE  StoredOK'
<1>1. call'[h] = NoCall /\ pc'[h] = "idle"
  BY SetNoCall DEF Throws, Sends, TypeInv, TypeOK
<1>2. \A g \in Handlers \ {h} : pc'[g] = pc[g] /\ call'[g] = call[g]
  BY DEF Throws, Sends, TypeInv, TypeOK
<1>3. HasHash(h)'
  BY <1>1, NoCallFields DEF HasHash, Adding
<1> QED
  BY <1>2, <1>3, StoredLocalStep

\* The events: a fresh Order object has no hash yet, and nobody goes by it.
LEMMA StoredRequest ==
  ASSUME TypeInv, StoredOK, NEW h \in Handlers, Request(h)
  PROVE  StoredOK'
<1>1. call[h] = NoCall /\ call[h] \in CallType /\ pc[h] = "idle"
  BY DEF Request, RequestCreate, RequestMatch, RequestCancel, RequestFill, TypeInv, TypeOK, FrameOK, EventOK
<1>2. /\ call'[h].top = NoCall.top /\ pc'[h] \in {"saveOrder", "rankBids", "readForStatus", "checkOpen"}
      /\ \A g \in Handlers \ {h} : pc'[g] = pc[g] /\ call'[g] = call[g]
      /\ UNCHANGED <<order, book>>
  BY <1>1 DEF Request, RequestCreate, RequestMatch, RequestCancel, RequestFill, Sends, TypeInv, TypeOK,
    CallType, redis
<1>3. \A o \in Orders : placed[o] # NoOrder => placed'[o] = placed[o]
  BY DEF Request, RequestCreate, RequestMatch, RequestCancel, RequestFill, TypeInv, TypeOK
<1>4. HasHash(h)'
  BY <1>2, NoCallFields DEF HasHash, Adding
<1>5. Keeps(h)
  BY <1>2, <1>3 DEF Keeps, OthersKeep
<1>6. \A o \in Orders : order'[o] # NoOrder => placed'[o] # NoOrder /\ order'[o].side = placed'[o].side
  BY <1>2, <1>3, StoredIsPlaced
<1>7. \A s \in Sides : \A o \in Members(book'[s]) : order'[o] # NoOrder /\ order'[o].side = s
  BY <1>2 DEF StoredOK
<1> QED
  BY <1>4, <1>5, <1>6, <1>7, StoredStep

\* Ranking and reading the book in matchTopOrders: what is ranked is stored.
LEMMA StoredRank ==
  ASSUME TypeInv, StoredOK, NEW h \in Handlers, RankBids(h) \/ RankAsks(h)
  PROVE  StoredOK'
<1>1. UNCHANGED <<order, book, placed>>
      /\ \A g \in Handlers \ {h} : pc'[g] = pc[g] /\ call'[g] = call[g]
  BY DEF RankBids, RankAsks, Sends, TypeInv, TypeOK, redis
<1>2. \A s \in Sides : call'[h].top[s] # NoEntry => order[call'[h].top[s].orderId] # NoOrder
  <2> SUFFICES ASSUME NEW s \in Sides, call'[h].top[s] # NoEntry
               PROVE  order[call'[h].top[s].orderId] # NoOrder
    OBVIOUS
  <2>1. CASE call'[h].top[s] = call[h].top[s]
    BY <2>1, EntryIsStored
  <2>2. ASSUME NEW o \in Orders, IsTop(s, o), call'[h].top[s] = Ranked(s, o)
        PROVE  order[call'[h].top[s].orderId] # NoOrder
    BY <2>2, TopIsStored DEF Ranked
  <2> QED
    BY <2>1, <2>2, MatchingKeeps
<1>3. HasHash(h)'
  BY <1>1, <1>2, MatchingKeeps DEF HasHash, Adding
<1> QED
  BY <1>1, <1>3, StoredLocalStep

LEMMA StoredRead ==
  ASSUME TypeInv, StoredOK, NEW h \in Handlers, ReadBid(h) \/ ReadAsk(h)
  PROVE  StoredOK'
<1>1. PICK s \in Sides : /\ ReadRanked(h, s)
                         /\ pc[h] = IF s = "BUY" THEN "readBid" ELSE "readAsk"
  BY DEF ReadBid, ReadAsk, Sides
<1> DEFINE stored == order[call[h].top[s].orderId]
           top == [call[h].top EXCEPT ![s].quantity = stored.quantity, ![s].status = stored.status]
<1>2. UNCHANGED <<order, book, placed>>
  BY <1>1 DEF ReadRanked, redis
<1>3. CASE stored = NoOrder
  BY <1>1, <1>2, <1>3, StoredReset DEF ReadRanked
<1>4. CASE stored # NoOrder
  <2>1. call[h] \in CallType /\ call[h].top \in [Sides -> EntryType \cup {NoEntry}] /\ TopOK(h)
    BY DEF TypeInv, TypeOK, CallType, FrameOK
  <2>2. call[h].top[s] \in EntryType /\ call[h].top[s] # NoEntry
    BY <1>1, <2>1 DEF TopOK, Sides
  <2>3. /\ top[s].orderId = call[h].top[s].orderId
        /\ \A t \in Sides \ {s} : top[t] = call[h].top[t]
    BY <2>1, <2>2 DEF EntryType
  <2>4. call' = [call EXCEPT ![h].top = top]
    BY <1>1, <1>4 DEF ReadRanked
  <2>5. pc'[h] = IF s = "BUY" /\ top["SELL"] # NoEntry THEN "readAsk" ELSE AfterReads(h, top)
    BY <1>1, <1>4 DEF ReadRanked, Sends, TypeInv, TypeOK
  <2> HIDE DEF top
  <2>6. call'[h].top = top /\ \A g \in Handlers \ {h} : pc'[g] = pc[g] /\ call'[g] = call[g]
    BY <1>1, <1>4, <2>1, <2>4 DEF ReadRanked, Sends, TypeInv, TypeOK, CallType
  <2>7. pc'[h] \in {"readAsk", "storeTrade", "saveOrder", "respond"}
    BY <2>5 DEF AfterReads
  <2>8. HasHash(h)'
    BY <1>2, <1>4, <2>3, <2>6, <2>7, EntryIsStored DEF HasHash, Adding
  <2> QED
    BY <1>2, <2>6, <2>8, StoredLocalStep
<1> QED
  BY <1>3, <1>4

\* storeTrade stores no order.
LEMMA StoredStoreTrade ==
  ASSUME TypeInv, StoredOK, NEW h \in Handlers, StoreTrade(h)
  PROVE  StoredOK'
<1>1. UNCHANGED <<order, book, placed>>
      /\ \A g \in Handlers \ {h} : pc'[g] = pc[g] /\ call'[g] = call[g]
  BY DEF StoreTrade, Sends, TypeInv, TypeOK
<1>2. pc'[h] \in {"checkOpen", "readForUpdate"} /\ call'[h].top = call[h].top
  BY SetSettling DEF StoreTrade, Sends, Settle, TypeInv, TypeOK, Sides
<1>3. HasHash(h)'
  BY <1>1, <1>2, EntryIsStored DEF HasHash, Adding
<1> QED
  BY <1>1, <1>3, StoredLocalStep

\* Going on to the other side of the trade, or to the answer, leaves no copy.
LEMMA ContinueStored ==
  ASSUME TypeInv, StoredOK, NEW h \in Handlers, Continue(h),
         \A o \in Orders : order[o] # NoOrder => order'[o] # NoOrder
  PROVE  HasHash(h)' /\ \A g \in Handlers \ {h} : pc'[g] = pc[g] /\ call'[g] = call[g]
<1>1. /\ pc'[h] \in {"checkOpen", "readForUpdate", "respond"} /\ call'[h].top = call[h].top
      /\ \A g \in Handlers \ {h} : pc'[g] = pc[g] /\ call'[g] = call[g]
  BY ContinueKeeps
<1> QED
  BY <1>1, EntryIsStored DEF HasHash, Adding

\* fillOrder's check of the status.
LEMMA StoredCheckOpen ==
  ASSUME TypeInv, StoredOK, NEW h \in Handlers, CheckOpen(h)
  PROVE  StoredOK'
<1>1. UNCHANGED <<order, book, placed>>
  BY DEF CheckOpen, redis
<1>2. CASE Continue(h)
  BY <1>1, <1>2, ContinueStored, StoredLocalStep
<1>3. CASE UNCHANGED call /\ (Sends(h, "readForStatus") \/ Sends(h, "respondError"))
  <2>1. pc'[h] \in {"readForStatus", "respondError"}
        /\ \A g \in Handlers \ {h} : pc'[g] = pc[g] /\ call'[g] = call[g]
    BY <1>3 DEF Sends, TypeInv, TypeOK
  <2>2. HasHash(h)'
    BY <1>1, <1>3, <2>1, EntryIsStored DEF HasHash, Adding
  <2> QED
    BY <1>1, <2>1, <2>2, StoredLocalStep
<1> QED
  BY <1>2, <1>3 DEF CheckOpen

\* The reads of setOrderStatus and updateOrder: the copy is of a stored order.
LEMMA StoredReadForChange ==
  ASSUME TypeInv, StoredOK, NEW h \in Handlers, ReadForStatus(h) \/ ReadForUpdate(h)
  PROVE  StoredOK'
<1> DEFINE stored == order[Target(h)]
<1>1. UNCHANGED <<order, book, placed>> /\ pc[h] \in Changing
  BY DEF ReadForStatus, ReadForUpdate, Changing, redis
<1>2. CASE Continue(h)
  BY <1>1, <1>2, ContinueStored, StoredLocalStep
<1>3. CASE Sends(h, "respondError") /\ UNCHANGED call
  <2>1. pc'[h] = "respondError" /\ \A g \in Handlers \ {h} : pc'[g] = pc[g] /\ call'[g] = call[g]
    BY <1>3 DEF Sends, TypeInv, TypeOK
  <2>2. HasHash(h)'
    BY <1>1, <1>3, <2>1, EntryIsStored DEF HasHash, Adding
  <2> QED
    BY <1>1, <2>1, <2>2, StoredLocalStep
<1>4. CASE stored # NoOrder
  <2>1. Target(h) \in Orders /\ stored \in OrderType /\ stored.side = placed[Target(h)].side
    BY <1>1, <1>4, TargetType, StoredIsPlaced
  <2>2. PICK read : /\ call' = [call EXCEPT ![h].read = read] /\ read.side = stored.side
                    /\ pc' = [pc EXCEPT ![h] = IF ReadForStatus(h) THEN "removeOrder" ELSE "saveUpdate"]
    <3>1. CASE ReadForStatus(h)
      <4> DEFINE read == [stored EXCEPT !.status = IF call[h].event = "cancelOrder" THEN "CANCELLED" ELSE "FILLED"]
      <4>1. read.side = stored.side
        BY <2>1 DEF OrderType
      <4>2. call' = [call EXCEPT ![h].read = read] /\ pc' = [pc EXCEPT ![h] = "removeOrder"]
        BY <1>4, <3>1 DEF ReadForStatus, LeavesBook, Sends
      <4> HIDE DEF read
      <4> QED
        BY <3>1, <4>1, <4>2
    <3>2. CASE ReadForUpdate(h)
      <4> DEFINE read == [stored EXCEPT !.quantity = Remaining(h, call[h].settling)]
      <4>1. read.side = stored.side
        BY <2>1 DEF OrderType
      <4>2. call' = [call EXCEPT ![h].read = read] /\ pc' = [pc EXCEPT ![h] = "saveUpdate"]
        BY <1>4, <3>2 DEF ReadForUpdate, Sends
      <4>3. ~ReadForStatus(h)
        BY <3>2 DEF ReadForStatus, ReadForUpdate
      <4> HIDE DEF read
      <4> QED
        BY <4>1, <4>2, <4>3
    <3> QED
      BY <3>1, <3>2
  <2>3. /\ call'[h].event = call[h].event /\ call'[h].subject = call[h].subject
        /\ call'[h].settling = call[h].settling /\ call'[h].top = call[h].top
        /\ call'[h].read = read
    BY <2>2 DEF TypeInv, TypeOK, CallType
  <2>4. pc'[h] \in {"removeOrder", "saveUpdate"}
        /\ \A g \in Handlers \ {h} : pc'[g] = pc[g] /\ call'[g] = call[g]
    BY <2>2 DEF TypeInv, TypeOK
  <2>5. Target(h)' = Target(h)
    BY <2>3 DEF Target
  <2>6. HasHash(h)'
    BY <1>1, <1>4, <2>1, <2>2, <2>3, <2>4, <2>5, EntryIsStored DEF HasHash, Adding
  <2> QED
    BY <1>1, <2>4, <2>6, StoredLocalStep
<1> QED
  BY <1>2, <1>3, <1>4 DEF ReadForStatus, ReadForUpdate

\* HSET of an order on its side, as often as it runs.
LEMMA HashWritten ==
  ASSUME TypeInv, StoredOK, NEW o \in Orders, NEW r, r # NoOrder,
         placed[o] # NoOrder, r.side = placed[o].side,
         order' = [order EXCEPT ![o] = r], UNCHANGED <<book, placed>>
  PROVE  /\ order'[o] = r
         /\ \A p \in Orders : order[p] # NoOrder => order'[p] # NoOrder
         /\ \A p \in Orders : order'[p] # NoOrder => placed'[p] # NoOrder /\ order'[p].side = placed'[p].side
         /\ \A s \in Sides : \A p \in Members(book'[s]) : order'[p] # NoOrder /\ order'[p].side = s
<1>1. order'[o] = r /\ \A p \in Orders \ {o} : order'[p] = order[p]
  BY DEF TypeInv, TypeOK
<1>2. \A p \in Orders : order'[p] # NoOrder => placed'[p] # NoOrder /\ order'[p].side = placed'[p].side
  BY <1>1, StoredIsPlaced
<1>3. ASSUME NEW s \in Sides, NEW p \in Members(book[s])
      PROVE  order'[p] # NoOrder /\ order'[p].side = s
  <2>1. p \in Orders
    BY DEF Members, SortedSet, TypeInv, TypeOK
  <2>2. order[p] # NoOrder /\ order[p].side = s /\ placed[p].side = s
    BY <2>1, StoredIsPlaced DEF StoredOK
  <2> QED
    BY <1>1, <2>1, <2>2
<1> QED
  BY <1>1, <1>2, <1>3

\* ZREM takes one order out of the book, and no other.
LEMMA BookRemoved ==
  ASSUME TypeInv, NEW side \in Sides, NEW o \in Orders, book' = [book EXCEPT ![side] = ZRem(@, o)]
  PROVE  \A s \in Sides : \A p \in Members(book'[s]) : p \in Members(book[s]) /\ book'[s][p] = book[s][p]
  BY DEF ZRem, SortedSet, Score, Members, TypeInv, TypeOK

\* ZADD puts one in, at the score.
Ranks(side, o, score) == book' = [book EXCEPT ![side] = [@ EXCEPT ![o] = score]]

LEMMA BookAdded ==
  ASSUME TypeInv, NEW side \in Sides, NEW o \in Orders, NEW score, Ranks(side, o, score)
  PROVE  \A s \in Sides : \A p \in Members(book'[s]) :
           (s = side /\ p = o /\ book'[s][p] = score) \/ (p \in Members(book[s]) /\ book'[s][p] = book[s][p])
  BY DEF Ranks, Members, SortedSet, TypeInv, TypeOK

\* ZREM of setOrderStatus.
LEMMA StoredRemoveOrder ==
  ASSUME TypeInv, StoredOK, NEW h \in Handlers, RemoveOrder(h)
  PROVE  StoredOK'
<1>1. /\ UNCHANGED <<order, placed, call>> /\ pc[h] = "removeOrder" /\ pc'[h] = "saveStatus"
      /\ \A g \in Handlers \ {h} : pc'[g] = pc[g] /\ call'[g] = call[g]
  BY DEF RemoveOrder, Sends, TypeInv, TypeOK
<1>2. Target(h) \in Orders /\ call[h].read.side \in Sides
  BY <1>1, CopyIsStored DEF OrderType
<1>3. \A s \in Sides : \A o \in Members(book'[s]) : o \in Members(book[s])
  BY <1>2, BookRemoved DEF RemoveOrder
<1>4. Target(h)' = Target(h)
  BY <1>1 DEF Target
<1>5. HasHash(h)'
  BY <1>1, <1>4, CopyIsStored, EntryIsStored DEF HasHash, Adding
<1>6. Keeps(h)
  BY <1>1 DEF Keeps, OthersKeep
<1> QED
  BY <1>1, <1>3, <1>5, <1>6, StoredStep DEF StoredOK

\* Writing an order back whole.
LEMMA StoredSave ==
  ASSUME TypeInv, StoredOK, NEW h \in Handlers, SaveStatus(h) \/ SaveUpdate(h)
  PROVE  StoredOK'
<1>1. /\ pc[h] \in {"saveStatus", "saveUpdate"} /\ Continue(h)
      /\ UNCHANGED <<book, placed>> /\ order' = [order EXCEPT ![Target(h)] = call[h].read]
  BY DEF SaveStatus, SaveUpdate
<1>2. /\ \A p \in Orders : order[p] # NoOrder => order'[p] # NoOrder
      /\ \A p \in Orders : order'[p] # NoOrder => placed'[p] # NoOrder /\ order'[p].side = placed'[p].side
      /\ \A s \in Sides : \A p \in Members(book'[s]) : order'[p] # NoOrder /\ order'[p].side = s
  BY <1>1, CopyIsStored, HashWritten
<1>3. HasHash(h)' /\ \A g \in Handlers \ {h} : pc'[g] = pc[g] /\ call'[g] = call[g]
  BY <1>1, <1>2, ContinueStored
<1>4. Keeps(h)
  BY <1>1, <1>2, <1>3 DEF Keeps, OthersKeep
<1> QED
  BY <1>2, <1>3, <1>4, StoredStep

\* HSET of addOrder: the first hash of an order, or the same again.
LEMMA StoredSaveOrder ==
  ASSUME TypeInv, StoredOK, NEW h \in Handlers, SaveOrder(h)
  PROVE  StoredOK'
<1>1. /\ UNCHANGED <<book, placed>> /\ pc[h] = "saveOrder" /\ call[h] \in CallType
      /\ order' = [order EXCEPT ![call[h].subject] = placed[call[h].subject]]
      /\ pc'[h] \in {"addToBook", "rankOpposite"}
      /\ \A g \in Handlers \ {h} : pc'[g] = pc[g] /\ call'[g] = call[g]
  BY DEF SaveOrder, Sends, TypeInv, TypeOK
<1>2. call'[h].subject = call[h].subject /\ call'[h].top \in {call[h].top, NoCall.top}
  BY <1>1 DEF SaveOrder, TypeInv, TypeOK, CallType
<1>3. call[h].subject \in Orders /\ placed[call[h].subject] # NoOrder
  BY <1>1, CreatorType, NoOrderAssumption DEF Adding
<1>4. /\ order'[call[h].subject] # NoOrder
      /\ \A p \in Orders : order[p] # NoOrder => order'[p] # NoOrder
      /\ \A p \in Orders : order'[p] # NoOrder => placed'[p] # NoOrder /\ order'[p].side = placed'[p].side
      /\ \A s \in Sides : \A p \in Members(book'[s]) : order'[p] # NoOrder /\ order'[p].side = s
  BY <1>1, <1>3, HashWritten
<1>5. HasHash(h)'
  BY <1>1, <1>2, <1>4, EntryIsStored, NoCallFields DEF HasHash, Adding
<1>6. Keeps(h)
  BY <1>1, <1>4 DEF Keeps, OthersKeep
<1> QED
  BY <1>4, <1>5, <1>6, StoredStep

\* Finding a price for a resting MARKET order.
LEMMA StoredPrice ==
  ASSUME TypeInv, StoredOK, NEW h \in Handlers,
         RankOpposite(h) \/ ReadOpposite(h) \/ ReadLastTrade(h)
  PROVE  StoredOK'
<1>1. /\ UNCHANGED <<order, book, placed>> /\ call[h] \in CallType
      /\ pc[h] \in Adding \ {"saveOrder"} /\ HasHash(h) /\ call[h].subject \in Orders
  BY CreatorType DEF RankOpposite, ReadOpposite, ReadLastTrade, redis, TypeInv, TypeOK, Adding, StoredOK
<1>2. CASE Throws(h)
  BY <1>1, <1>2, StoredReset
<1>3. CASE /\ call'[h].subject = call[h].subject
           /\ \A s \in Sides : \/ call'[h].top[s] \in {call[h].top[s], NoEntry}
                               \/ \E o \in Orders : IsTop(s, o) /\ call'[h].top[s] = Ranked(s, o)
           /\ pc'[h] \in {"readOpposite", "readLastTrade", "addToBook"}
           /\ \A g \in Handlers \ {h} : pc'[g] = pc[g] /\ call'[g] = call[g]
  <2>1. ASSUME NEW s \in Sides, call'[h].top[s] # NoEntry
        PROVE  order[call'[h].top[s].orderId] # NoOrder
    <3>1. ASSUME NEW o \in Orders, IsTop(s, o), call'[h].top[s] = Ranked(s, o)
          PROVE  order[call'[h].top[s].orderId] # NoOrder
      BY <3>1, TopIsStored DEF Ranked
    <3> QED
      BY <1>3, <2>1, <3>1, EntryIsStored
  <2>2. HasHash(h)'
    BY <1>1, <1>3, <2>1 DEF HasHash, Adding
  <2> QED
    BY <1>1, <1>3, <2>2, StoredLocalStep
<1>4. CASE RankOpposite(h)
  <2> DEFINE side == Opposite(placed[call[h].subject].side)
  <2>1. side \in Sides
    BY <1>1, CreatorType
  <2> HIDE DEF side
  <2>2. CASE UNCHANGED call /\ Sends(h, "readLastTrade")
    BY <1>3, <2>2 DEF Sends, TypeInv, TypeOK
  <2>3. ASSUME NEW o \in Orders, IsTop(side, o), Sends(h, "readOpposite"),
               call' = [call EXCEPT ![h].top = [@ EXCEPT ![side] = Ranked(side, o)]]
        PROVE  StoredOK'
    <3> DEFINE top == [call[h].top EXCEPT ![side] = Ranked(side, o)]
    <3>1. /\ top \in [Sides -> EntryType \cup {NoEntry}]
          /\ top[side] = Ranked(side, o)
          /\ \A t \in Sides \ {side} : top[t] = call[h].top[t]
      BY <2>1, <2>3, RankedTop
    <3>2. call' = [call EXCEPT ![h].top = top]
      BY <2>3
    <3> HIDE DEF top
    <3>3. call'[h].subject = call[h].subject /\ call'[h].top = top
      BY <3>1, <3>2, SetTop DEF TypeInv
    <3> QED
      BY <1>3, <2>3, <3>1, <3>2, <3>3 DEF Sends, TypeInv, TypeOK
  <2> QED
    BY <1>4, <2>2, <2>3 DEF RankOpposite, side
<1>5. CASE ReadOpposite(h) /\ ~Throws(h)
  <2>1. PICK price : call' = [call EXCEPT ![h].price = price, ![h].top = NoCall.top]
                     /\ Sends(h, "addToBook")
    BY <1>5 DEF ReadOpposite
  <2>2. call'[h].subject = call[h].subject /\ call'[h].top = NoCall.top
    BY <1>1, <2>1 DEF TypeInv, TypeOK, CallType
  <2> QED
    BY <1>3, <2>1, <2>2, NoCallFields DEF Sends, TypeInv, TypeOK
<1>6. CASE ReadLastTrade(h)
  <2>1. PICK price : call' = [call EXCEPT ![h].price = price]
    BY <1>6 DEF ReadLastTrade
  <2>2. call'[h].subject = call[h].subject /\ call'[h].top = call[h].top
    BY <1>1, <2>1 DEF TypeInv, TypeOK, CallType
  <2> QED
    BY <1>3, <1>6, <2>1, <2>2 DEF ReadLastTrade, Sends, TypeInv, TypeOK
<1> QED
  BY <1>2, <1>4, <1>5, <1>6

\* ZADD of addOrder, for the first time or again: the hash is there.
LEMMA BookStored ==
  ASSUME TypeInv, StoredOK, NEW h \in Handlers, pc[h] = "addToBook", UNCHANGED <<order, placed>>,
         book' = [book EXCEPT ![placed[call[h].subject].side] =
                    ZAdd(@, call[h].subject, ScoreOf(placed[call[h].subject].side, call[h].price))]
  PROVE  \A s \in Sides : \A o \in Members(book'[s]) : order'[o] # NoOrder /\ order'[o].side = s
<1> PICK o : o = call[h].subject
  OBVIOUS
<1> PICK side : side = placed[o].side
  OBVIOUS
<1> PICK score : score = ScoreOf(side, call[h].price)
  OBVIOUS
<1>1. o \in Orders /\ side \in Sides /\ Ranks(side, o, score)
  BY CreatorType DEF Adding, ZAdd, Ranks
<1>2. order[o] # NoOrder
  BY DEF StoredOK, HasHash, Adding
<1>3. order[o].side = side
  BY <1>1, <1>2, StoredIsPlaced
<1>4. \A s \in Sides : \A p \in Members(book'[s]) :
        (s = side /\ p = o /\ book'[s][p] = score) \/ (p \in Members(book[s]) /\ book'[s][p] = book[s][p])
  BY <1>1, BookAdded
<1> QED
  BY <1>2, <1>3, <1>4 DEF StoredOK

LEMMA StoredAddToBook ==
  ASSUME TypeInv, StoredOK, NEW h \in Handlers, AddToBook(h)
  PROVE  StoredOK'
<1>1. /\ UNCHANGED <<order, placed, call>> /\ pc[h] = "addToBook" /\ pc'[h] = "respond"
      /\ \A g \in Handlers \ {h} : pc'[g] = pc[g] /\ call'[g] = call[g]
  BY DEF AddToBook, Sends, TypeInv, TypeOK
<1>2. \A s \in Sides : \A o \in Members(book'[s]) : order'[o] # NoOrder /\ order'[o].side = s
  BY <1>1, BookStored DEF AddToBook
<1>3. HasHash(h)'
  BY <1>1, EntryIsStored DEF HasHash, Adding
<1>4. Keeps(h)
  BY <1>1 DEF Keeps, OthersKeep
<1> QED
  BY <1>1, <1>2, <1>3, <1>4, StoredStep DEF StoredOK

LEMMA StoredInit == Init => StoredOK
  BY NoCallFields DEF Init, StoredOK, HasHash, Adding, Members, EmptySortedSet

\* Every step of OrderMatching keeps it.
LEMMA StoredNext == TypeInv /\ StoredOK /\ [Next]_vars => StoredOK'
<1> SUFFICES ASSUME TypeInv, StoredOK, [Next]_vars
             PROVE  StoredOK'
  OBVIOUS
<1>1. CASE UNCHANGED vars
  BY <1>1 DEF vars, StoredOK, HasHash, Target
<1>2. ASSUME NEW h \in Handlers, Run(h) \/ Fail(h)
      PROVE  StoredOK'
  <2>1. CASE Respond(h) \/ RespondError(h) \/ Fail(h)
    BY <2>1, StoredReset DEF Respond, RespondError, Fail, Throws, redis
  <2> QED
    BY <1>2, <2>1, StoredRank, StoredRead, StoredStoreTrade, StoredCheckOpen, StoredReadForChange,
      StoredRemoveOrder, StoredSave, StoredSaveOrder, StoredPrice, StoredAddToBook DEF Run
<1> QED
  BY <1>1, <1>2, StoredRequest DEF Next
-----------------------------------------------------------------------------
(* Lost replies.                                                            *)

\* Which command has run without its handler's knowledge.
LEMMA LostReply ==
  ASSUME TypeInv, StoredOK, NEW h \in Handlers, LoseReply(h)
  PROVE  /\ UNCHANGED <<trades, placed, told, pc, call>> /\ faults' \in Nat
         /\ \/ /\ pc[h] \in {"saveOrder", "saveStatus", "saveUpdate"}
               /\ HashKey(h) \in Orders /\ HashToSave(h) \in OrderType /\ HashToSave(h) # NoOrder
               /\ placed[HashKey(h)] # NoOrder /\ HashToSave(h).side = placed[HashKey(h)].side
               /\ order' = [order EXCEPT ![HashKey(h)] = HashToSave(h)]
               /\ UNCHANGED <<book, listed>>
            \/ /\ pc[h] = "addToBook"
               /\ book' = [book EXCEPT ![placed[call[h].subject].side] =
                    ZAdd(@, call[h].subject, ScoreOf(placed[call[h].subject].side, call[h].price))]
               /\ listed' = listed \cup {call[h].subject}
               /\ UNCHANGED order
            \/ /\ pc[h] = "removeOrder"
               /\ Target(h) \in Orders /\ call[h].read.side \in Sides
               /\ book' = [book EXCEPT ![call[h].read.side] = ZRem(@, Target(h))]
               /\ UNCHANGED <<order, listed>>
<1>1. UNCHANGED <<trades, placed, told, pc, call>> /\ faults' \in Nat
  BY DEF LoseReply, TypeInv, TypeOK
<1>2. CASE pc[h] = "saveOrder"
  <2>1. /\ HashKey(h) = call[h].subject /\ HashToSave(h) = placed[call[h].subject]
        /\ order' = [order EXCEPT ![HashKey(h)] = HashToSave(h)] /\ UNCHANGED <<book, listed>>
    BY <1>2 DEF LoseReply, HashKey, HashToSave
  <2> QED
    BY <1>1, <1>2, <2>1, CreatorType, NoOrderAssumption DEF Adding
<1>3. CASE pc[h] \in {"saveStatus", "saveUpdate"}
  <2>1. /\ HashKey(h) = Target(h) /\ HashToSave(h) = call[h].read
        /\ order' = [order EXCEPT ![HashKey(h)] = HashToSave(h)] /\ UNCHANGED <<book, listed>>
    BY <1>3 DEF LoseReply, HashKey, HashToSave
  <2> QED
    BY <1>1, <1>3, <2>1, CopyIsStored
<1>4. CASE pc[h] = "removeOrder"
  <2>1. Target(h) \in Orders /\ call[h].read.side \in Sides
    BY <1>4, CopyIsStored DEF OrderType
  <2> QED
    BY <1>1, <1>4, <2>1 DEF LoseReply
<1>5. CASE pc[h] = "addToBook"
  BY <1>1, <1>5 DEF LoseReply
<1> QED
  BY <1>2, <1>3, <1>4, <1>5 DEF LoseReply

\* Nothing but Redis changes, and there nothing but hashes, scores and places.
LEMMA TypeLost ==
  ASSUME TypeInv, StoredOK, NEW h \in Handlers, LoseReply(h)
  PROVE  TypeInv'
<1>1. UNCHANGED <<trades, placed, told, pc, call>> /\ faults' \in Nat
  BY LostReply
<1>2. FrameOK'
  BY <1>1 DEF TypeInv, FrameOK, EventOK, TopOK, ReadOK, Matched, Remaining, MatchQuantity
<1>3. order' \in [Orders -> OrderType \cup {NoOrder}]
  BY LostReply DEF TypeInv, TypeOK
<1>4. listed' \in SUBSET Orders
  BY LostReply, CreatorType DEF TypeInv, TypeOK, Adding
<1>5. /\ book' \in [Sides -> SortedSet(Orders)]
      /\ \A s \in Sides : \A o \in Members(book'[s]) : PriceOf(s, book'[s][o]) \in Prices
  <2>1. CASE UNCHANGED book
    BY <2>1 DEF TypeInv, TypeOK, PricesOK, PriceOf
  <2>2. CASE pc[h] = "removeOrder"
    <3>1. /\ Target(h) \in Orders /\ call[h].read.side \in Sides
          /\ book' = [book EXCEPT ![call[h].read.side] = ZRem(@, Target(h))]
      BY <2>2, LostReply
    <3>2. \A s \in Sides : \A o \in Members(book'[s]) : o \in Members(book[s]) /\ book'[s][o] = book[s][o]
      BY <3>1, BookRemoved
    <3>3. book' \in [Sides -> SortedSet(Orders)]
      BY <3>1 DEF ZRem, SortedSet, Score, TypeInv, TypeOK
    <3> QED
      BY <3>2, <3>3 DEF TypeInv, PricesOK, PriceOf
  <2>3. CASE pc[h] = "addToBook"
    <3> PICK o : o = call[h].subject
      OBVIOUS
    <3> PICK side : side = placed[o].side
      OBVIOUS
    <3> PICK score : score = ScoreOf(side, call[h].price)
      OBVIOUS
    <3>1. /\ o \in Orders /\ side \in Sides /\ call[h].price \in Prices
          /\ Ranks(side, o, score)
      BY <2>3, LostReply, CreatorType DEF Ranks, ZAdd, Adding, TypeInv, TypeOK, CallType
    <3>2. score \in Int /\ PriceOf(side, score) \in Prices
      BY <3>1 DEF ScoreOf, PriceOf, Prices
    <3>3. \A s \in Sides : \A p \in Members(book'[s]) :
            (s = side /\ p = o /\ book'[s][p] = score) \/ (p \in Members(book[s]) /\ book'[s][p] = book[s][p])
      BY <3>1, BookAdded
    <3>4. book' \in [Sides -> SortedSet(Orders)]
      BY <3>1, <3>2 DEF Ranks, SortedSet, Score, TypeInv, TypeOK
    <3>5. \A s \in Sides : \A p \in Members(book[s]) : PriceOf(s, book[s][p]) \in Prices
      BY DEF TypeInv, PricesOK
    <3> QED
      BY <3>2, <3>3, <3>4, <3>5 DEF PriceOf
  <2> QED
    BY <2>1, <2>2, <2>3, LostReply
<1> QED
  BY <1>1, <1>2, <1>3, <1>4, <1>5 DEF TypeInv, TypeOK, PricesOK

LEMMA StoredLost ==
  ASSUME TypeInv, StoredOK, NEW h \in Handlers, LoseReply(h)
  PROVE  StoredOK'
<1>1. UNCHANGED <<placed, pc, call>>
  BY LostReply
<1>2. /\ \A o \in Orders : order[o] # NoOrder => order'[o] # NoOrder
      /\ \A o \in Orders : order'[o] # NoOrder => placed'[o] # NoOrder /\ order'[o].side = placed'[o].side
      /\ \A s \in Sides : \A o \in Members(book'[s]) : order'[o] # NoOrder /\ order'[o].side = s
  <2>1. CASE pc[h] \in {"saveOrder", "saveStatus", "saveUpdate"}
    BY <1>1, <2>1, LostReply, HashWritten
  <2>2. CASE pc[h] = "addToBook"
    <3>1. UNCHANGED order
      BY <2>2, LostReply
    <3>2. \A s \in Sides : \A o \in Members(book'[s]) : order'[o] # NoOrder /\ order'[o].side = s
      BY <1>1, <2>2, LostReply, BookStored
    <3> QED
      BY <1>1, <3>1, <3>2 DEF StoredOK
  <2>3. CASE pc[h] = "removeOrder"
    <3>1. UNCHANGED order
      BY <2>3, LostReply
    <3>2. \A s \in Sides : \A o \in Members(book'[s]) : o \in Members(book[s])
      BY <2>3, LostReply, BookRemoved
    <3> QED
      BY <1>1, <3>1, <3>2 DEF StoredOK
  <2> QED
    BY <2>1, <2>2, <2>3, LostReply
<1>3. Keeps(h)
  BY <1>1, <1>2 DEF Keeps, OthersKeep
<1>4. HasHash(h)'
  <2>1. HasHash(h) /\ EventOK(h) /\ Target(h)' = Target(h)
    BY <1>1 DEF StoredOK, TypeInv, FrameOK, Target
  <2>2. \A s \in Sides : call[h].top[s] # NoEntry => order'[call[h].top[s].orderId] # NoOrder
    BY <1>2, EntryIsStored
  <2>3. pc[h] \in Adding \ {"saveOrder"} => order'[call[h].subject] # NoOrder
    BY <1>2, <2>1 DEF HasHash, EventOK
  <2>4. pc[h] \in {"removeOrder", "saveStatus", "saveUpdate"} =>
          order'[Target(h)] # NoOrder /\ call[h].read.side = placed[Target(h)].side
    BY <1>2, CopyIsStored
  <2> QED
    BY <1>1, <2>1, <2>2, <2>3, <2>4 DEF HasHash
<1> QED
  BY <1>2, <1>3, <1>4, StoredStep

\* A hash that is written twice keeps its terms, and a LIMIT order that comes back
\* comes back at its limit.
LEMMA TermsLost ==
  ASSUME TypeInv, StoredOK, TermsOK, NEW h \in Handlers, LoseReply(h)
  PROVE  TermsOK'
<1>1. UNCHANGED <<trades, placed, pc, call>>
  BY LostReply
<1>2. CopyOK(h)' /\ SnapshotOK(h)'
  BY <1>1 DEF TermsOK, CopyOK, SnapshotOK, Target
<1>3. TradedOrdersArePlaced' /\ TradesHonourLimits'
  BY <1>1 DEF TermsOK, TradedOrdersArePlaced, TradesHonourLimits
<1>4. StoredOrdersKeepTheirTerms'
  <2>1. CASE UNCHANGED order
    BY <1>1, <2>1 DEF TermsOK, StoredOrdersKeepTheirTerms
  <2>2. CASE pc[h] \in {"saveOrder", "saveStatus", "saveUpdate"}
    <3> PICK o : o = HashKey(h)
      OBVIOUS
    <3> PICK r : r = HashToSave(h)
      OBVIOUS
    <3>1. o \in Orders /\ placed[o] # NoOrder /\ order' = [order EXCEPT ![o] = r] /\ r.side = placed[o].side
      BY <2>2, LostReply
    <3>2. order'[o] = r /\ \A p \in Orders \ {o} : order'[p] = order[p]
      BY <3>1 DEF TypeInv, TypeOK
    <3>3. r.orderType = placed[o].orderType /\ r.price = placed[o].price /\ r.quantity <= placed[o].quantity
      <4>1. CASE pc[h] = "saveOrder"
        <5>1. r = placed[o] /\ placed[o] \in OrderType
          BY <3>1, <4>1, NoOrderAssumption DEF HashToSave, HashKey, TypeInv, TypeOK
        <5> QED
          BY <5>1 DEF OrderType, Quantities
      <4>2. CASE pc[h] \in {"saveStatus", "saveUpdate"}
        BY <4>2 DEF HashToSave, HashKey, TermsOK, CopyOK
      <4> QED
        BY <2>2, <4>1, <4>2
    <3> QED
      BY <1>1, <3>1, <3>2, <3>3 DEF TermsOK, StoredOrdersKeepTheirTerms
  <2> QED
    BY <2>1, <2>2, LostReply
<1>5. RankedAtLimit'
  <2>1. CASE UNCHANGED book
    BY <1>1, <2>1 DEF TermsOK, RankedAtLimit, ScoreOf
  <2>2. CASE pc[h] = "removeOrder"
    <3>1. \A s \in Sides : \A o \in Members(book'[s]) : o \in Members(book[s]) /\ book'[s][o] = book[s][o]
      BY <2>2, LostReply, BookRemoved
    <3> QED
      BY <1>1, <3>1 DEF TermsOK, RankedAtLimit, ScoreOf
  <2>3. CASE pc[h] = "addToBook"
    <3> PICK o : o = call[h].subject
      OBVIOUS
    <3> PICK side : side = placed[o].side
      OBVIOUS
    <3> PICK score : score = ScoreOf(side, call[h].price)
      OBVIOUS
    <3>1. /\ o \in Orders /\ side \in Sides
          /\ Ranks(side, o, score)
      BY <2>3, LostReply, CreatorType DEF Ranks, ZAdd, Adding
    <3>2. placed[o].orderType = "LIMIT" => score = ScoreOf(side, placed[o].price)
      BY <2>3 DEF TermsOK, SnapshotOK
    <3>3. \A s \in Sides : \A p \in Members(book'[s]) :
            (s = side /\ p = o /\ book'[s][p] = score) \/ (p \in Members(book[s]) /\ book'[s][p] = book[s][p])
      BY <3>1, BookAdded
    <3>4. ASSUME NEW s \in Sides, NEW p \in Members(book'[s]), placed[p].orderType = "LIMIT"
          PROVE  book'[s][p] = ScoreOf(s, placed[p].price)
      BY <3>2, <3>3, <3>4 DEF TermsOK, RankedAtLimit
    <3> QED
      BY <1>1, <3>4 DEF RankedAtLimit, ScoreOf
  <2> QED
    BY <2>1, <2>2, <2>3, LostReply
<1>6. OthersKeep(h)
  BY <1>1 DEF OthersKeep
<1> QED
  BY <1>2, <1>3, <1>4, <1>5, <1>6, TermsStep

-----------------------------------------------------------------------------
(* The theorems of Resends.                                                 *)

LEMMA ResendStep == ResendInv /\ [ResendNext]_vars => ResendInv'
<1> SUFFICES ASSUME ResendInv, [ResendNext]_vars
             PROVE  ResendInv'
  OBVIOUS
<1>1. TypeInv /\ StoredOK /\ TermsOK
  BY DEF ResendInv
<1>2. CASE [Next]_vars
  BY <1>1, <1>2, TypeInvStep, StoredNext, TermsNext DEF ResendInv
<1>3. ASSUME NEW h \in Handlers, LoseReply(h)
      PROVE  ResendInv'
  BY <1>1, <1>3, TypeLost, StoredLost, TermsLost DEF ResendInv
<1> QED
  BY <1>2, <1>3 DEF ResendNext

\* Whatever commands of createOrder, matchTopOrders, cancelOrder and fillOrder
\* Redis runs twice, every order a handler goes by is stored, at its terms.
THEOREM ResendInvAlways == ResendSpec => []ResendInv
<1>1. Init => ResendInv
  BY TypeInvInit, StoredInit, TermsInit DEF ResendInv
<1> QED
  BY <1>1, ResendStep, PTL DEF ResendSpec

\* getTopBids and getTopAsks never rank an id that has no hash, or that is an
\* order of the other side, though autoResendUnfulfilledCommands runs ZADD and HSET
\* twice: 'There should be the Order!' is not thrown.
THEOREM ResentRankedExist == ResendSpec => []RankedOrdersExist
<1>1. ResendInv => RankedOrdersExist
  BY DEF ResendInv, StoredOK, RankedOrdersExist
<1> QED
  BY <1>1, ResendInvAlways, PTL

\* updateOrder and setOrderStatus write copies back, twice even, and still no order
\* gets another side, type or price, or more than was asked for.
THEOREM ResentTermsKept == ResendSpec => []StoredOrdersKeepTheirTerms
<1>1. ResendInv => StoredOrdersKeepTheirTerms
  BY DEF ResendInv, TermsOK
<1> QED
  BY <1>1, ResendInvAlways, PTL

\* matchTopOrders trades a LIMIT order at no worse than its limit, also one that a
\* second ZADD has put back into the book.
THEOREM ResentLimitsHonoured == ResendSpec => []TradesHonourLimits
<1>1. ResendInv => TradesHonourLimits
  BY DEF ResendInv, TermsOK
<1> QED
  BY <1>1, ResendInvAlways, PTL

\* Of all commands, once or twice, only addOrder's own ZADD puts an order in.
LEMMA RelistedStep ==
  ASSUME ResendInv, [ResendNext]_vars, NEW o \in listed, ~InBook(o), InBook(o)'
  PROVE  \E h \in Handlers : pc[h] = "addToBook" /\ call[h].subject = o
<1>1. TypeInv /\ StoredOK
  BY DEF ResendInv
<1>2. CASE [Next]_vars
  BY <1>1, <1>2, EntersFromCreator DEF Creates
<1>3. ASSUME NEW h \in Handlers, LoseReply(h)
      PROVE  pc[h] = "addToBook" /\ call[h].subject = o
  <2>1. CASE UNCHANGED book
    BY <2>1 DEF InBook
  <2>2. CASE pc[h] = "removeOrder"
    <3>1. \A s \in Sides : \A p \in Members(book'[s]) : p \in Members(book[s])
      BY <1>1, <1>3, <2>2, LostReply, BookRemoved
    <3> QED
      BY <3>1 DEF InBook
  <2>3. CASE pc[h] = "addToBook"
    <3> PICK p : p = call[h].subject
      OBVIOUS
    <3> PICK side : side = placed[p].side
      OBVIOUS
    <3> PICK score : score = ScoreOf(side, call[h].price)
      OBVIOUS
    <3>1. p \in Orders /\ side \in Sides /\ Ranks(side, p, score)
      BY <1>1, <1>3, <2>3, LostReply, CreatorType DEF Ranks, ZAdd, Adding
    <3>2. \A s \in Sides : \A q \in Members(book'[s]) :
            (s = side /\ q = p /\ book'[s][q] = score) \/ (q \in Members(book[s]) /\ book'[s][q] = book[s][q])
      BY <1>1, <3>1, BookAdded
    <3> QED
      BY <2>3, <3>2 DEF InBook
  <2> QED
    BY <1>1, <1>3, <2>1, <2>2, <2>3, LostReply
<1> QED
  BY <1>2, <1>3 DEF ResendNext

\* An order that a match, a cancel or a fill took out of the book comes back only by
\* the ZADD of its own createOrder, sent again before that createOrder is answered.
THEOREM RelistedByCreator == ResendSpec => RelistedByCreatorOnly
<1>1. ResendInv /\ [ResendNext]_vars =>
        [\A o \in listed : ~InBook(o) /\ InBook(o)' =>
           \E h \in Handlers : pc[h] = "addToBook" /\ call[h].subject = o]_vars
  BY RelistedStep
<1> QED
  BY <1>1, ResendInvAlways, PTL DEF ResendSpec, RelistedByCreatorOnly
=============================================================================
