------------------------- MODULE NotificationsProofs -------------------------
(***************************************************************************)
(* What a subscriber hears, for any number of handlers and orders and any  *)
(* length of the stream.  The broadcasts change nothing of OrderMatching,  *)
(* whose inductive invariant therefore holds beside them.                  *)
(***************************************************************************)
EXTENDS NotificationsInvariant, OrderMatchingTermsProofs, FunctionTheorems, FiniteSetTheorems

(* Counting.                                                                *)

\* The positions of t in a sequence are finitely many.
LEMMA PlacesFinite ==
  ASSUME NEW S, NEW s \in Seq(S), NEW t
  PROVE  /\ IsFiniteSet({i \in 1 .. Len(s) : s[i] = t})
         /\ Times(t, s) \in Nat
<1>1. IsFiniteSet(1 .. Len(s))
  BY FS_Interval
<1>2. IsFiniteSet({i \in 1 .. Len(s) : s[i] = t})
  BY <1>1, FS_Subset
<1> QED
  BY <1>2, FS_CardinalityType DEF Times

\* A sequence r that is s with one element more, at k, has t as often as s and
\* once more if that element is t.
LEMMA OneMore ==
  ASSUME NEW S, NEW s \in Seq(S), NEW r \in Seq(S), NEW t,
         Len(r) = Len(s) + 1, NEW k \in 1 .. Len(r),
         \A j \in 1 .. k - 1 : r[j] = s[j],
         \A j \in k + 1 .. Len(r) : r[j] = s[j - 1]
  PROVE  Times(t, r) = Times(t, s) + (IF r[k] = t THEN 1 ELSE 0)
<1> DEFINE A == {i \in 1 .. Len(s) : s[i] = t}
           B == {i \in 1 .. Len(r) : r[i] = t}
           f == [i \in A |-> IF i < k THEN i ELSE i + 1]
<1>1. IsFiniteSet(A) /\ IsFiniteSet(B) /\ Cardinality(B) \in Nat
  BY PlacesFinite DEF Times
<1>2. f \in Bijection(A, B \ {k})
  <2>1. \A i \in A : f[i] \in B \ {k}
    OBVIOUS
  <2>2. \A i, j \in A : f[i] = f[j] => i = j
    OBVIOUS
  <2>3. ASSUME NEW j \in B \ {k}
        PROVE  \E i \in A : f[i] = j
    <3>1. CASE j < k
      <4>1. j \in A /\ f[j] = j
        BY <3>1
      <4> QED
        BY <4>1
    <3>2. CASE j > k
      <4>1. j - 1 \in A /\ f[j - 1] = j
        BY <3>2
      <4> QED
        BY <4>1
    <3>3. j < k \/ j > k
      OBVIOUS
    <3> QED
      BY <3>1, <3>2, <3>3
  <2> QED
    BY <2>1, <2>2, <2>3, Fun_IsBij
<1> HIDE DEF A, f
<1>3. Cardinality(B \ {k}) = Cardinality(A)
  BY <1>1, <1>2, FS_Bijection DEF ExistsBijection
<1>4. Cardinality(B \ {k}) = IF k \in B THEN Cardinality(B) - 1 ELSE Cardinality(B)
  BY <1>1, FS_RemoveElement
<1>5. k \in B <=> r[k] = t
  OBVIOUS
<1>6. Cardinality(B) = Cardinality(A) + (IF r[k] = t THEN 1 ELSE 0)
  <2> HIDE DEF B
  <2> QED
    BY <1>1, <1>3, <1>4, <1>5
<1> QED
  BY <1>6 DEF Times, A

\* An element at the end.
LEMMA TimesAppend ==
  ASSUME NEW S, NEW s \in Seq(S), NEW e \in S, NEW t
  PROVE  Times(t, Append(s, e)) = Times(t, s) + (IF e = t THEN 1 ELSE 0)
<1> DEFINE r == Append(s, e)
<1>1. /\ r \in Seq(S) /\ Len(r) = Len(s) + 1 /\ r[Len(s) + 1] = e
      /\ \A j \in 1 .. Len(s) : r[j] = s[j]
  OBVIOUS
<1> HIDE DEF r
<1>2. /\ Len(s) + 1 \in 1 .. Len(r)
      /\ \A j \in 1 .. (Len(s) + 1) - 1 : r[j] = s[j]
      /\ \A j \in (Len(s) + 1) + 1 .. Len(r) : r[j] = s[j - 1]
  BY <1>1
<1>3. Times(t, r) = Times(t, s) + (IF r[Len(s) + 1] = t THEN 1 ELSE 0)
  BY <1>1, <1>2, OneMore
<1> QED
  BY <1>1, <1>3 DEF r

\* An element at the head.
LEMMA TimesTail ==
  ASSUME NEW S, NEW s \in Seq(S), s # <<>>, NEW t
  PROVE  Times(t, s) = Times(t, Tail(s)) + (IF Head(s) = t THEN 1 ELSE 0)
<1> DEFINE r == Tail(s)
<1>1. /\ r \in Seq(S) /\ Len(s) = Len(r) + 1 /\ Head(s) = s[1]
      /\ \A j \in 1 .. Len(r) : r[j] = s[j + 1]
  OBVIOUS
<1> HIDE DEF r
<1>2. /\ 1 \in 1 .. Len(s)
      /\ \A j \in 1 .. 1 - 1 : s[j] = r[j]
      /\ \A j \in 1 + 1 .. Len(s) : s[j] = r[j - 1]
  BY <1>1
<1>3. Times(t, s) = Times(t, r) + (IF s[1] = t THEN 1 ELSE 0)
  BY <1>1, <1>2, OneMore
<1> QED
  BY <1>1, <1>3 DEF r

\* What the stream keeps of its entries.
LEMMA TimesSuffix ==
  ASSUME NEW S, NEW s \in Seq(S), NEW n \in 0 .. Len(s), NEW t
  PROVE  Times(t, SubSeq(s, n + 1, Len(s))) <= Times(t, s)
<1> DEFINE r == SubSeq(s, n + 1, Len(s))
           A == {i \in 1 .. Len(r) : r[i] = t}
           B == {i \in 1 .. Len(s) : s[i] = t}
           f == [i \in A |-> i + n]
<1>1. r \in Seq(S) /\ Len(r) = Len(s) - n /\ \A i \in 1 .. Len(r) : r[i] = s[i + n]
  OBVIOUS
<1> HIDE DEF r
<1>2. f \in Injection(A, B)
  <2>1. \A i \in A : f[i] \in B
    BY <1>1
  <2>2. \A i, j \in A : f[i] = f[j] => i = j
    OBVIOUS
  <2> QED
    BY <2>1, <2>2, Fun_IsInj
<1>3. IsFiniteSet(B)
  BY PlacesFinite
<1> HIDE DEF f
<1>4. Cardinality(A) <= Cardinality(B)
  BY <1>2, <1>3, FS_Injection
<1> QED
  BY <1>4 DEF Times, r

\* Nothing occurs in the empty sequence.
LEMMA TimesEmpty ==
  ASSUME NEW t
  PROVE  Times(t, <<>>) = 0
<1>1. {i \in 1 .. Len(<<>>) : <<>>[i] = t} = {}
  OBVIOUS
<1> QED
  BY <1>1, FS_EmptySet DEF Times

\* Of what does not occur, there is nothing to count.
LEMMA TimesZero ==
  ASSUME NEW S, NEW s \in Seq(S), NEW t, \A i \in 1 .. Len(s) : s[i] # t
  PROVE  Times(t, s) = 0
<1>1. {i \in 1 .. Len(s) : s[i] = t} = {}
  OBVIOUS
<1> QED
  BY <1>1, FS_EmptySet DEF Times

\* Two sets of handlers that differ in h at most.
LEMMA OneHandler ==
  ASSUME NEW A \in SUBSET Handlers, NEW B \in SUBSET Handlers, NEW h \in Handlers,
         \A g \in Handlers \ {h} : g \in A <=> g \in B
  PROVE  /\ Cardinality(A) \in Nat /\ Cardinality(B) \in Nat
         /\ Cardinality(B) + (IF h \in A THEN 1 ELSE 0) = Cardinality(A) + (IF h \in B THEN 1 ELSE 0)
<1>1. IsFiniteSet(A) /\ IsFiniteSet(B)
  BY HandlersAssumption, FS_Subset
<1>2. Cardinality(A) \in Nat /\ Cardinality(B) \in Nat
  BY <1>1, FS_CardinalityType
<1>3. A \ {h} = B \ {h}
  OBVIOUS
<1>4. /\ Cardinality(A \ {h}) = IF h \in A THEN Cardinality(A) - 1 ELSE Cardinality(A)
      /\ Cardinality(B \ {h}) = IF h \in B THEN Cardinality(B) - 1 ELSE Cardinality(B)
  BY <1>1, FS_RemoveElement
<1> QED
  BY <1>2, <1>3, <1>4

(* Broadcasts.                                                              *)

\* What a handler has matched is a trade.
LEMMA TradeTyped ==
  ASSUME TypeInv, NEW h \in Handlers, pc[h] = "storeTrade" \/ Matched(h)
  PROVE  TradeOf(h) \in TradeType
<1>1. \A s \in Sides : call[h].top[s].orderId \in Orders
  BY MatchArithmetic DEF EntryType
<1> QED
  BY <1>1, MatchArithmetic DEF TradeOf, TradeType, Sides

\* The broadcast of a trade.
LEMMA UpdateTyped ==
  ASSUME NEW t
  PROVE  /\ UpdateOf(t).eventEmit = "tradeUpdate" /\ UpdateOf(t).data = t
         /\ \A u : UpdateOf(t) = UpdateOf(u) => t = u
         /\ t \in TradeType => UpdateOf(t) \in BroadcastType /\ UpdateOf(t) # NoBroadcast
<1>1. UpdateOf(t).eventEmit = "tradeUpdate" /\ UpdateOf(t).data = t
  BY DEF UpdateOf, Success
<1>2. ASSUME t \in TradeType
      PROVE  UpdateOf(t) \in BroadcastType /\ UpdateOf(t) # NoBroadcast
  <2>1. UpdateOf(t) \in BroadcastType
    BY <1>2 DEF UpdateOf, Success, BroadcastType
  <2> QED
    BY <2>1, NoBroadcastAssumption
<1>3. \A u : UpdateOf(t) = UpdateOf(u) => t = u
  BY DEF UpdateOf, Success
<1> QED
  BY <1>1, <1>2, <1>3

\* A broadcast is of a trade or of an order.
LEMMA BroadcastKinds ==
  ASSUME NEW u \in BroadcastType
  PROVE  /\ u # NoBroadcast
         /\ \/ u.eventEmit = "tradeUpdate" /\ u.data \in TradeType /\ u = UpdateOf(u.data)
            \/ u.eventEmit = "orderBookUpdate" /\ u.data \in OrderData
  BY NoBroadcastAssumption DEF BroadcastType, UpdateOf, Success

\* What each handler broadcasts with its answer.
LEMMA BroadcastOf ==
  ASSUME TypeInv, NEW h \in Handlers, pc[h] = "respond"
  PROVE  /\ Broadcast(h) \in BroadcastType \cup {NoBroadcast}
         /\ call[h].event = "matchTopOrders" /\ Matched(h) => Broadcast(h) = UpdateOf(TradeOf(h))
         /\ call[h].event = "matchTopOrders" /\ ~Matched(h) => Broadcast(h) = NoBroadcast
         /\ call[h].event # "matchTopOrders" =>
              \/ call[h].event = "createOrder" /\ Matched(h) /\ Broadcast(h) = NoBroadcast
              \/ /\ call[h].event \in {"createOrder", "cancelOrder", "fillOrder"}
                 /\ call[h].event = "createOrder" => ~Matched(h)
                 /\ Broadcast(h) # NoBroadcast
                 /\ Broadcast(h).eventEmit = "orderBookUpdate"
                 /\ Broadcast(h).data.orderId = call[h].subject
                 /\ Broadcast(h).data.status = ToldStatus[call[h].event]
<1>1. EventOK(h) /\ call[h] \in CallType
  BY DEF TypeInv, FrameOK, TypeOK
<1>2. CASE call[h].event = "matchTopOrders" /\ Matched(h)
  <2>1. Broadcast(h) = UpdateOf(TradeOf(h))
    BY <1>2 DEF Broadcast, Silent, TradeUpdate, UpdateOf, TradeOf
  <2> QED
    BY <1>2, <2>1, TradeTyped, UpdateTyped
<1>3. CASE Silent(h)
  BY <1>3 DEF Broadcast, Silent
<1>4. CASE call[h].event # "matchTopOrders" /\ ~Silent(h)
  <2>1. call[h].event \in {"createOrder", "cancelOrder", "fillOrder"} /\ call[h].subject \in Orders
    BY <1>1, <1>4 DEF EventOK, CallType, IncomingEvents
  <2>2. Broadcast(h) = BookUpdate(h)
    BY <1>4 DEF Broadcast
  <2>3. ToldStatus[call[h].event] \in TradeStatuses
    BY <2>1 DEF ToldStatus, TradeStatuses
  <2>4. /\ BookUpdate(h).eventEmit = "orderBookUpdate"
        /\ BookUpdate(h).data.orderId = call[h].subject
        /\ BookUpdate(h).data.status = ToldStatus[call[h].event]
        /\ BookUpdate(h) \in BroadcastType
    <3>1. PayloadKey(UpdateKeys[call[h].event]) \in
            {PayloadKey(UpdateKeys[event]) : event \in DOMAIN UpdateKeys}
      BY <2>1 DEF UpdateKeys
    <3> QED
      BY <2>1, <2>3, <3>1 DEF BookUpdate, Success, BroadcastType, OrderData
  <2>5. BookUpdate(h) # NoBroadcast
    BY <2>4, NoBroadcastAssumption
  <2> QED
    BY <1>4, <2>1, <2>2, <2>4, <2>5 DEF Silent
<1> QED
  BY <1>2, <1>3, <1>4 DEF Silent

(* What the steps of handlers do to what there is to tell.                  *)

\* Whoever has matched keeps to that trade until it answers, and nobody comes to
\* have matched but by storing a trade.
LEMMA MatchedKept ==
  ASSUME TypeInv, NEW h \in Handlers, Request(h) \/ Run(h) \/ Fail(h), ~StoreTrade(h),
         call'[h] # NoCall
  PROVE  /\ Matched(h)' <=> Matched(h)
         /\ Matched(h) => call'[h].top = call[h].top /\ call'[h].event = call[h].event
<1>1. EventOK(h) /\ call[h] \in CallType
  BY DEF TypeInv, FrameOK, TypeOK
<1>2. CASE Request(h)
  <2>1. call'[h].settling = call[h].settling /\ ~Matched(h)
    BY <1>1, <1>2, NoCallFields DEF Request, RequestCreate, RequestMatch, RequestCancel, RequestFill,
      EventOK, Matched, TypeInv, TypeOK, CallType
  <2> QED
    BY <2>1 DEF Matched
<1>3. CASE RankBids(h) \/ RankAsks(h)
  BY <1>1, <1>3, MatchingKeeps DEF RankBids, RankAsks, EventOK, Matching, Matched
<1>4. CASE \/ ReadBid(h) \/ ReadAsk(h) \/ RankOpposite(h) \/ ReadOpposite(h)
           \/ ReadLastTrade(h) \/ SaveOrder(h) \/ AddToBook(h)
  <2>1. ~Matched(h)
    BY <1>1, <1>4 DEF ReadBid, ReadAsk, RankOpposite, ReadOpposite, ReadLastTrade, SaveOrder,
      AddToBook, EventOK, Matching, Adding
  <2>2. CASE ReadBid(h) \/ ReadAsk(h)
    <3>1. PICK s \in Sides : ReadRanked(h, s)
      BY <2>2 DEF ReadBid, ReadAsk, Sides
    <3>2. PICK top : call' = [call EXCEPT ![h].top = top]
      BY <1>1, <3>1 DEF ReadRanked, Throws, TypeInv, TypeOK
    <3> QED
      BY <1>1, <2>1, <3>2 DEF Matched, TypeInv, TypeOK, CallType
  <2>3. CASE SaveOrder(h) \/ ReadLastTrade(h) \/ AddToBook(h) \/ ReadOpposite(h)
    BY <1>1, <2>1, <2>3 DEF SaveOrder, ReadLastTrade, AddToBook, ReadOpposite, Throws, Matched,
      TypeInv, TypeOK, CallType
  <2>4. CASE RankOpposite(h)
    BY <1>1, <2>1, <2>4 DEF RankOpposite, Matched, TypeInv, TypeOK, CallType
  <2> QED
    BY <1>4, <2>2, <2>3, <2>4
<1>5. CASE Continue(h)
  BY <1>5, ContinueKeeps
<1>6. CASE \/ CheckOpen(h) \/ ReadForStatus(h) \/ RemoveOrder(h) \/ SaveStatus(h)
           \/ ReadForUpdate(h) \/ SaveUpdate(h)
  <2>1. CASE Continue(h)
    BY <1>5, <2>1
  <2>2. CASE UNCHANGED call
    BY <2>2 DEF Matched
  <2>3. ASSUME NEW read, call' = [call EXCEPT ![h].read = read]
        PROVE  call'[h].settling = call[h].settling /\ call'[h].top = call[h].top
               /\ call'[h].event = call[h].event
    BY <1>1, <2>3 DEF TypeInv, TypeOK, CallType
  <2> QED
    BY <1>6, <2>1, <2>2, <2>3 DEF CheckOpen, ReadForStatus, RemoveOrder, SaveStatus, ReadForUpdate,
      SaveUpdate, Matched
<1>7. CASE Respond(h) \/ RespondError(h) \/ Fail(h)
  BY <1>7 DEF Respond, RespondError, Fail, Throws, TypeInv, TypeOK
<1> QED
  BY <1>2, <1>3, <1>4, <1>6, <1>7 DEF Run

\* A sequence after e has been inserted at place i.
LEMMA InsertedOnce ==
  ASSUME NEW S, NEW s \in Seq(S), NEW e \in S, NEW i \in 0 .. Len(s)
  PROVE  /\ InsertAfter(s, i, e) \in Seq(S)
         /\ \A j \in 1 .. Len(s) :
              \E k \in 1 .. Len(InsertAfter(s, i, e)) : InsertAfter(s, i, e)[k] = s[j]
         /\ \E k \in 1 .. Len(InsertAfter(s, i, e)) : InsertAfter(s, i, e)[k] = e
         /\ \A k \in 1 .. Len(InsertAfter(s, i, e)) :
              InsertAfter(s, i, e)[k] = e \/ \E j \in 1 .. Len(s) : InsertAfter(s, i, e)[k] = s[j]
         /\ \A t : Times(t, InsertAfter(s, i, e)) = Times(t, s) + (IF e = t THEN 1 ELSE 0)
<1> DEFINE r == InsertAfter(s, i, e)
<1>4. Len(s) \in Nat /\ i \in Nat /\ i <= Len(s)
  OBVIOUS
<1>6. /\ r \in Seq(S) /\ Len(r) = Len(s) + 1 /\ r[i + 1] = e
      /\ \A j \in 1 .. i : r[j] = s[j]
      /\ \A j \in i + 1 .. Len(s) : r[j + 1] = s[j]
  BY InsertedAt
<1> HIDE DEF r
<1>7. ASSUME NEW j \in 1 .. i
      PROVE  r[j] = s[j]
  BY <1>6
<1>8. ASSUME NEW j \in i + 1 .. Len(s)
      PROVE  r[j + 1] = s[j]
  BY <1>6
<1>9. ASSUME NEW j \in 1 .. Len(s)
      PROVE  \E k \in 1 .. Len(r) : r[k] = s[j]
  <2>1. CASE j <= i
    <3>1. j \in 1 .. i /\ j \in 1 .. Len(r)
      BY <1>4, <1>6, <2>1
    <3> QED
      BY <1>7, <3>1
  <2>2. CASE j > i
    <3>1. j \in i + 1 .. Len(s) /\ j + 1 \in 1 .. Len(r)
      BY <1>4, <1>6, <2>2
    <3> QED
      BY <1>8, <3>1
  <2>3. j <= i \/ j > i
    BY <1>4
  <2> QED
    BY <2>1, <2>2, <2>3
<1>10. i + 1 \in 1 .. Len(r)
  BY <1>4, <1>6
<1>11. ASSUME NEW k \in i + 2 .. Len(r)
       PROVE  k - 1 \in 1 .. Len(s) /\ r[k] = s[k - 1]
  <2>1. k - 1 \in i + 1 .. Len(s) /\ (k - 1) + 1 = k /\ k - 1 \in 1 .. Len(s)
    BY <1>4, <1>6
  <2>2. r[(k - 1) + 1] = s[k - 1]
    BY <1>8, <2>1
  <2> QED
    BY <2>1, <2>2
<1>12. ASSUME NEW k \in 1 .. Len(r)
       PROVE  r[k] = e \/ \E j \in 1 .. Len(s) : r[k] = s[j]
  <2>1. k \in 1 .. i \/ k = i + 1 \/ k \in i + 2 .. Len(r)
    BY <1>4, <1>6
  <2>2. CASE k \in 1 .. i
    <3>1. k \in 1 .. Len(s)
      BY <1>4, <2>2
    <3> QED
      BY <1>7, <2>2, <3>1
  <2> QED
    BY <1>6, <1>11, <2>1, <2>2
<1>13. ASSUME NEW t
       PROVE  Times(t, r) = Times(t, s) + (IF e = t THEN 1 ELSE 0)
  <2>1. \A j \in 1 .. (i + 1) - 1 : r[j] = s[j]
    BY <1>4, <1>7
  <2>2. \A k \in (i + 1) + 1 .. Len(r) : r[k] = s[k - 1]
    BY <1>4, <1>11
  <2>3. Times(t, r) = Times(t, s) + (IF r[i + 1] = t THEN 1 ELSE 0)
    BY <1>6, <1>10, <2>1, <2>2, OneMore
  <2> QED
    BY <1>6, <2>3
<1> QED
  BY <1>6, <1>9, <1>10, <1>12, <1>13 DEF r

\* A stored trade is one more of its kind, and the others stay.
LEMMA TradeStored ==
  ASSUME TypeInv, NEW h \in Handlers, StoreTrade(h)
  PROVE  /\ TradeOf(h) \in TradeType
         /\ TradeOf(h)' = TradeOf(h) /\ IsStored(TradeOf(h))'
         /\ \A t : IsStored(t) => IsStored(t)'
         /\ \A t : IsStored(t)' => IsStored(t) \/ t = TradeOf(h)
         /\ \A t : Times(t, trades') = Times(t, trades) + (IF TradeOf(h) = t THEN 1 ELSE 0)
         /\ call'[h].event = call[h].event /\ ~Matched(h) /\ Matched(h)'
<1> DEFINE e == TradeOf(h)
<1>1. e \in TradeType
  BY TradeTyped DEF StoreTrade
<1>2. trades \in Seq(TradeType) /\ EventOK(h) /\ TypeOK
  BY DEF TypeInv, TypeOK, FrameOK
<1>3. PICK i \in 0 .. Len(trades) : trades' = InsertAfter(trades, i, e)
  BY DEF StoreTrade, TradeOf, InsertAfter
<1>4. call'[h].top = call[h].top /\ call'[h].event = call[h].event /\ call'[h].settling = "BUY"
  BY <1>2, SetSettling DEF StoreTrade, Sides
<1>5. ~Matched(h) /\ Matched(h)'
  BY <1>2, <1>4 DEF StoreTrade, EventOK, Matching, Matched
<1>6. TradeOf(h)' = e
  BY <1>4 DEF TradeOf, MatchQuantity, MatchPrice
<1>7. /\ \A j \in 1 .. Len(trades) : \E k \in 1 .. Len(trades') : trades'[k] = trades[j]
      /\ \E k \in 1 .. Len(trades') : trades'[k] = e
      /\ \A k \in 1 .. Len(trades') : trades'[k] = e \/ \E j \in 1 .. Len(trades) : trades'[k] = trades[j]
      /\ \A t : Times(t, trades') = Times(t, trades) + (IF e = t THEN 1 ELSE 0)
  <2> DEFINE r == InsertAfter(trades, i, e)
  <2> HIDE DEF e
  <2>1. /\ \A j \in 1 .. Len(trades) : \E k \in 1 .. Len(r) : r[k] = trades[j]
        /\ \E k \in 1 .. Len(r) : r[k] = e
        /\ \A k \in 1 .. Len(r) : r[k] = e \/ \E j \in 1 .. Len(trades) : r[k] = trades[j]
        /\ \A t : Times(t, r) = Times(t, trades) + (IF e = t THEN 1 ELSE 0)
    BY <1>1, <1>2, InsertedOnce
  <2>2. trades' = r
    BY <1>3
  <2> HIDE DEF r
  <2> QED
    BY <2>1, <2>2
<1>8. \A t : IsStored(t)' <=> \E k \in 1 .. Len(trades') : t = trades'[k]
  BY DEF IsStored
<1> QED
  BY <1>1, <1>4, <1>5, <1>6, <1>7, <1>8 DEF IsStored

\* Nothing else changes the trades.
LEMMA TradesStay ==
  ASSUME NEW h \in Handlers, Request(h) \/ Run(h) \/ Fail(h), ~StoreTrade(h)
  PROVE  trades' = trades
  BY DEF Request, RequestCreate, RequestMatch, RequestCancel, RequestFill, Run, RankBids, RankAsks,
    ReadBid, ReadAsk, ReadRanked, CheckOpen, ReadForStatus, RemoveOrder, SaveStatus, ReadForUpdate,
    SaveUpdate, SaveOrder, RankOpposite, ReadOpposite, ReadLastTrade, AddToBook, Respond,
    RespondError, Fail, redis

\* The events and commands of handlers, as Notifications has them.
HandlerStep(h) == Request(h) \/ Run(h) \/ Fail(h)

\* A stored trade stays stored.
LEMMA StoredStays ==
  ASSUME TypeInv, NEW h \in Handlers, HandlerStep(h), NEW t, IsStored(t)
  PROVE  IsStored(t)'
<1>1. CASE StoreTrade(h)
  BY <1>1, TradeStored
<1>2. CASE ~StoreTrade(h)
  BY <1>2, TradesStay DEF HandlerStep, IsStored
<1> QED
  BY <1>1, <1>2

\* Handlers step as in OrderMatching; only the answer has something to publish.
LEMMA HandlersStep ==
  ASSUME faults \in Nat, NNext
  PROVE  \/ \E h \in Handlers :
              /\ HandlerStep(h) /\ ~Respond(h)
              /\ UNCHANGED <<publishing, unread, trimmed, announced, tradeUpdates>>
         \/ \E h \in Handlers : Notify(h)
         \/ \E h \in Handlers : Publish(h)
         \/ Receive
<1>1. ASSUME NEW h \in Handlers, Accept(h) \/ Handle(h) \/ Abandon(h)
      PROVE  /\ HandlerStep(h)
             /\ UNCHANGED <<publishing, unread, trimmed, announced, tradeUpdates>>
  BY <1>1 DEF Accept, Handle, Abandon, HandlerStep, feed, subscriber
<1>2. ASSUME NEW h \in Handlers, Accept(h) \/ Handle(h)
      PROVE  ~Respond(h)
  BY <1>2 DEF Accept, Handle, Respond, Request, RequestCreate, RequestMatch, RequestCancel, RequestFill
<1>3. ASSUME NEW h \in Handlers, Abandon(h)
      PROVE  ~Respond(h)
  BY <1>3 DEF Abandon, Fail, Respond
<1> QED
  BY <1>1, <1>2, <1>3 DEF NNext

\* XADD with MAXLEN: a part of the old stream and the broadcast of h, all of it
\* unless something is trimmed.
LEMMA PublishedStream ==
  ASSUME NTypeOK, NEW h \in Handlers, Publish(h)
  PROVE  /\ publishing[h] \in BroadcastType
         /\ Append(unread, publishing[h]) \in Seq(BroadcastType)
         /\ \E n \in 0 .. Len(unread) :
              /\ unread' = SubSeq(Append(unread, publishing[h]), n + 1, Len(unread) + 1)
              /\ trimmed' = (trimmed \/ n > 0)
<1>1. publishing[h] \in BroadcastType
  BY DEF Publish, NTypeOK
<1>2. /\ Append(unread, publishing[h]) \in Seq(BroadcastType)
      /\ Len(Append(unread, publishing[h])) = Len(unread) + 1
      /\ Len(unread) \in Nat
  BY <1>1 DEF NTypeOK
<1>3. 0 .. (Len(unread) + 1) - 1 = 0 .. Len(unread)
  BY <1>2
<1> QED
  BY <1>1, <1>2, <1>3 DEF Publish

\* Types.
LEMMA NTypeNext == TypeInv /\ NTypeOK /\ [NNext]_nvars => NTypeOK'
<1> SUFFICES ASSUME TypeInv, NTypeOK, [NNext]_nvars
             PROVE  NTypeOK'
  OBVIOUS
<1>1. ASSUME UNCHANGED <<publishing, unread, trimmed, announced, tradeUpdates>>
      PROVE  NTypeOK'
  BY <1>1 DEF NTypeOK
<1>2. ASSUME NEW h \in Handlers, Notify(h)
      PROVE  NTypeOK'
  <2>1. Broadcast(h) \in BroadcastType \cup {NoBroadcast}
    BY <1>2, BroadcastOf DEF Notify, Respond
  <2> QED
    BY <1>2, <2>1 DEF Notify, NTypeOK, subscriber
<1>3. ASSUME NEW h \in Handlers, Publish(h)
      PROVE  NTypeOK'
  <2>1. PICK n \in 0 .. Len(unread) :
          /\ unread' = SubSeq(Append(unread, publishing[h]), n + 1, Len(unread) + 1)
          /\ trimmed' = (trimmed \/ n > 0)
    BY <1>3, PublishedStream
  <2> DEFINE stream == Append(unread, publishing[h])
  <2>2. stream \in Seq(BroadcastType) /\ Len(stream) = Len(unread) + 1 /\ Len(unread) \in Nat
    BY <1>3, PublishedStream DEF NTypeOK
  <2> HIDE DEF stream
  <2>3. SubSeq(stream, n + 1, Len(unread) + 1) \in Seq(BroadcastType)
    BY <2>2
  <2>4. unread' \in Seq(BroadcastType)
    BY <2>1, <2>3 DEF stream
  <2> QED
    BY <1>3, <2>1, <2>4 DEF Publish, NTypeOK, subscriber
<1>4. ASSUME Receive
      PROVE  NTypeOK'
  <2>1. Head(unread) \in BroadcastType /\ Tail(unread) \in Seq(BroadcastType)
    BY <1>4 DEF Receive, NTypeOK
  <2>2. CASE Head(unread).eventEmit = "tradeUpdate"
    <3>1. Head(unread).data \in TradeType
      BY <2>1, <2>2, BroadcastKinds
    <3>2. tradeUpdates' = Append(tradeUpdates, Head(unread).data) /\ announced' = announced
      BY <1>4, <2>2 DEF Receive
    <3>3. tradeUpdates' \in Seq(TradeType)
      BY <3>1, <3>2 DEF NTypeOK
    <3> QED
      BY <1>4, <2>1, <3>2, <3>3 DEF Receive, NTypeOK
  <2>3. CASE Head(unread).eventEmit # "tradeUpdate"
    <3>1. Head(unread).data \in OrderData
      BY <2>1, <2>3, BroadcastKinds
    <3>2. Head(unread).data.orderId \in Orders /\ Head(unread).data.status \in TradeStatuses
      BY <3>1 DEF OrderData
    <3> QED
      BY <1>4, <2>1, <2>3, <3>2 DEF Receive, NTypeOK
  <2> QED
    BY <2>2, <2>3
<1>5. CASE NNext
  BY <1>1, <1>2, <1>3, <1>4, <1>5, HandlersStep DEF TypeInv, TypeOK
<1>6. CASE UNCHANGED nvars
  BY <1>1, <1>6 DEF nvars, feed, subscriber
<1> QED
  BY <1>5, <1>6

\* An instance that takes on an event has nothing to publish.
LEMMA PublishingNext ==
  TypeInv /\ NTypeOK /\ PublishingOK /\ [NNext]_nvars => PublishingOK'
<1> SUFFICES ASSUME TypeInv, NTypeOK, PublishingOK, [NNext]_nvars
             PROVE  PublishingOK'
  OBVIOUS
<1>1. ASSUME NEW h \in Handlers, Accept(h) \/ Handle(h) \/ Notify(h) \/ Abandon(h),
             NEW g \in Handlers, pc'[g] # "idle"
      PROVE  publishing'[g] = NoBroadcast
  <2>1. CASE g = h
    BY <1>1, <2>1 DEF Accept, Handle, Notify, Abandon, Respond, Fail, Throws, Run, Sends, feed,
      PublishingOK, TypeInv, TypeOK, Request, RequestCreate, RequestMatch, RequestCancel, RequestFill,
      RankBids, RankAsks, ReadBid, ReadAsk, StoreTrade, CheckOpen, ReadForStatus, RemoveOrder,
      SaveStatus, ReadForUpdate, SaveUpdate, SaveOrder, RankOpposite, ReadOpposite, ReadLastTrade,
      AddToBook, RespondError
  <2>2. CASE g # h
    <3>1. Request(h) \/ Run(h) \/ Fail(h)
      BY <1>1 DEF Accept, Handle, Notify, Abandon, Run
    <3>2. publishing'[g] = publishing[g] /\ pc'[g] = pc[g]
      BY <1>1, <2>2, <3>1, OthersStay DEF Accept, Handle, Notify, Abandon, feed, NTypeOK
    <3> QED
      BY <1>1, <3>2 DEF PublishingOK
  <2> QED
    BY <2>1, <2>2
<1>2. ASSUME NEW h \in Handlers, Publish(h)
      PROVE  PublishingOK'
  BY <1>2 DEF Publish, PublishingOK, NTypeOK, vars
<1>3. CASE Receive \/ UNCHANGED nvars
  BY <1>3 DEF Receive, PublishingOK, nvars, feed, vars
<1> QED
  BY <1>1, <1>2, <1>3 DEF NNext, PublishingOK

\* An answer brings its broadcast on its way; the other commands bring nothing.
LEMMA PendingHandlers ==
  ASSUME NTypeOK, PublishingOK, NEW h \in Handlers
  PROVE  /\ UNCHANGED <<publishing, unread>> => Pending' = Pending
         /\ Notify(h) => Pending' = (Pending \cup {Broadcast(h)}) \ {NoBroadcast}
<1>1. ASSUME UNCHANGED <<publishing, unread>>
      PROVE  Pending' = Pending
  BY <1>1 DEF Pending
<1>2. ASSUME Notify(h)
      PROVE  Pending' = (Pending \cup {Broadcast(h)}) \ {NoBroadcast}
  <2>1. publishing[h] = NoBroadcast /\ unread' = unread
        /\ publishing' = [publishing EXCEPT ![h] = Broadcast(h)]
    BY <1>2 DEF Notify, Respond, PublishingOK
  <2>2. {publishing'[g] : g \in Handlers} \ {NoBroadcast}
        = ({publishing[g] : g \in Handlers} \cup {Broadcast(h)}) \ {NoBroadcast}
    BY <2>1 DEF NTypeOK
  <2> QED
    BY <2>1, <2>2 DEF Pending
<1> QED
  BY <1>1, <1>2

\* The stream makes nothing up, and loses nothing but what is trimmed.
LEMMA PendingPublish ==
  ASSUME NTypeOK, NEW h \in Handlers, Publish(h)
  PROVE  Pending' \subseteq Pending /\ (~trimmed' => Pending \subseteq Pending')
<1> DEFINE stream == Append(unread, publishing[h])
<1>1. PICK n \in 0 .. Len(unread) :
        unread' = SubSeq(stream, n + 1, Len(unread) + 1) /\ trimmed' = (trimmed \/ n > 0)
  BY PublishedStream
<1>2. /\ stream \in Seq(BroadcastType) /\ Len(stream) = Len(unread) + 1 /\ Len(unread) \in Nat
      /\ stream[Len(unread) + 1] = publishing[h]
      /\ \A i \in 1 .. Len(unread) : stream[i] = unread[i]
  BY PublishedStream DEF NTypeOK
<1>3. publishing[h] # NoBroadcast /\ publishing' = [publishing EXCEPT ![h] = NoBroadcast]
  BY DEF Publish
<1> HIDE DEF stream
<1>4. /\ Len(unread') = (Len(unread) + 1) - n
      /\ \A i \in 1 .. Len(unread') : unread'[i] = stream[i + n]
  BY <1>1, <1>2
<1>5. ASSUME NEW u \in Pending'
      PROVE  u \in Pending
  <2>1. CASE \E g \in Handlers : u = publishing'[g]
    BY <1>3, <2>1 DEF Pending, NTypeOK
  <2>2. CASE \E i \in 1 .. Len(unread') : u = unread'[i]
    <3>1. PICK i \in 1 .. Len(unread') : u = unread'[i]
      BY <2>2
    <3>2. u = stream[i + n] /\ (i + n \in 1 .. Len(unread) \/ i + n = Len(unread) + 1)
      BY <1>2, <1>4, <3>1
    <3>3. u = publishing[h] \/ \E j \in 1 .. Len(unread) : u = unread[j]
      BY <1>2, <3>2
    <3> QED
      BY <1>5, <3>3 DEF Pending
  <2> QED
    BY <1>5, <2>1, <2>2 DEF Pending
<1>6. ASSUME ~trimmed', NEW u \in Pending
      PROVE  u \in Pending'
  <2>0. ~(n > 0) /\ u # NoBroadcast
    BY <1>1, <1>6, Zenon DEF Pending
  <2>1. n = 0 /\ Len(unread') = Len(unread) + 1 /\ u # NoBroadcast
    BY <1>2, <1>4, <2>0
  <2>2. CASE u = publishing[h]
    <3>1. Len(unread) + 1 \in 1 .. Len(unread') /\ unread'[Len(unread) + 1] = u
      BY <1>2, <1>4, <2>1, <2>2
    <3> QED
      BY <2>1, <3>1 DEF Pending
  <2>3. CASE \E g \in Handlers \ {h} : u = publishing[g]
    <3>1. \E g \in Handlers : u = publishing'[g]
      BY <1>3, <2>3 DEF NTypeOK
    <3> QED
      BY <2>1, <3>1 DEF Pending
  <2>4. CASE \E i \in 1 .. Len(unread) : u = unread[i]
    <3>1. PICK i \in 1 .. Len(unread) : u = unread[i]
      BY <2>4
    <3>2. i \in 1 .. Len(unread') /\ unread'[i] = u
      BY <1>2, <1>4, <2>1, <3>1
    <3> QED
      BY <2>1, <3>2 DEF Pending
  <2> QED
    BY <1>6, <2>2, <2>3, <2>4 DEF Pending
<1> QED
  BY <1>5, <1>6

\* What is received was on its way, and the rest still is.
LEMMA PendingReceive ==
  ASSUME NTypeOK, Receive
  PROVE  /\ Head(unread) \in BroadcastType /\ Head(unread) \in Pending
         /\ Pending' \subseteq Pending
         /\ Pending \subseteq Pending' \cup {Head(unread)}
<1>1. /\ unread \in Seq(BroadcastType) /\ unread # <<>>
      /\ unread' = Tail(unread) /\ publishing' = publishing
  BY DEF Receive, NTypeOK
<1>2. /\ Len(unread) \in Nat \ {0} /\ Head(unread) = unread[1] /\ Head(unread) \in BroadcastType
      /\ Len(unread') = Len(unread) - 1
      /\ \A i \in 1 .. Len(unread') : unread'[i] = unread[i + 1]
  BY <1>1
<1>3. 1 \in 1 .. Len(unread) /\ Head(unread) # NoBroadcast
  BY <1>2, NoBroadcastAssumption
<1>4. Head(unread) \in Pending
  BY <1>2, <1>3 DEF Pending
<1>5. ASSUME NEW i \in 1 .. Len(unread')
      PROVE  \E j \in 1 .. Len(unread) : unread'[i] = unread[j]
  <2>1. i + 1 \in 1 .. Len(unread)
    BY <1>2
  <2> QED
    BY <1>2, <2>1
<1>6. ASSUME NEW i \in 1 .. Len(unread), unread[i] # Head(unread)
      PROVE  \E j \in 1 .. Len(unread') : unread'[j] = unread[i]
  <2>1. i # 1
    BY <1>2, <1>6
  <2>2. i - 1 \in 1 .. Len(unread') /\ unread'[i - 1] = unread[(i - 1) + 1] /\ (i - 1) + 1 = i
    BY <1>2, <2>1
  <2> QED
    BY <2>2
<1> QED
  BY <1>1, <1>2, <1>4, <1>5, <1>6 DEF Pending

(* What is heard is true.                                                   *)

\* What is true of the book or of a trade stays true.
LEMMA TruthStays ==
  ASSUME TypeInv, LifeOK, NEW h \in Handlers, HandlerStep(h)
  PROVE  /\ \A u \in BroadcastType : IsTrue(u) => IsTrue(u)'
         /\ \A o \in listed : ~InBook(o) => o \in listed' /\ ~InBook(o)'
<1>1. [Next]_vars
  BY DEF Next, HandlerStep
<1>2. \A o \in listed : ~InBook(o) => o \in listed' /\ ~InBook(o)'
  BY <1>1, NoRelistingStep, ListedGrows
<1>3. ASSUME NEW u \in BroadcastType, IsTrue(u)
      PROVE  IsTrue(u)'
  <2>1. CASE u.eventEmit = "tradeUpdate"
    BY <1>3, <2>1, StoredStays DEF IsTrue
  <2>2. CASE u.eventEmit # "tradeUpdate" /\ u.data.status # "OPEN"
    <3>1. u.data.orderId \in listed /\ ~InBook(u.data.orderId)
      BY <1>3, <2>2 DEF IsTrue
    <3>2. u.data.orderId \in listed' /\ ~InBook(u.data.orderId)'
      BY <1>2, <3>1 DEF InBook
    <3> QED
      BY <2>2, <3>2 DEF IsTrue
  <2> QED
    BY <2>1, <2>2 DEF IsTrue
<1> QED
  BY <1>2, <1>3

\* A handler's broadcast is true: a cancelled or filled order is out of the book,
\* and a matched trade is stored.
LEMMA BroadcastIsTrue ==
  ASSUME IInv, HeardOK, NEW h \in Handlers, pc[h] = "respond", Broadcast(h) # NoBroadcast
  PROVE  IsTrue(Broadcast(h))
<1>1. TypeInv
  BY DEF IInv
<1>2. CASE call[h].event = "matchTopOrders"
  <2>1. Matched(h) /\ Broadcast(h) = UpdateOf(TradeOf(h)) /\ IsStored(TradeOf(h))
    BY <1>1, <1>2, BroadcastOf DEF HeardOK
  <2> QED
    BY <2>1, UpdateTyped DEF IsTrue
<1>3. CASE call[h].event # "matchTopOrders"
  <2>1. /\ call[h].event \in {"createOrder", "cancelOrder", "fillOrder"}
        /\ Broadcast(h).eventEmit = "orderBookUpdate"
        /\ Broadcast(h).data.orderId = call[h].subject
        /\ Broadcast(h).data.status = ToldStatus[call[h].event]
    BY <1>1, <1>3, BroadcastOf
  <2>2. CASE call[h].event = "createOrder"
    BY <2>1, <2>2 DEF IsTrue, ToldStatus
  <2>3. CASE call[h].event \in {"cancelOrder", "fillOrder"}
    <3>1. call[h].subject \in listed /\ ~InBook(call[h].subject)
      BY <2>3 DEF IInv, AnswersOK
    <3> QED
      BY <2>1, <3>1 DEF IsTrue
  <2> QED
    BY <2>1, <2>2, <2>3
<1> QED
  BY <1>2, <1>3

\* Everything on its way is a broadcast.
LEMMA PendingTyped == NTypeOK => Pending \subseteq BroadcastType
  BY DEF NTypeOK, Pending

\* The steps of handlers.
LEMMA HeardHandlers ==
  ASSUME IInv, NTypeOK, PublishingOK, HeardOK, NEW h \in Handlers, HandlerStep(h),
         UNCHANGED <<announced, tradeUpdates>>,
         \A u \in Pending' : u \in Pending \/ (u \in BroadcastType /\ IsTrue(u))
  PROVE  HeardOK'
<1>1. TypeInv /\ LifeOK
  BY DEF IInv
<1>2. ASSUME NEW g \in Handlers, Matched(g)'
      PROVE  IsStored(TradeOf(g))'
  <2>1. CASE g # h
    <3>1. call'[g] = call[g]
      BY <1>1, <2>1, OthersStay DEF HandlerStep
    <3>2. Matched(g) /\ TradeOf(g)' = TradeOf(g)
      BY <1>2, <3>1 DEF Matched, TradeOf, MatchQuantity, MatchPrice
    <3>3. IsStored(TradeOf(g))
      BY <3>2 DEF HeardOK
    <3> QED
      BY <1>1, <3>2, <3>3, StoredStays DEF IsStored
  <2>2. CASE g = h /\ StoreTrade(h)
    BY <1>1, <2>2, TradeStored
  <2>3. CASE g = h /\ ~StoreTrade(h)
    <3>1. call'[h] # NoCall
      BY <1>2, <2>3, NoCallFields DEF Matched
    <3>2. Matched(h) /\ call'[h].top = call[h].top
      BY <1>1, <1>2, <2>3, <3>1, MatchedKept DEF HandlerStep
    <3>3. TradeOf(h)' = TradeOf(h) /\ IsStored(TradeOf(h))
      BY <3>2 DEF HeardOK, TradeOf, MatchQuantity, MatchPrice
    <3> QED
      BY <1>1, <2>3, <3>3, StoredStays DEF IsStored
  <2> QED
    BY <2>1, <2>2, <2>3
<1>3. \A u \in Pending' : IsTrue(u)'
  <2> SUFFICES ASSUME NEW u \in Pending'
               PROVE  IsTrue(u)'
    OBVIOUS
  <2>1. IsTrue(u)
    BY DEF HeardOK
  <2>2. u \in BroadcastType
    BY PendingTyped
  <2> QED
    BY <1>1, <2>1, <2>2, TruthStays
<1>4. (\A o \in Orders : announced[o] \cap {"CANCELLED", "FILLED"} # {} => o \in listed /\ ~InBook(o))'
  BY <1>1, TruthStays DEF HeardOK, InBook
<1>5. (\A i \in 1 .. Len(tradeUpdates) : IsStored(tradeUpdates[i]))'
  BY <1>1, StoredStays DEF HeardOK, IsStored
<1> QED
  BY <1>2, <1>3, <1>4, <1>5 DEF HeardOK

\* What is received was true on its way.
LEMMA HeardReceive ==
  ASSUME IInv, NTypeOK, HeardOK, Receive
  PROVE  HeardOK'
<1> DEFINE update == Head(unread)
<1>1. update \in BroadcastType /\ IsTrue(update) /\ Pending' \subseteq Pending
  BY PendingReceive DEF HeardOK
<1>2. UNCHANGED vars
  BY DEF Receive
<1>3. /\ \A t : IsStored(t)' <=> IsStored(t)
      /\ \A o : InBook(o)' <=> InBook(o)
      /\ \A u : IsTrue(u)' <=> IsTrue(u)
      /\ \A h \in Handlers : Matched(h)' <=> Matched(h)
      /\ \A h \in Handlers : TradeOf(h)' = TradeOf(h)
      /\ listed' = listed
  BY <1>2 DEF vars, IsStored, InBook, IsTrue, Matched, TradeOf, MatchQuantity, MatchPrice
<1>4. /\ \A h \in Handlers : Matched(h)' => IsStored(TradeOf(h))'
      /\ \A u \in Pending' : IsTrue(u)'
  BY <1>1, <1>3 DEF HeardOK, IsStored
<1>5. CASE update.eventEmit = "tradeUpdate"
  <2>1. /\ tradeUpdates' = Append(tradeUpdates, update.data) /\ announced' = announced
        /\ update.data \in TradeType /\ IsStored(update.data)
    BY <1>1, <1>5, BroadcastKinds DEF Receive, IsTrue
  <2>2. \A i \in 1 .. Len(tradeUpdates') :
          tradeUpdates'[i] = update.data \/ \E j \in 1 .. Len(tradeUpdates) : tradeUpdates'[i] = tradeUpdates[j]
    <3> DEFINE e == update.data
    <3> HIDE DEF e
    <3>1. tradeUpdates' = Append(tradeUpdates, e) /\ e \in TradeType /\ tradeUpdates \in Seq(TradeType)
      BY <2>1 DEF e, NTypeOK
    <3>2. \A i \in 1 .. Len(tradeUpdates') :
            tradeUpdates'[i] = e \/ (i \in 1 .. Len(tradeUpdates) /\ tradeUpdates'[i] = tradeUpdates[i])
      BY <3>1
    <3> QED
      BY <3>2 DEF e
  <2>3. \A i \in 1 .. Len(tradeUpdates') : IsStored(tradeUpdates'[i])
    BY <2>1, <2>2 DEF HeardOK
  <2>4. \A o \in Orders :
          announced'[o] \cap {"CANCELLED", "FILLED"} # {} => o \in listed' /\ ~InBook(o)'
    BY <1>3, <2>1 DEF HeardOK
  <2> QED
    BY <1>3, <1>4, <2>3, <2>4 DEF HeardOK
<1>6. CASE update.eventEmit # "tradeUpdate"
  <2>1. /\ tradeUpdates' = tradeUpdates /\ update.data \in OrderData
        /\ announced' = [announced EXCEPT ![update.data.orderId] = @ \cup {update.data.status}]
    BY <1>1, <1>6, BroadcastKinds DEF Receive
  <2>2. update.data.status # "OPEN" => update.data.orderId \in listed /\ ~InBook(update.data.orderId)
    BY <1>1, <1>6 DEF IsTrue
  <2>3. ASSUME NEW o \in Orders, announced'[o] \cap {"CANCELLED", "FILLED"} # {}
        PROVE  o \in listed /\ ~InBook(o)
    <3>1. CASE announced[o] \cap {"CANCELLED", "FILLED"} # {}
      BY <3>1 DEF HeardOK
    <3>2. CASE announced[o] \cap {"CANCELLED", "FILLED"} = {}
      <4>1. o = update.data.orderId /\ update.data.status # "OPEN"
        BY <2>1, <2>3, <3>2 DEF NTypeOK
      <4> QED
        BY <2>2, <4>1
    <3> QED
      BY <3>1, <3>2
  <2> QED
    BY <1>3, <1>4, <2>1, <2>3 DEF HeardOK
<1> QED
  BY <1>5, <1>6

\* Every step.
LEMMA HeardNext ==
  IInv /\ NTypeOK /\ PublishingOK /\ HeardOK /\ [NNext]_nvars => HeardOK'
<1> SUFFICES ASSUME IInv, NTypeOK, PublishingOK, HeardOK, [NNext]_nvars
             PROVE  HeardOK'
  OBVIOUS
<1>1. ASSUME NEW h \in Handlers, HandlerStep(h),
             UNCHANGED <<publishing, unread, trimmed, announced, tradeUpdates>>
      PROVE  HeardOK'
  BY <1>1, PendingHandlers, HeardHandlers
<1>2. ASSUME NEW h \in Handlers, Notify(h)
      PROVE  HeardOK'
  <2>1. HandlerStep(h) /\ pc[h] = "respond" /\ UNCHANGED <<announced, tradeUpdates>>
    BY <1>2 DEF Notify, Respond, HandlerStep, Run, subscriber
  <2>2. Broadcast(h) \in BroadcastType \cup {NoBroadcast}
    BY <2>1, BroadcastOf DEF IInv
  <2>3. \A u \in Pending' : u \in Pending \/ (u \in BroadcastType /\ IsTrue(u))
    BY <1>2, <2>1, <2>2, PendingHandlers, BroadcastIsTrue
  <2> QED
    BY <2>1, <2>3, HeardHandlers
<1>3. ASSUME UNCHANGED <<vars, announced, tradeUpdates>>, Pending' \subseteq Pending
      PROVE  HeardOK'
  <2>1. /\ \A t : IsStored(t)' <=> IsStored(t)
        /\ \A o : InBook(o)' <=> InBook(o)
        /\ \A u : IsTrue(u)' <=> IsTrue(u)
        /\ \A h \in Handlers : Matched(h)' <=> Matched(h)
        /\ \A h \in Handlers : TradeOf(h)' = TradeOf(h)
        /\ listed' = listed
    BY <1>3 DEF vars, IsStored, InBook, IsTrue, Matched, TradeOf, MatchQuantity, MatchPrice
  <2> QED
    BY <1>3, <2>1 DEF HeardOK, IsStored
<1>4. ASSUME NEW h \in Handlers, Publish(h)
      PROVE  HeardOK'
  BY <1>3, <1>4, PendingPublish DEF Publish, subscriber
<1>5. CASE UNCHANGED nvars
  BY <1>3, <1>5 DEF nvars, feed, subscriber, Pending
<1> QED
  BY <1>1, <1>2, <1>4, <1>5, HandlersStep, HeardReceive DEF IInv, TypeInv, TypeOK

(* What happens is heard.                                                   *)

\* Whoever has matched goes on to its answer.
LEMMA MatchedGoesOn ==
  ASSUME TypeInv, NEW h \in Handlers, Request(h) \/ Run(h), Matched(h), ~Respond(h)
  PROVE  Matched(h)' /\ call'[h].top = call[h].top /\ call'[h].event = call[h].event
<1>1. EventOK(h) /\ call[h] \in CallType
  BY DEF TypeInv, FrameOK, TypeOK
<1>2. pc[h] \in Changing
  <2>1. pc[h] # "idle" /\ pc[h] \notin Matching \cup Adding /\ pc[h] # "respondError"
    BY <1>1, NoCallFields DEF EventOK, Matched
  <2>2. pc[h] # "respond"
    BY <2>1 DEF Request, RequestCreate, RequestMatch, RequestCancel, RequestFill, Run, RankBids,
      RankAsks, ReadBid, ReadAsk, StoreTrade, CheckOpen, ReadForStatus, RemoveOrder, SaveStatus,
      ReadForUpdate, SaveUpdate, SaveOrder, RankOpposite, ReadOpposite, ReadLastTrade, AddToBook,
      RespondError
  <2>3. pc[h] \in Commands
    BY DEF TypeInv, TypeOK
  <2> QED
    BY <2>1, <2>2, <2>3 DEF Commands, Matching, Adding, Changing
<1>3. \/ CheckOpen(h) \/ ReadForStatus(h) \/ RemoveOrder(h) \/ SaveStatus(h)
      \/ ReadForUpdate(h) \/ SaveUpdate(h)
  BY <1>2 DEF Request, RequestCreate, RequestMatch, RequestCancel, RequestFill, Run, RankBids,
    RankAsks, ReadBid, ReadAsk, StoreTrade, SaveOrder, RankOpposite, ReadOpposite, ReadLastTrade,
    AddToBook, RespondError, Changing
<1>4. CASE Continue(h)
  BY <1>4, ContinueKeeps
<1>5. CASE UNCHANGED call
  BY <1>5 DEF Matched
<1>6. ASSUME NEW read, call' = [call EXCEPT ![h].read = read]
      PROVE  call'[h].settling = call[h].settling /\ call'[h].top = call[h].top
             /\ call'[h].event = call[h].event
  BY <1>1, <1>6 DEF TypeInv, TypeOK, CallType
<1> QED
  BY <1>1, <1>3, <1>4, <1>5, <1>6 DEF CheckOpen, ReadForStatus, RemoveOrder, SaveStatus,
    ReadForUpdate, SaveUpdate, EventOK, Matched

\* An order leaves the book by the ZREM of a handler that was called with it.
LEMMA LeavesByRemove ==
  ASSUME TypeInv, NEW h \in Handlers, HandlerStep(h), NEW o, InBook(o), ~InBook(o)'
  PROVE  RemoveOrder(h) /\ Target(h) = o
<1>1. CASE book' = book
  BY <1>1 DEF InBook
<1>2. CASE RemoveOrder(h)
  <2>1. call[h].read.side \in Sides /\ Target(h) \in Orders
    BY <1>2, TargetType DEF RemoveOrder, Changing, TypeInv, TypeOK, CallType, OrderType, FrameOK, ReadOK
  <2>2. ASSUME o # Target(h)
        PROVE  \A s \in Sides : o \in Members(book[s]) => o \in Members(book'[s])
    BY <1>2, <2>1, <2>2 DEF RemoveOrder, ZRem, SortedSet, Members, TypeInv, TypeOK
  <2> QED
    BY <1>2, <2>2 DEF InBook
<1>3. CASE AddToBook(h)
  <2>1. EventOK(h) /\ pc[h] \in Adding /\ call[h].subject \in Orders
    BY <1>3 DEF AddToBook, TypeInv, FrameOK, EventOK, Adding
  <2> DEFINE p == call[h].subject
             side == placed[p].side
  <2>2. placed[p] \in OrderType /\ side \in Sides
    BY <2>1 DEF EventOK, Adding, TypeInv, TypeOK, OrderType
  <2>3. ScoreOf(side, call[h].price) # NoScore
    BY NoScoreAssumption DEF ScoreOf, TypeInv, TypeOK, CallType, Prices
  <2>4. \A s \in Sides : o \in Members(book[s]) => o \in Members(book'[s])
    BY <1>3, <2>1, <2>2, <2>3 DEF AddToBook, ZAdd, SortedSet, Members, TypeInv, TypeOK
  <2> QED
    BY <2>4 DEF InBook
<1> QED
  BY <1>1, <1>2, <1>3 DEF HandlerStep, Request, RequestCreate, RequestMatch, RequestCancel,
    RequestFill, Run, RankBids, RankAsks, ReadBid, ReadAsk, ReadRanked, StoreTrade, CheckOpen,
    ReadForStatus, SaveStatus, ReadForUpdate, SaveUpdate, SaveOrder, RankOpposite, ReadOpposite,
    ReadLastTrade, Respond, RespondError, Fail, redis

\* An order enters the book by the ZADD of its createOrder.
LEMMA EntersByAdd ==
  ASSUME TypeInv, NEW h \in Handlers, HandlerStep(h), NEW o \in listed', o \notin listed
  PROVE  /\ Creates(h, o)' /\ pc'[h] = "respond" /\ InBook(o)'
<1>1. AddToBook(h) /\ o = call[h].subject
  BY DEF HandlerStep, Request, RequestCreate, RequestMatch, RequestCancel, RequestFill, Run,
    RankBids, RankAsks, ReadBid, ReadAsk, ReadRanked, StoreTrade, CheckOpen, ReadForStatus,
    RemoveOrder, SaveStatus, ReadForUpdate, SaveUpdate, SaveOrder, RankOpposite, ReadOpposite,
    ReadLastTrade, AddToBook, Respond, RespondError, Fail
<1>2. EventOK(h) /\ call[h].event = "createOrder" /\ o \in Orders /\ placed[o] # NoOrder
  BY <1>1 DEF AddToBook, TypeInv, FrameOK, EventOK, Adding
<1>3. placed[o].side \in Sides /\ ScoreOf(placed[o].side, call[h].price) # NoScore
  BY <1>2, NoScoreAssumption DEF ScoreOf, TypeInv, TypeOK, CallType, Prices, OrderType
<1>4. o \in Members(book'[placed[o].side])
  BY <1>1, <1>2, <1>3 DEF AddToBook, ZAdd, SortedSet, Members, TypeInv, TypeOK
<1> QED
  BY <1>1, <1>2, <1>3, <1>4 DEF AddToBook, Creates, InBook, Sends, TypeInv, TypeOK

\* Only an event gives a handler something to create.
LEMMA StillCreates ==
  ASSUME TypeInv, LifeOK, NEW h \in Handlers, Run(h) \/ Fail(h), call'[h].event = "createOrder"
  PROVE  call[h].event = "createOrder" /\ call'[h].subject = call[h].subject
<1>1. [Next]_vars
  BY DEF Next
<1>2. TypeInv'
  BY <1>1, TypeInvStep
<1>3. placed' = placed
  BY DEF Run, RankBids, RankAsks, ReadBid, ReadAsk, ReadRanked, StoreTrade, CheckOpen,
    ReadForStatus, RemoveOrder, SaveStatus, ReadForUpdate, SaveUpdate, SaveOrder, RankOpposite,
    ReadOpposite, ReadLastTrade, AddToBook, Respond, RespondError, Fail
<1>4. PICK o \in Orders : o = call'[h].subject /\ placed[o] # NoOrder
  BY <1>2, <1>3 DEF TypeInv, FrameOK, EventOK
<1>5. Creates(h, o)'
  BY <1>4 DEF Creates
<1> QED
  BY <1>1, <1>4, <1>5, CreatesOnce DEF Creates

\* createOrder of a LIMIT order does not come to match.
LEMMA CreatesLimitStep ==
  ASSUME TypeInv, LifeOK, OnlyLimitOrders, NEW h \in Handlers, HandlerStep(h),
         \A g \in Handlers : CreatesLimit(g)
  PROVE  \A g \in Handlers : CreatesLimit(g)'
<1>0. [Next]_vars
  BY DEF Next, HandlerStep
<1>1. \A g \in Handlers : EventOK(g) /\ call[g] \in CallType
  BY DEF TypeInv, FrameOK, TypeOK
<1>2. ASSUME NEW g \in Handlers \ {h}
      PROVE  CreatesLimit(g)'
  <2>1. pc'[g] = pc[g] /\ call'[g] = call[g]
    BY OthersStay DEF HandlerStep
  <2>2. call[g].event = "createOrder" =>
          placed'[call[g].subject] = placed[call[g].subject]
    BY <1>0, <1>1, PlacedAndToldStay DEF EventOK
  <2> QED
    BY <2>1, <2>2 DEF CreatesLimit, Matched
<1>3. ASSUME Request(h)
      PROVE  CreatesLimit(h)'
  <2>1. ASSUME NEW o \in Orders, NEW r \in Requests, RequestCreate(h, o, r)
        PROVE  CreatesLimit(h)'
    <3>1. /\ call'[h].subject = o /\ call'[h].settling = call[h].settling
          /\ placed'[o].orderType = "LIMIT" /\ pc'[h] = "saveOrder"
      BY <1>1, <2>1 DEF RequestCreate, OnlyLimitOrders, Sends, TypeInv, TypeOK, CallType
    <3>2. call[h].settling = "none"
      BY <1>1, <2>1, NoCallFields DEF RequestCreate, EventOK
    <3> QED
      BY <3>1, <3>2 DEF CreatesLimit, Matched
  <2>2. ASSUME RequestMatch(h) \/ \E o \in Orders : RequestCancel(h, o) \/ RequestFill(h, o)
        PROVE  CreatesLimit(h)'
    BY <1>1, <2>2 DEF RequestMatch, RequestCancel, RequestFill, CreatesLimit, TypeInv, TypeOK, CallType
  <2> QED
    BY <1>3, <2>1, <2>2 DEF Request
<1>4. ASSUME Run(h) \/ Fail(h), call'[h].event = "createOrder"
      PROVE  CreatesLimit(h)'
  <2>1. /\ call[h].event = "createOrder" /\ call'[h].subject = call[h].subject
        /\ ~Matched(h) /\ pc[h] \in {"saveOrder", "addToBook", "respond"}
        /\ placed[call[h].subject].orderType = "LIMIT"
    BY <1>4, StillCreates DEF CreatesLimit
  <2>2. placed'[call[h].subject] = placed[call[h].subject]
    BY <1>0, <1>1, <2>1, PlacedAndToldStay DEF EventOK
  <2>3. CASE SaveOrder(h)
    BY <1>1, <2>1, <2>2, <2>3 DEF SaveOrder, CreatesLimit, Matched, Sends, TypeInv, TypeOK, CallType
  <2>4. CASE AddToBook(h)
    BY <2>1, <2>2, <2>4 DEF AddToBook, CreatesLimit, Matched, Sends, TypeInv, TypeOK
  <2>5. CASE Respond(h) \/ Fail(h)
    BY <1>4, <2>5, NoCallFields DEF Respond, Fail, Throws, TypeInv, TypeOK
  <2> QED
    BY <1>4, <2>1, <2>3, <2>4, <2>5 DEF Run, RankBids, RankAsks, ReadBid, ReadAsk, StoreTrade, CheckOpen,
      ReadForStatus, RemoveOrder, SaveStatus, ReadForUpdate, SaveUpdate, RankOpposite,
      ReadOpposite, ReadLastTrade, RespondError
<1>5. ASSUME call'[h].event # "createOrder"
      PROVE  CreatesLimit(h)'
  BY <1>5 DEF CreatesLimit
<1> QED
  BY <1>2, <1>3, <1>4, <1>5 DEF HandlerStep

\* As long as nothing on its way is lost, what was heard or on its way is.
LEMMA HeardStays ==
  ASSUME Pending \subseteq Pending', UNCHANGED <<announced, tradeUpdates>>, NEW o
  PROVE  /\ \A x : StatusHeard(o, x) => StatusHeard(o, x)'
         /\ Heard(o) => Heard(o)'
  BY DEF Heard, StatusHeard, TradeHeard, InTradeUpdate

\* A handler that has something to tell of o tells it when it answers.
LEMMA AnswerIsHeard ==
  ASSUME TypeInv, NEW h \in Handlers, pc[h] = "respond", NEW o,
         Broadcast(h) # NoBroadcast => Broadcast(h) \in Pending'
  PROVE  /\ WillTell(h, o) => Heard(o)'
         /\ Creates(h, o) /\ ~Matched(h) => StatusHeard(o, "OPEN")'
<1>1. ASSUME call[h].event \in {"cancelOrder", "fillOrder"}, call[h].subject = o
      PROVE  Heard(o)'
  <2>1. /\ Broadcast(h) \in Pending' /\ Broadcast(h).eventEmit = "orderBookUpdate"
        /\ Broadcast(h).data.orderId = o
        /\ Broadcast(h).data.status = ToldStatus[call[h].event]
    BY <1>1, BroadcastOf
  <2>2. ToldStatus[call[h].event] \in {"CANCELLED", "FILLED"}
    BY <1>1 DEF ToldStatus
  <2> QED
    BY <2>1, <2>2 DEF Heard, StatusHeard
<1>2. ASSUME call[h].event = "matchTopOrders", Matched(h),
             \E s \in Sides : call[h].top[s].orderId = o
      PROVE  Heard(o)'
  <2>1. Broadcast(h) = UpdateOf(TradeOf(h)) /\ TradeOf(h) \in TradeType
    BY <1>2, BroadcastOf, TradeTyped
  <2>2. /\ Broadcast(h) \in Pending' /\ Broadcast(h).eventEmit = "tradeUpdate"
        /\ Broadcast(h).data = TradeOf(h)
    BY <2>1, UpdateTyped
  <2>3. o \in {TradeOf(h).buyOrderId, TradeOf(h).sellOrderId}
    BY <1>2 DEF TradeOf, Sides
  <2> QED
    BY <2>2, <2>3 DEF Heard, TradeHeard
<1>3. ASSUME Creates(h, o), ~Matched(h)
      PROVE  StatusHeard(o, "OPEN")'
  <2>1. /\ Broadcast(h) \in Pending' /\ Broadcast(h).eventEmit = "orderBookUpdate"
        /\ Broadcast(h).data.orderId = o
        /\ Broadcast(h).data.status = ToldStatus["createOrder"]
    BY <1>3, BroadcastOf DEF Creates
  <2> QED
    BY <2>1 DEF StatusHeard, ToldStatus
<1> QED
  BY <1>1, <1>2, <1>3 DEF WillTell

\* The steps of a handler that does not fail.
LEMMA ReachHandlers ==
  ASSUME IInv, OnlyLimitOrders, ReachOK, NEW h \in Handlers, Request(h) \/ Run(h), NothingLost,
         Pending \subseteq Pending', UNCHANGED <<announced, tradeUpdates>>,
         Respond(h) /\ Broadcast(h) # NoBroadcast => Broadcast(h) \in Pending',
         NEW o \in listed'
  PROVE  /\ StatusHeard(o, "OPEN")' \/ \E g \in Handlers : Creates(g, o)' /\ pc'[g] = "respond"
         /\ InBook(o)' \/ Heard(o)' \/ \E g \in Handlers : WillTell(g, o)'
<1>0. TypeInv /\ HandlerStep(h) /\ EventOK(h)
  BY DEF IInv, TypeInv, FrameOK, HandlerStep
<1>1. CASE o \notin listed
  <2>1. Creates(h, o)' /\ pc'[h] = "respond" /\ InBook(o)'
    BY <1>0, <1>1, EntersByAdd
  <2> QED
    BY <2>1
<1>2. ASSUME NEW g \in Handlers \ {h}
      PROVE  /\ Creates(g, o) /\ pc[g] = "respond" => Creates(g, o)' /\ pc'[g] = "respond"
             /\ WillTell(g, o) => WillTell(g, o)'
  <2>1. pc'[g] = pc[g] /\ call'[g] = call[g]
    BY <1>0, OthersStay DEF HandlerStep
  <2> QED
    BY <2>1 DEF Creates, WillTell, Matched
<1>3. ASSUME pc[h] = "respond"
      PROVE  Respond(h)
  BY <1>3 DEF Request, RequestCreate, RequestMatch, RequestCancel, RequestFill, Run, RankBids,
    RankAsks, ReadBid, ReadAsk, StoreTrade, CheckOpen, ReadForStatus, RemoveOrder, SaveStatus,
    ReadForUpdate, SaveUpdate, SaveOrder, RankOpposite, ReadOpposite, ReadLastTrade, AddToBook,
    RespondError
<1>4. ASSUME o \in listed
      PROVE  StatusHeard(o, "OPEN")' \/ \E g \in Handlers : Creates(g, o)' /\ pc'[g] = "respond"
  <2>1. CASE StatusHeard(o, "OPEN")
    BY <2>1, HeardStays
  <2>2. ASSUME NEW g \in Handlers, Creates(g, o), pc[g] = "respond"
        PROVE  StatusHeard(o, "OPEN")' \/ \E f \in Handlers : Creates(f, o)' /\ pc'[f] = "respond"
    <3>1. CASE g = h
      <4>1. ~Matched(h)
        BY <2>2, <3>1 DEF ReachOK, CreatesLimit, Creates
      <4> QED
        BY <1>0, <1>3, <2>2, <3>1, <4>1, AnswerIsHeard
    <3>2. CASE g # h
      BY <1>2, <2>2, <3>2
    <3> QED
      BY <3>1, <3>2
  <2> QED
    BY <1>4, <2>1, <2>2 DEF ReachOK
<1>5. ASSUME o \in listed
      PROVE  InBook(o)' \/ Heard(o)' \/ \E g \in Handlers : WillTell(g, o)'
  <2>1. CASE Heard(o)
    BY <2>1, HeardStays
  <2>2. CASE InBook(o)
    <3> SUFFICES ASSUME ~InBook(o)'
                 PROVE  WillTell(h, o)'
      OBVIOUS
    <3>1. RemoveOrder(h) /\ Target(h) = o
      BY <1>0, <2>2, LeavesByRemove
    <3>2. pc'[h] = "saveStatus" /\ call' = call /\ pc[h] \in Changing
      BY <3>1 DEF RemoveOrder, Sends, Changing, IInv, TypeInv, TypeOK
    <3>3. CASE call[h].event \in {"cancelOrder", "fillOrder"}
      BY <3>1, <3>2, <3>3 DEF Target, WillTell
    <3>4. CASE call[h].event \notin {"cancelOrder", "fillOrder"}
      <4>1. call[h].event \in IncomingEvents \cup {"none"} /\ call[h].settling \in Sides \cup {"none"}
        BY <1>0 DEF TypeInv, TypeOK, CallType
      <4>2. call[h].event \in {"createOrder", "matchTopOrders"} /\ Matched(h)
        BY <1>0, <3>2, <3>4, <4>1 DEF EventOK, IncomingEvents, Changing
      <4>3. call[h].event = "matchTopOrders"
        BY <4>2 DEF ReachOK, CreatesLimit
      <4>4. call[h].settling \in Sides /\ call[h].top[call[h].settling].orderId = o
        BY <3>1, <3>4, <4>1, <4>2 DEF Target, Matched
      <4> QED
        BY <3>2, <4>2, <4>3, <4>4 DEF WillTell, Matched
    <3> QED
      BY <3>3, <3>4
  <2>3. ASSUME NEW g \in Handlers, WillTell(g, o)
        PROVE  Heard(o)' \/ \E f \in Handlers : WillTell(f, o)'
    <3>1. CASE g # h
      BY <1>2, <2>3, <3>1
    <3>2. CASE pc[h] = "respond" /\ g = h
      BY <1>0, <1>3, <2>3, <3>2, AnswerIsHeard
    <3>3. CASE pc[h] # "respond" /\ g = h
      <4>1. ~Respond(h)
        BY <3>3 DEF Respond
      <4>2. CASE call[h].event = "matchTopOrders" /\ Matched(h)
        <5>1. Matched(h)' /\ call'[h].top = call[h].top /\ call'[h].event = call[h].event
          BY <1>0, <4>1, <4>2, MatchedGoesOn
        <5> QED
          BY <2>3, <3>3, <4>2, <5>1 DEF WillTell
      <4>3. CASE call[h].event \in {"cancelOrder", "fillOrder"}
        <5>1. pc[h] = "saveStatus" /\ call[h].subject = o /\ ~Matched(h)
          BY <1>0, <2>3, <3>3, <4>3 DEF WillTell, EventOK
        <5>2. SaveStatus(h)
          BY <5>1 DEF Request, RequestCreate, RequestMatch, RequestCancel, RequestFill, Run,
            RankBids, RankAsks, ReadBid, ReadAsk, StoreTrade, CheckOpen, ReadForStatus,
            RemoveOrder, ReadForUpdate, SaveUpdate, SaveOrder, RankOpposite, ReadOpposite,
            ReadLastTrade, AddToBook, Respond, RespondError
        <5>3. /\ call'[h].event = call[h].event /\ call'[h].subject = o
              /\ pc'[h] = "respond"
          BY <1>0, <5>1, <5>2, ContinueKeeps DEF SaveStatus
        <5> QED
          BY <4>3, <5>3 DEF WillTell
      <4> QED
        BY <2>3, <3>3, <4>2, <4>3 DEF WillTell
    <3> QED
      BY <3>1, <3>2, <3>3
  <2> QED
    BY <1>5, <2>1, <2>2, <2>3 DEF ReachOK
<1> QED
  BY <1>1, <1>4, <1>5

\* Every step.
LEMMA ReachNext ==
  IInv /\ NTypeOK /\ PublishingOK /\ ReachOK /\ [NNext]_nvars => ReachOK'
<1> SUFFICES ASSUME IInv, NTypeOK, PublishingOK, ReachOK, [NNext]_nvars, OnlyLimitOrders
             PROVE  /\ \A h \in Handlers : CreatesLimit(h)'
                    /\ NothingLost' => \A o \in listed' :
                         /\ \/ StatusHeard(o, "OPEN")'
                            \/ \E h \in Handlers : Creates(h, o)' /\ pc'[h] = "respond"
                         /\ InBook(o)' \/ Heard(o)' \/ \E h \in Handlers : WillTell(h, o)'
  BY DEF ReachOK, Heard, StatusHeard, TradeHeard, InTradeUpdate, InBook, WillTell, Creates,
    CreatesLimit, OnlyLimitOrders
<1> DEFINE Reached(o) ==
      /\ \/ StatusHeard(o, "OPEN")'
         \/ \E h \in Handlers : Creates(h, o)' /\ pc'[h] = "respond"
      /\ InBook(o)' \/ Heard(o)' \/ \E h \in Handlers : WillTell(h, o)'
<1>1. TypeInv /\ LifeOK /\ faults \in Nat /\ trimmed \in BOOLEAN
  BY DEF IInv, TypeInv, TypeOK, NTypeOK
<1>2. \A h \in Handlers : CreatesLimit(h)
  BY DEF ReachOK
<1>3. ASSUME NEW h \in Handlers, HandlerStep(h), UNCHANGED <<trimmed, announced, tradeUpdates>>,
             Pending \subseteq Pending',
             Respond(h) /\ Broadcast(h) # NoBroadcast => Broadcast(h) \in Pending',
             NothingLost', NEW o \in listed'
      PROVE  Reached(o)
  <2>1. faults' = 0 /\ ~trimmed
    BY <1>3 DEF NothingLost
  <2>2. ~Fail(h)
    BY <1>1, <2>1 DEF Fail
  <2>3. faults' = faults \/ Fail(h)
    BY <1>3 DEF HandlerStep, Request, RequestCreate, RequestMatch, RequestCancel, RequestFill, Run,
      RankBids, RankAsks, ReadBid, ReadAsk, ReadRanked, StoreTrade, CheckOpen, ReadForStatus,
      RemoveOrder, SaveStatus, ReadForUpdate, SaveUpdate, SaveOrder, RankOpposite, ReadOpposite,
      ReadLastTrade, AddToBook, Respond, RespondError
  <2>4. NothingLost
    BY <2>1, <2>2, <2>3 DEF NothingLost
  <2> QED
    BY <1>3, <2>2, <2>4, ReachHandlers DEF HandlerStep
<1>4. ASSUME NEW h \in Handlers, HandlerStep(h), ~Respond(h),
             UNCHANGED <<publishing, unread, trimmed, announced, tradeUpdates>>
      PROVE  (\A g \in Handlers : CreatesLimit(g)') /\ (NothingLost' => \A o \in listed' : Reached(o))
  <2>1. Pending' = Pending
    BY <1>4, PendingHandlers
  <2> HIDE DEF Reached
  <2> QED
    BY <1>1, <1>2, <1>3, <1>4, <2>1, CreatesLimitStep
<1>5. ASSUME NEW h \in Handlers, Notify(h)
      PROVE  (\A g \in Handlers : CreatesLimit(g)') /\ (NothingLost' => \A o \in listed' : Reached(o))
  <2>1. /\ HandlerStep(h) /\ UNCHANGED <<trimmed, announced, tradeUpdates>>
        /\ Pending' = (Pending \cup {Broadcast(h)}) \ {NoBroadcast}
    BY <1>5, PendingHandlers DEF Notify, HandlerStep, Run, subscriber
  <2>2. Pending \subseteq Pending'
    BY <2>1 DEF Pending
  <2> HIDE DEF Reached
  <2> QED
    BY <1>1, <1>2, <1>3, <2>1, <2>2, CreatesLimitStep
<1>6. ASSUME UNCHANGED vars
      PROVE  /\ \A g \in Handlers : CreatesLimit(g)'
             /\ listed' = listed /\ faults' = faults
             /\ \A o : InBook(o)' <=> InBook(o)
             /\ \A g \in Handlers, o \in listed : WillTell(g, o)' <=> WillTell(g, o)
             /\ \A g \in Handlers, o \in listed : Creates(g, o)' <=> Creates(g, o)
             /\ pc' = pc
  BY <1>2, <1>6 DEF vars, CreatesLimit, Matched, InBook, WillTell, Creates
<1>7. ASSUME UNCHANGED vars, NothingLost,
             \A o \in listed : StatusHeard(o, "OPEN") => StatusHeard(o, "OPEN")',
             \A o \in listed : Heard(o) => Heard(o)'
      PROVE  \A o \in listed' : Reached(o)
  BY <1>6, <1>7 DEF ReachOK
<1>8. ASSUME NEW h \in Handlers, Publish(h)
      PROVE  (\A g \in Handlers : CreatesLimit(g)') /\ (NothingLost' => \A o \in listed' : Reached(o))
  <2>1. UNCHANGED vars /\ UNCHANGED <<announced, tradeUpdates>>
    BY <1>8 DEF Publish, subscriber
  <2>2. ASSUME NothingLost'
        PROVE  NothingLost /\ Pending \subseteq Pending'
    <3>1. faults = 0 /\ ~trimmed'
      BY <1>6, <2>1, <2>2 DEF NothingLost
    <3>2. trimmed => trimmed'
      BY <1>8, PublishedStream
    <3> QED
      BY <1>8, <3>1, <3>2, PendingPublish DEF NothingLost
  <2> HIDE DEF Reached
  <2> QED
    BY <1>6, <1>7, <2>1, <2>2, HeardStays
<1>9. ASSUME Receive
      PROVE  (\A g \in Handlers : CreatesLimit(g)') /\ (NothingLost' => \A o \in listed' : Reached(o))
  <2> DEFINE update == Head(unread)
  <2>1. UNCHANGED vars /\ trimmed' = trimmed
    BY <1>9 DEF Receive
  <2>2. NothingLost' => NothingLost
    BY <1>6, <2>1 DEF NothingLost
  <2>3. update \in BroadcastType /\ Pending \subseteq Pending' \cup {update}
    BY <1>9, PendingReceive
  <2>4. ASSUME NEW o \in Orders, NEW x \in TradeStatuses, StatusHeard(o, x)
        PROVE  StatusHeard(o, x)'
    <3>1. CASE x \in announced[o]
      <4>1. announced[o] \subseteq announced'[o]
        BY <1>9 DEF Receive, NTypeOK
      <4> QED
        BY <3>1, <4>1 DEF StatusHeard
    <3>2. ASSUME NEW u \in Pending, u.eventEmit = "orderBookUpdate", u.data.orderId = o,
                 u.data.status = x
          PROVE  StatusHeard(o, x)'
      <4>1. CASE u = update
        <5>1. announced' = [announced EXCEPT ![o] = @ \cup {x}]
          BY <1>9, <3>2, <4>1 DEF Receive
        <5> QED
          BY <5>1 DEF StatusHeard, NTypeOK
      <4>2. CASE u # update
        BY <2>3, <3>2, <4>2 DEF StatusHeard
      <4> QED
        BY <4>1, <4>2
    <3> QED
      BY <2>4, <3>1, <3>2 DEF StatusHeard
  <2>5. ASSUME NEW o \in Orders, TradeHeard(o)
        PROVE  TradeHeard(o)'
    <3>1. CASE InTradeUpdate(o)
      <4>1. PICK i \in 1 .. Len(tradeUpdates) :
              o \in {tradeUpdates[i].buyOrderId, tradeUpdates[i].sellOrderId}
        BY <3>1 DEF InTradeUpdate
      <4>2. i \in 1 .. Len(tradeUpdates') /\ tradeUpdates'[i] = tradeUpdates[i]
        <5>1. tradeUpdates' = tradeUpdates \/ tradeUpdates' = Append(tradeUpdates, update.data)
          BY <1>9 DEF Receive
        <5> QED
          BY <5>1 DEF NTypeOK
      <4> QED
        BY <4>1, <4>2 DEF TradeHeard, InTradeUpdate
    <3>2. ASSUME NEW u \in Pending, u.eventEmit = "tradeUpdate",
                 o \in {u.data.buyOrderId, u.data.sellOrderId}
          PROVE  TradeHeard(o)'
      <4>1. CASE u = update
        <5>1. tradeUpdates' = Append(tradeUpdates, u.data)
          BY <1>9, <3>2, <4>1 DEF Receive
        <5>2. Len(tradeUpdates) + 1 \in 1 .. Len(tradeUpdates')
              /\ tradeUpdates'[Len(tradeUpdates) + 1] = u.data
          BY <5>1 DEF NTypeOK
        <5> QED
          BY <3>2, <5>2 DEF TradeHeard, InTradeUpdate
      <4>2. CASE u # update
        BY <2>3, <3>2, <4>2 DEF TradeHeard
      <4> QED
        BY <4>1, <4>2
    <3> QED
      BY <2>5, <3>1, <3>2 DEF TradeHeard
  <2>6. \A o \in listed : o \in Orders /\ {"OPEN", "CANCELLED", "FILLED"} \subseteq TradeStatuses
    BY <1>1 DEF TypeInv, TypeOK, TradeStatuses
  <2>7. /\ \A o \in listed : StatusHeard(o, "OPEN") => StatusHeard(o, "OPEN")'
        /\ \A o \in listed : Heard(o) => Heard(o)'
    BY <2>4, <2>5, <2>6 DEF Heard
  <2> HIDE DEF Reached
  <2> QED
    BY <1>6, <1>7, <2>1, <2>2, <2>7
<1>10. CASE UNCHANGED nvars
  <2>1. UNCHANGED vars /\ UNCHANGED <<publishing, unread, trimmed, announced, tradeUpdates>>
    BY <1>10 DEF nvars, feed, subscriber
  <2>2. Pending' = Pending /\ (NothingLost' <=> NothingLost)
    BY <1>6, <2>1 DEF Pending, NothingLost
  <2>3. (\A g \in Handlers : CreatesLimit(g)') /\ (NothingLost' => \A o \in listed' : Reached(o))
    <3> HIDE DEF Reached
    <3> QED
      BY <1>6, <1>7, <2>1, <2>2, HeardStays
  <2> QED
    BY <2>3
<1> QED
  BY <1>1, <1>4, <1>5, <1>8, <1>9, <1>10, HandlersStep

(* What is stored is told once.                                             *)

Tellers(t) == {h \in Handlers : Tells(h, t)}

\* Everything that is counted is finite.
LEMMA CountsFinite ==
  ASSUME TypeInv, NTypeOK, NEW t
  PROVE  /\ Cardinality(Tellers(t)) \in Nat
         /\ Times(UpdateOf(t), unread) \in Nat
         /\ Times(t, tradeUpdates) \in Nat
         /\ Times(t, trades) \in Nat
         /\ TimesTold(t) = Cardinality(Tellers(t)) + Times(UpdateOf(t), unread) + Times(t, tradeUpdates)
<1>1. IsFiniteSet(Tellers(t))
  BY HandlersAssumption, FS_Subset DEF Tellers
<1> QED
  BY <1>1, FS_CardinalityType, PlacesFinite DEF TypeInv, TypeOK, NTypeOK, TimesTold, Tellers

\* A trade that nobody has stored is not told.
LEMMA CountAll ==
  ASSUME TypeInv, NTypeOK, HeardOK, CountOK, NEW t \in TradeType
  PROVE  ToldOnce(t)
<1>1. CASE IsStored(t)
  BY <1>1 DEF IsStored, CountOK
<1>2. CASE ~IsStored(t)
  <2>1. Times(t, trades) = 0
    <3>1. \A i \in 1 .. Len(trades) : trades[i] # t
      BY <1>2 DEF IsStored
    <3> QED
      BY <3>1, TimesZero DEF TypeInv, TypeOK
  <2>2. Times(t, tradeUpdates) = 0
    <3>1. \A i \in 1 .. Len(tradeUpdates) : tradeUpdates[i] # t
      BY <1>2 DEF HeardOK
    <3> QED
      BY <3>1, TimesZero DEF NTypeOK
  <2>3. UpdateOf(t) \notin Pending /\ UpdateOf(t) # NoBroadcast
    BY <1>2, UpdateTyped DEF HeardOK, IsTrue
  <2>4. Times(UpdateOf(t), unread) = 0
    <3>1. \A i \in 1 .. Len(unread) : unread[i] # UpdateOf(t)
      BY <2>3 DEF Pending
    <3> QED
      BY <3>1, TimesZero DEF NTypeOK
  <2>5. Tellers(t) = {}
    BY <1>2, <2>3 DEF Tellers, Tells, HeardOK, Pending
  <2>6. TimesTold(t) = 0
    BY <2>2, <2>4, <2>5, FS_EmptySet DEF TimesTold, Tellers
  <2> QED
    BY <2>1, <2>6 DEF ToldOnce
<1> QED
  BY <1>1, <1>2

\* The tellers of t before and after a step of h.
LEMMA TellersStep ==
  ASSUME TypeInv, TypeInv', NTypeOK, NTypeOK', NEW t, NEW h \in Handlers,
         \A g \in Handlers \ {h} : Tells(g, t)' <=> Tells(g, t)
  PROVE  /\ Cardinality(Tellers(t))' + (IF Tells(h, t) THEN 1 ELSE 0)
            = Cardinality(Tellers(t)) + (IF Tells(h, t)' THEN 1 ELSE 0)
         /\ Cardinality(Tellers(t)) \in Nat /\ Cardinality(Tellers(t))' \in Nat
<1> DEFINE A == Tellers(t)
           B == Tellers(t)'
<1>1. A \in SUBSET Handlers /\ B \in SUBSET Handlers
  BY DEF Tellers
<1>2. \A g \in Handlers \ {h} : g \in A <=> g \in B
  BY DEF Tellers
<1>3. (h \in A <=> Tells(h, t)) /\ (h \in B <=> Tells(h, t)')
  BY DEF Tellers
<1> HIDE DEF A, B
<1>4. Cardinality(B) + (IF h \in A THEN 1 ELSE 0) = Cardinality(A) + (IF h \in B THEN 1 ELSE 0)
  BY <1>1, <1>2, OneHandler
<1>5. Cardinality(B) + (IF Tells(h, t) THEN 1 ELSE 0) = Cardinality(A) + (IF Tells(h, t)' THEN 1 ELSE 0)
  BY <1>3, <1>4
<1>6. Cardinality(A) \in Nat /\ Cardinality(B) \in Nat
  BY <1>1, <1>2, OneHandler
<1> QED
  BY <1>5, <1>6 DEF A, B

\* What a step of h does not change for the others.
LEMMA OthersTell ==
  ASSUME TypeInv, NTypeOK, NEW h \in Handlers, HandlerStep(h), NEW g \in Handlers \ {h},
         publishing'[g] = publishing[g], NEW t
  PROVE  Tells(g, t)' <=> Tells(g, t)
<1>1. call'[g] = call[g]
  BY OthersStay DEF HandlerStep
<1> QED
  BY <1>1 DEF Tells, Matched, TradeOf, MatchQuantity, MatchPrice

\* Commands: storeTrade stores a trade and has it to tell, the others keep it,
\* unless the handler fails.
LEMMA CountCommand ==
  ASSUME TypeInv, TypeInv', NTypeOK, NTypeOK', PublishingOK, ReachOK, NEW h \in Handlers,
         HandlerStep(h), ~Respond(h), NEW t \in TradeType, ToldOnce(t),
         UNCHANGED <<publishing, unread, trimmed, announced, tradeUpdates>>
  PROVE  ToldOnce(t)'
<1> DEFINE before == IF Tells(h, t) THEN 1 ELSE 0
           after == IF Tells(h, t)' THEN 1 ELSE 0
<1>1. /\ Cardinality(Tellers(t))' + before = Cardinality(Tellers(t)) + after
      /\ Cardinality(Tellers(t))' \in Nat
  BY TellersStep, OthersTell
<1>2. /\ Times(UpdateOf(t), unread)' = Times(UpdateOf(t), unread)
      /\ Times(t, tradeUpdates)' = Times(t, tradeUpdates)
      /\ Times(t, trades)' = Times(t, trades')
  OBVIOUS
<1>3. /\ before \in Nat /\ after \in Nat
      /\ TimesTold(t)' + before = TimesTold(t) + after
      /\ TimesTold(t) \in Nat /\ TimesTold(t)' \in Nat
      /\ Times(t, trades) \in Nat /\ Times(t, trades') \in Nat
  <2>1. /\ TimesTold(t)' = Cardinality(Tellers(t))' + Times(UpdateOf(t), unread)' + Times(t, tradeUpdates)'
        /\ Times(t, trades') \in Nat
    BY PlacesFinite DEF TypeInv, TypeOK, TimesTold, Tellers
  <2>2. before \in Nat /\ after \in Nat
    OBVIOUS
  <2> HIDE DEF before, after
  <2> QED
    BY <1>1, <1>2, <2>1, <2>2, CountsFinite
<1>4. (OnlyLimitOrders /\ NothingLost)' => OnlyLimitOrders /\ NothingLost /\ ~Fail(h)
  <2>1. faults' = faults \/ (Fail(h) /\ faults' = faults + 1)
    BY DEF HandlerStep, Request, RequestCreate, RequestMatch, RequestCancel, RequestFill, Run,
      RankBids, RankAsks, ReadBid, ReadAsk, ReadRanked, StoreTrade, CheckOpen, ReadForStatus,
      RemoveOrder, SaveStatus, ReadForUpdate, SaveUpdate, SaveOrder, RankOpposite, ReadOpposite,
      ReadLastTrade, AddToBook, Respond, RespondError, Fail
  <2>2. faults \in Nat
    BY DEF TypeInv, TypeOK
  <2>3. NothingLost' => NothingLost /\ ~Fail(h)
    BY <2>1, <2>2 DEF NothingLost, Fail
  <2> QED
    BY <2>3 DEF OnlyLimitOrders
<1>5. CASE StoreTrade(h)
  <2>1. /\ ~Matched(h) /\ Matched(h)' /\ call'[h].event = call[h].event
        /\ TradeOf(h)' = TradeOf(h)
        /\ Times(t, trades') = Times(t, trades) + (IF TradeOf(h) = t THEN 1 ELSE 0)
    BY <1>5, TradeStored
  <2>2. publishing[h] = NoBroadcast /\ UpdateOf(t) # NoBroadcast
    BY <1>5, UpdateTyped DEF StoreTrade, PublishingOK
  <2>3. ~Tells(h, t) /\ (Tells(h, t)' <=> call[h].event = "matchTopOrders" /\ TradeOf(h) = t)
    BY <2>1, <2>2 DEF Tells
  <2>4. OnlyLimitOrders => call[h].event = "matchTopOrders"
    BY <1>5 DEF StoreTrade, ReachOK, CreatesLimit, TypeInv, FrameOK, EventOK, Matching
  <2>5. before = 0 /\ after <= (IF TradeOf(h) = t THEN 1 ELSE 0)
        /\ (OnlyLimitOrders => after = IF TradeOf(h) = t THEN 1 ELSE 0)
    BY <2>3, <2>4
  <2> HIDE DEF before, after
  <2>6. TimesTold(t)' <= Times(t, trades')
    BY <1>3, <2>1, <2>5 DEF ToldOnce
  <2>7. OnlyLimitOrders /\ NothingLost => TimesTold(t)' = Times(t, trades')
    BY <1>3, <2>1, <2>5 DEF ToldOnce
  <2> QED
    BY <1>2, <1>4, <2>6, <2>7 DEF ToldOnce
<1>6. CASE ~StoreTrade(h)
  <2>1. Times(t, trades') = Times(t, trades)
    BY <1>6, TradesStay DEF HandlerStep
  <2>2. Tells(h, t)' => Tells(h, t)
    <3>1. ASSUME Matched(h)', TradeOf(h)' = t, call'[h].event = "matchTopOrders"
          PROVE  Tells(h, t)
      <4>1. call'[h] # NoCall
        BY <3>1, NoCallFields
      <4>2. Matched(h) /\ call'[h].top = call[h].top /\ call'[h].event = call[h].event
        BY <1>6, <3>1, <4>1, MatchedKept DEF HandlerStep
      <4> QED
        BY <3>1, <4>2 DEF Tells, TradeOf, MatchQuantity, MatchPrice
    <3> QED
      BY <3>1 DEF Tells
  <2>3. ~Fail(h) => (Tells(h, t) => Tells(h, t)')
    <3>1. ASSUME ~Fail(h), call[h].event = "matchTopOrders", Matched(h), TradeOf(h) = t
          PROVE  Tells(h, t)'
      <4>1. Matched(h)' /\ call'[h].top = call[h].top /\ call'[h].event = call[h].event
        BY <3>1, MatchedGoesOn DEF HandlerStep
      <4> QED
        BY <3>1, <4>1 DEF Tells, TradeOf, MatchQuantity, MatchPrice
    <3> QED
      BY <3>1 DEF Tells
  <2>4. after <= before /\ (~Fail(h) => after = before)
    BY <2>2, <2>3
  <2> HIDE DEF before, after
  <2>5. TimesTold(t)' <= Times(t, trades')
    BY <1>3, <2>1, <2>4 DEF ToldOnce
  <2>6. OnlyLimitOrders /\ NothingLost /\ ~Fail(h) => TimesTold(t)' = Times(t, trades')
    BY <1>3, <2>1, <2>4 DEF ToldOnce
  <2> QED
    BY <1>2, <1>4, <2>5, <2>6 DEF ToldOnce
<1> QED
  BY <1>5, <1>6

\* The answer hands the trade over to the instance that publishes it.
LEMMA CountNotify ==
  ASSUME TypeInv, TypeInv', NTypeOK, NTypeOK', PublishingOK, NEW h \in Handlers, Notify(h),
         NEW t \in TradeType, ToldOnce(t)
  PROVE  ToldOnce(t)'
<1>1. /\ HandlerStep(h) /\ pc[h] = "respond" /\ publishing[h] = NoBroadcast
      /\ publishing' = [publishing EXCEPT ![h] = Broadcast(h)] /\ call'[h] = NoCall
      /\ UNCHANGED <<unread, trimmed, announced, tradeUpdates, trades, faults>>
  BY DEF Notify, Respond, HandlerStep, Run, PublishingOK, subscriber, redis, TypeInv, TypeOK
<1>2. \A g \in Handlers \ {h} : Tells(g, t)' <=> Tells(g, t)
  BY <1>1, OthersTell DEF NTypeOK
<1>3. UpdateOf(t) # NoBroadcast /\ publishing'[h] = Broadcast(h)
  BY <1>1, UpdateTyped DEF NTypeOK
<1>4. Tells(h, t)' <=> Broadcast(h) = UpdateOf(t)
  BY <1>1, <1>3, NoCallFields DEF Tells
<1>5. Broadcast(h) = UpdateOf(t) <=> call[h].event = "matchTopOrders" /\ Matched(h) /\ TradeOf(h) = t
  <2>1. CASE call[h].event = "matchTopOrders" /\ Matched(h)
    BY <1>1, <2>1, BroadcastOf, UpdateTyped
  <2>2. CASE ~(call[h].event = "matchTopOrders" /\ Matched(h))
    <3>1. Broadcast(h) = NoBroadcast \/ Broadcast(h).eventEmit = "orderBookUpdate"
      BY <1>1, <2>2, BroadcastOf
    <3>2. Broadcast(h) # UpdateOf(t)
      BY <1>3, <3>1, UpdateTyped
    <3> QED
      BY <2>2, <3>2
  <2> QED
    BY <2>1, <2>2
<1>6. Tells(h, t)' <=> Tells(h, t)
  BY <1>1, <1>3, <1>4, <1>5 DEF Tells
<1>7. Tellers(t)' = Tellers(t)
  BY <1>2, <1>6 DEF Tellers
<1>8. TimesTold(t)' = TimesTold(t) /\ Times(t, trades)' = Times(t, trades)
      /\ (NothingLost' <=> NothingLost)
  BY <1>1, <1>7 DEF TimesTold, Tellers, NothingLost
<1> QED
  BY <1>8 DEF ToldOnce, OnlyLimitOrders

\* The instance hands the trade over to the stream, which may lose it.
LEMMA CountPublish ==
  ASSUME TypeInv, TypeInv', NTypeOK, NTypeOK', PublishingOK, NEW h \in Handlers, Publish(h),
         NEW t \in TradeType, ToldOnce(t)
  PROVE  ToldOnce(t)'
<1> DEFINE u == UpdateOf(t)
           stream == Append(unread, publishing[h])
           e == IF publishing[h] = u THEN 1 ELSE 0
<1>1. PICK n \in 0 .. Len(unread) :
        unread' = SubSeq(stream, n + 1, Len(unread) + 1) /\ trimmed' = (trimmed \/ n > 0)
  BY PublishedStream
<1>2. /\ stream \in Seq(BroadcastType) /\ Len(stream) = Len(unread) + 1
      /\ publishing[h] \in BroadcastType /\ Len(unread) \in Nat
  BY PublishedStream DEF NTypeOK
<1>3. /\ UNCHANGED <<vars, tradeUpdates>> /\ publishing[h] # NoBroadcast
      /\ publishing' = [publishing EXCEPT ![h] = NoBroadcast]
  BY DEF Publish, subscriber
<1>4. Times(u, stream) = Times(u, unread) + e
  BY <1>2, TimesAppend DEF NTypeOK
<1>5. u # NoBroadcast
  BY UpdateTyped
<1>6. ~Matched(h)
  BY <1>3, NoCallFields DEF PublishingOK, TypeInv, FrameOK, EventOK, Matched
<1>7. (Tells(h, t) <=> publishing[h] = u) /\ ~Tells(h, t)'
  BY <1>3, <1>5, <1>6 DEF Tells, NTypeOK, Matched, vars
<1>8. \A g \in Handlers \ {h} : Tells(g, t)' <=> Tells(g, t)
  BY <1>3 DEF Tells, NTypeOK, Matched, vars, TradeOf, MatchQuantity, MatchPrice
<1>9. /\ Cardinality(Tellers(t))' + (IF Tells(h, t) THEN 1 ELSE 0)
         = Cardinality(Tellers(t)) + (IF Tells(h, t)' THEN 1 ELSE 0)
      /\ Cardinality(Tellers(t)) \in Nat /\ Cardinality(Tellers(t))' \in Nat
  BY <1>8, TellersStep
<1>10. Cardinality(Tellers(t))' + e = Cardinality(Tellers(t)) /\ e \in Nat
  BY <1>7, <1>9
<1> HIDE DEF u, stream, e
<1>11. Times(u, unread') <= Times(u, stream) /\ (~trimmed' => Times(u, unread') = Times(u, stream))
  <2>1. n \in 0 .. Len(stream)
    BY <1>2
  <2>2. Times(u, SubSeq(stream, n + 1, Len(stream))) <= Times(u, stream)
    BY <1>2, <2>1, TimesSuffix
  <2>3. ASSUME ~trimmed'
        PROVE  unread' = stream
    <3>1. ~(n > 0)
      BY <1>1, <2>3, Zenon
    <3>2. n = 0
      BY <3>1
    <3>3. SubSeq(stream, 0 + 1, Len(stream)) = stream
      BY <1>2
    <3> QED
      BY <1>1, <1>2, <3>2, <3>3
  <2> QED
    BY <1>1, <1>2, <2>2, <2>3
<1>12. /\ TimesTold(t)' = Cardinality(Tellers(t))' + Times(u, unread') + Times(t, tradeUpdates)
       /\ TimesTold(t) = Cardinality(Tellers(t)) + Times(u, unread) + Times(t, tradeUpdates)
       /\ Cardinality(Tellers(t)) \in Nat /\ Cardinality(Tellers(t))' \in Nat
       /\ Times(u, unread) \in Nat /\ Times(u, unread') \in Nat /\ Times(t, tradeUpdates) \in Nat
       /\ Times(t, trades)' = Times(t, trades) /\ Times(t, trades) \in Nat
  <2>1. Times(t, tradeUpdates)' = Times(t, tradeUpdates) /\ Times(t, trades)' = Times(t, trades)
    BY <1>3 DEF vars
  <2>2. Times(UpdateOf(t), unread)' = Times(u, unread') /\ Times(UpdateOf(t), unread) = Times(u, unread)
    BY DEF u
  <2>3. Times(u, unread') \in Nat
    BY PlacesFinite DEF NTypeOK
  <2>4. TimesTold(t)' = Cardinality(Tellers(t))' + Times(UpdateOf(t), unread)' + Times(t, tradeUpdates)'
    BY DEF TimesTold, Tellers
  <2> QED
    BY <1>9, <2>1, <2>2, <2>3, <2>4, CountsFinite
<1>13. TimesTold(t)' <= TimesTold(t) /\ (~trimmed' => TimesTold(t)' = TimesTold(t))
       /\ TimesTold(t) \in Nat /\ TimesTold(t)' \in Nat
  BY <1>4, <1>10, <1>11, <1>12
<1>14. NothingLost' => NothingLost /\ ~trimmed'
  BY <1>1, <1>3 DEF NothingLost, vars
<1>15. TimesTold(t)' <= Times(t, trades)
  BY <1>12, <1>13 DEF ToldOnce
<1>16. OnlyLimitOrders /\ NothingLost' => TimesTold(t)' = Times(t, trades)
  BY <1>12, <1>13, <1>14 DEF ToldOnce
<1> QED
  BY <1>12, <1>15, <1>16 DEF ToldOnce, OnlyLimitOrders

\* The stream hands the trade over to the subscriber.
LEMMA CountReceive ==
  ASSUME TypeInv, TypeInv', NTypeOK, NTypeOK', Receive, NEW t \in TradeType, ToldOnce(t)
  PROVE  ToldOnce(t)'
<1> DEFINE u == UpdateOf(t)
           update == Head(unread)
<1>1. /\ update \in BroadcastType /\ unread \in Seq(BroadcastType) /\ unread # <<>>
      /\ unread' = Tail(unread) /\ UNCHANGED <<vars, publishing, trimmed>>
      /\ tradeUpdates \in Seq(TradeType)
  BY PendingReceive DEF Receive, NTypeOK
<1>2. Times(u, unread) = Times(u, unread') + (IF update = u THEN 1 ELSE 0)
  BY <1>1, TimesTail
<1>3. Times(t, tradeUpdates') = Times(t, tradeUpdates) + (IF update = u THEN 1 ELSE 0)
  <2>1. CASE update.eventEmit = "tradeUpdate"
    <3>1. /\ tradeUpdates' = Append(tradeUpdates, update.data)
          /\ update.data \in TradeType /\ update = UpdateOf(update.data)
      BY <1>1, <2>1, BroadcastKinds DEF Receive
    <3>2. Times(t, tradeUpdates') = Times(t, tradeUpdates) + (IF update.data = t THEN 1 ELSE 0)
      BY <1>1, <3>1, TimesAppend
    <3>3. update.data = t <=> update = u
      BY <3>1, UpdateTyped
    <3> QED
      BY <3>2, <3>3
  <2>2. CASE update.eventEmit # "tradeUpdate"
    <3>1. tradeUpdates' = tradeUpdates /\ update # u
      BY <2>2, UpdateTyped DEF Receive
    <3>2. Times(t, tradeUpdates) \in Nat
      BY CountsFinite
    <3> QED
      BY <3>1, <3>2
  <2> QED
    BY <2>1, <2>2
<1>4. Tellers(t)' = Tellers(t)
  BY <1>1 DEF Tellers, Tells, Matched, TradeOf, MatchQuantity, MatchPrice, vars
<1>5. Times(t, trades)' = Times(t, trades) /\ (NothingLost' <=> NothingLost)
  BY <1>1 DEF vars, NothingLost
<1>6. TimesTold(t)' = TimesTold(t)
  <2>1. TimesTold(t)' = Cardinality(Tellers(t)) + Times(u, unread') + Times(t, tradeUpdates')
    BY <1>4 DEF TimesTold, Tellers
  <2>2. Times(u, unread') \in Nat /\ Times(t, tradeUpdates') \in Nat
    BY PlacesFinite DEF NTypeOK
  <2> HIDE DEF u, update
  <2>3. TimesTold(t) = Cardinality(Tellers(t)) + Times(u, unread) + Times(t, tradeUpdates)
        /\ Cardinality(Tellers(t)) \in Nat /\ Times(t, tradeUpdates) \in Nat
    BY CountsFinite DEF u
  <2> QED
    BY <1>2, <1>3, <2>1, <2>2, <2>3
<1> QED
  BY <1>5, <1>6 DEF ToldOnce, OnlyLimitOrders

\* Every step.
LEMMA CountNext ==
  IInv /\ NTypeOK /\ PublishingOK /\ HeardOK /\ ReachOK /\ CountOK /\ [NNext]_nvars => CountOK'
<1> SUFFICES ASSUME IInv, NTypeOK, PublishingOK, HeardOK, ReachOK, CountOK, [NNext]_nvars,
                    NEW t \in {trades'[i] : i \in 1 .. Len(trades')}
             PROVE  ToldOnce(t)'
  BY DEF CountOK
<1>1. TypeInv /\ TypeInv' /\ NTypeOK'
  <2>1. [NNext]_nvars => [Next]_vars
    BY DEF NNext, nvars, Accept, Handle, Notify, Abandon, Publish, Receive, Next, Run
  <2> QED
    BY <2>1, TypeInvStep, NTypeNext DEF IInv
<1>2. t \in TradeType
  BY <1>1 DEF TypeInv, TypeOK
<1>3. ToldOnce(t)
  BY <1>1, <1>2, CountAll
<1>4. CASE NNext
  BY <1>1, <1>2, <1>3, <1>4, HandlersStep, CountCommand, CountNotify, CountPublish, CountReceive
    DEF TypeInv, TypeOK
<1>5. CASE UNCHANGED nvars
  <2>1. UNCHANGED <<pc, call, trades, faults, publishing, unread, trimmed, tradeUpdates>>
    BY <1>5 DEF nvars, feed, subscriber, vars
  <2> QED
    BY <1>3, <2>1 DEF ToldOnce, TimesTold, Tells, Matched, TradeOf, MatchQuantity, MatchPrice,
      NothingLost, OnlyLimitOrders
<1> QED
  BY <1>4, <1>5

(* Theorems.                                                                *)

\* Nothing has happened and nothing is told.
LEMMA NInit0 == NInit => NInv
<1> SUFFICES ASSUME NInit
             PROVE  NInv
  OBVIOUS
<1>1. NTypeOK
  <2>1. <<>> \in Seq(BroadcastType) /\ <<>> \in Seq(TradeType)
    OBVIOUS
  <2>2. publishing \in [Handlers -> BroadcastType \cup {NoBroadcast}]
    BY DEF NInit
  <2>3. announced \in [Orders -> SUBSET TradeStatuses]
    BY DEF NInit
  <2> QED
    BY <2>1, <2>2, <2>3, NotificationsAssumption DEF NInit, NTypeOK
<1>2. PublishingOK
  BY DEF NInit, PublishingOK
<1>3. Pending = {} /\ (\A h \in Handlers : ~Matched(h)) /\ \A h \in Handlers : call[h] = NoCall
  BY NoCallFields DEF NInit, Init, Pending, Matched
<1>4. HeardOK
  BY <1>3 DEF NInit, HeardOK
<1>5. ReachOK
  BY <1>3, NoCallFields DEF NInit, Init, ReachOK, CreatesLimit
<1>6. CountOK
  BY DEF NInit, Init, CountOK
<1> QED
  BY <1>1, <1>2, <1>4, <1>5, <1>6 DEF NInv

\* Beside the broadcasts, OrderMatching goes on as if they were not there.
LEMMA FeedChangesNothing == NSpec => Spec
<1>1. NInit => Init
  BY DEF NInit
<1>2. [NNext]_nvars => [Next]_vars
  BY DEF NNext, nvars, Accept, Handle, Notify, Abandon, Publish, Receive, Next, Run
<1> QED
  BY <1>1, <1>2, PTL DEF NSpec, Spec

\* The inductive invariant of the broadcasts holds in every reachable state, for
\* any number of handlers, orders, failures and entries in the stream.
THEOREM FeedInvariant == NSpec => [](IInv /\ NInv)
<1>1. IInv /\ NInv /\ [NNext]_nvars => NInv'
  BY NTypeNext, PublishingNext, HeardNext, ReachNext, CountNext DEF NInv, IInv
<1> QED
  BY <1>1, NInit0, FeedChangesNothing, InvariantAlways, PTL DEF NSpec

\* The streams carry well-formed updates, and subscribers get no others.
THEOREM FeedTypeCorrect == NSpec => []NTypeOK
<1>1. NInv => NTypeOK
  BY DEF NInv
<1> QED
  BY <1>1, FeedInvariant, PTL

\* Subscribers never hear of a removal before it is done, nor of a trade that is
\* not stored, however many handlers broadcast and whatever the stream drops.
THEOREM UpdatesAlwaysTrue == NSpec => []UpdatesAreTrue
<1>1. NInv => UpdatesAreTrue
  BY DEF NInv, HeardOK, IsStored, UpdatesAreTrue
<1> QED
  BY <1>1, FeedInvariant, PTL

\* What there is to tell when nothing is on its way.
LEMMA QuietTells ==
  ASSUME IInv, NInv, Quiet
  PROVE  /\ Pending = {}
         /\ \A h \in Handlers : call[h] = NoCall /\ ~Matched(h) /\ pc[h] = "idle"
         /\ \A h \in Handlers : \A t \in TradeType : ~Tells(h, t)
<1>1. \A h \in Handlers : call[h] = NoCall /\ ~Matched(h) /\ pc[h] = "idle"
  BY NoCallFields DEF Quiet, Quiescent, IInv, TypeInv, FrameOK, EventOK, Matched
<1>2. Pending = {}
  BY DEF Quiet, Pending
<1>3. \A h \in Handlers : \A t \in TradeType : ~Tells(h, t)
  BY <1>1, UpdateTyped DEF Quiet, Tells
<1> QED
  BY <1>1, <1>2, <1>3

\* While clients place LIMIT orders only and nothing is lost, no change of the book
\* goes untold, for any number of handlers that change the same orders at once.
THEOREM ChangesAlwaysReach == NSpec => [](OnlyLimitOrders => ChangesReachSubscribers)
<1>1. IInv /\ NInv => (OnlyLimitOrders => ChangesReachSubscribers)
  <2> SUFFICES ASSUME IInv, NInv, OnlyLimitOrders, Quiet, NothingLost, NEW o \in listed
               PROVE  /\ "OPEN" \in announced[o]
                      /\ InBook(o) \/ announced[o] \cap {"CANCELLED", "FILLED"} # {} \/ InTradeUpdate(o)
    BY DEF ChangesReachSubscribers
  <2>1. /\ StatusHeard(o, "OPEN") \/ \E h \in Handlers : Creates(h, o) /\ pc[h] = "respond"
        /\ InBook(o) \/ Heard(o) \/ \E h \in Handlers : WillTell(h, o)
    BY DEF NInv, ReachOK
  <2>2. \A h \in Handlers : pc[h] # "respond" /\ ~WillTell(h, o)
    BY QuietTells, NoCallFields DEF WillTell
  <2>3. Pending = {}
    BY QuietTells
  <2> QED
    BY <2>1, <2>2, <2>3 DEF StatusHeard, Heard, TradeHeard
<1> QED
  BY <1>1, FeedInvariant, PTL

\* No trade is told more often than it was made; and while clients place LIMIT
\* orders only and nothing is lost, each is told as often.
THEOREM TradesAlwaysToldOnce ==
  NSpec => [](/\ OnlyLimitOrders => TradesToldOnce
              /\ Quiet => \A t \in {trades[i] : i \in 1 .. Len(trades)} :
                            Times(t, tradeUpdates) <= Times(t, trades))
<1>1. ASSUME IInv, NInv, Quiet, NEW t \in {trades[i] : i \in 1 .. Len(trades)}
      PROVE  /\ Times(t, tradeUpdates) <= Times(t, trades)
             /\ OnlyLimitOrders /\ NothingLost => Times(t, tradeUpdates) = Times(t, trades)
  <2>1. t \in TradeType /\ ToldOnce(t) /\ TypeInv /\ NTypeOK
    BY <1>1 DEF NInv, CountOK, IInv, TypeInv, TypeOK
  <2>2. Tellers(t) = {}
    BY <1>1, <2>1, QuietTells DEF Tellers
  <2>3. Cardinality(Tellers(t)) = 0 /\ Times(UpdateOf(t), unread) = 0
    BY <1>1, <2>2, FS_EmptySet, TimesEmpty DEF Quiet
  <2>4. TimesTold(t) = Times(t, tradeUpdates)
    BY <2>1, <2>3, CountsFinite
  <2> QED
    BY <2>1, <2>4 DEF ToldOnce
<1>2. IInv /\ NInv =>
        /\ OnlyLimitOrders => TradesToldOnce
        /\ Quiet => \A t \in {trades[i] : i \in 1 .. Len(trades)} :
                      Times(t, tradeUpdates) <= Times(t, trades)
  BY <1>1 DEF TradesToldOnce
<1> QED
  BY <1>2, FeedInvariant, PTL
=============================================================================
