--------------------------- MODULE BookReadsProofs ---------------------------
(***************************************************************************)
(* What getTopOrderBook answers, for any number of handlers, orders and    *)
(* levels asked for.  A request changes nothing of OrderMatching, whose    *)
(* inductive invariant therefore holds around it; what is left is that     *)
(* what a request holds stays true while orders move on.                   *)
(***************************************************************************)
EXTENDS BookReads, OrderMatchingTermsProofs

\* What was ranked has been in the book, on its own side and at its limit, and
\* was not known to be closed.
RankedOK(s, e) ==
  /\ e.orderId \in listed
  /\ e.orderId \notin closedBefore
  /\ placed[e.orderId].side = s
  /\ placed[e.orderId].orderType = "LIMIT" => e.price = placed[e.orderId].price

ReadsOK ==
  /\ left \in [Sides -> SUBSET EntryType]
  /\ shown \in [Sides -> SUBSET EntryType]
  /\ closedBefore \subseteq Closed
  /\ reading = "idle" => left = Nothing /\ shown = Nothing
  /\ \A s \in Sides : \A e \in left[s] : RankedOK(s, e)
  /\ \A s \in Sides : \A e \in shown[s] :
       RankedOK(s, e) /\ e.quantity <= placed[e.orderId].quantity

\* What a ZRANGE returns.
LEMMA TopOfIsRanked ==
  ASSUME IInv, closedBefore \subseteq Closed, NEW s \in Sides, NEW e \in TopOf(s)
  PROVE  e \in EntryType /\ RankedOK(s, e)
<1>1. PICK o \in Members(book[s]) : e = Ranked(s, o)
  BY DEF TopOf
<1>2. o \in Orders /\ InBook(o) /\ o \in listed
  BY <1>1 DEF Members, InBook, IInv, TypeInv, TypeOK, SortedSet, LifeOK, OrdersOK
<1>3. e.orderId = o /\ e.price = PriceOf(s, book[s][o])
  BY <1>1 DEF Ranked
<1>4. e \in EntryType
  <2>1. PriceOf(s, book[s][o]) \in Prices
    BY <1>1 DEF IInv, TypeInv, PricesOK
  <2> QED
    BY <1>1, <1>2, <2>1 DEF Ranked, EntryType
<1>5. placed[o].side = s /\ placed[o] # NoOrder
  BY <1>1, <1>2 DEF IInv, LifeOK, BookedOrdersAreOpen, OrdersOK
<1>6. o \notin closedBefore
  BY <1>2 DEF Closed, IInv, AnswersOK, AnsweredOrdersAreGone
<1>7. ASSUME placed[o].orderType = "LIMIT"
      PROVE  e.price = placed[o].price
  <2>1. book[s][o] = ScoreOf(s, placed[o].price) /\ placed[o].price \in Nat
    BY <1>1, <1>2, <1>5, <1>7 DEF IInv, TermsOK, RankedAtLimit, TypeInv, PricesOK, Prices
  <2> QED
    BY <1>3, <2>1 DEF ScoreOf, PriceOf
<1> QED
  BY <1>2, <1>3, <1>4, <1>5, <1>6, <1>7 DEF RankedOK

\* The steps of handlers keep what a request holds true.
LEMMA ReadsOthers ==
  ASSUME IInv, ReadsOK, Next, UNCHANGED request
  PROVE  ReadsOK'
<1>1. /\ listed \subseteq listed'
      /\ \A o \in Orders : placed[o] # NoOrder => placed'[o] = placed[o]
      /\ told \subseteq told'
  BY ListedGrows, PlacedAndToldStay DEF IInv
<1>2. closedBefore' \subseteq Closed'
  BY <1>1 DEF request, ReadsOK, Closed
<1>3. \A o \in listed : placed'[o] = placed[o]
  BY <1>1, ListedIsPlaced DEF IInv
<1>4. \A s \in Sides : \A e : RankedOK(s, e) => RankedOK(s, e)'
  BY <1>1, <1>3 DEF RankedOK, request
<1>5. \A s \in Sides : \A e \in shown[s] : placed'[e.orderId] = placed[e.orderId]
  BY <1>3 DEF ReadsOK, RankedOK
<1> QED
  BY <1>2, <1>4, <1>5 DEF ReadsOK, request

\* A ZRANGE of the request.
LEMMA ReadsRank ==
  ASSUME IInv, ReadsOK, NEW s \in Sides, left' = [left EXCEPT ![s] = TopOf(s)],
         UNCHANGED <<shown, closedBefore, vars>>, reading' # "idle"
  PROVE  ReadsOK'
<1>1. \A t \in Sides : \A e : RankedOK(t, e)' <=> RankedOK(t, e)
  BY DEF RankedOK, vars
<1>2. \A e \in TopOf(s) : e \in EntryType /\ RankedOK(s, e)
  <2>1. closedBefore \subseteq Closed
    BY DEF ReadsOK
  <2> QED
    BY <2>1, TopOfIsRanked
<1>3. left' \in [Sides -> SUBSET EntryType]
  BY <1>2 DEF ReadsOK
<1>4. \A t \in Sides : \A e \in left'[t] : RankedOK(t, e)
  BY <1>2 DEF ReadsOK
<1>5. Closed' = Closed /\ placed' = placed
  BY DEF Closed, vars
<1> QED
  BY <1>1, <1>3, <1>4, <1>5 DEF ReadsOK

\* An HGETALL of the request: what was ranked, with quantity and status of now.
LEMMA ReadsHash ==
  ASSUME IInv, ReadsOK, NEW s \in Sides, NEW e \in left[s],
         left' = [left EXCEPT ![s] = @ \ {e}],
         shown' = [shown EXCEPT ![s] = @ \cup {Shown(e)}],
         UNCHANGED <<closedBefore, vars>>, reading' # "idle"
  PROVE  ReadsOK'
<1>1. \A t \in Sides : \A f : RankedOK(t, f)' <=> RankedOK(t, f)
  BY DEF RankedOK, vars
<1>2. e \in EntryType /\ RankedOK(s, e)
  BY DEF ReadsOK
<1>3. /\ order[e.orderId] \in OrderType
      /\ order[e.orderId].quantity <= placed[e.orderId].quantity
  <2>1. e.orderId \in Orders /\ order[e.orderId] # NoOrder
    BY <1>2, ListedIsPlaced DEF RankedOK, IInv
  <2> QED
    BY <2>1 DEF IInv, TypeInv, TypeOK, TermsOK, StoredOrdersKeepTheirTerms
<1>4. /\ Shown(e) \in EntryType /\ Shown(e).orderId = e.orderId /\ Shown(e).price = e.price
      /\ Shown(e).quantity = order[e.orderId].quantity
  BY <1>2, <1>3 DEF Shown, EntryType, OrderType, Quantities
<1>5. RankedOK(s, Shown(e)) /\ Shown(e).quantity <= placed[e.orderId].quantity
  BY <1>2, <1>3, <1>4 DEF RankedOK
<1>6. left' \in [Sides -> SUBSET EntryType] /\ shown' \in [Sides -> SUBSET EntryType]
  BY <1>4 DEF ReadsOK
<1>7. \A t \in Sides : \A f \in left'[t] : RankedOK(t, f)
  BY DEF ReadsOK
<1>8. \A t \in Sides : \A f \in shown'[t] :
        RankedOK(t, f) /\ f.quantity <= placed[f.orderId].quantity
  BY <1>4, <1>5 DEF ReadsOK
<1>9. Closed' = Closed /\ placed' = placed
  BY DEF Closed, vars
<1> QED
  BY <1>1, <1>6, <1>7, <1>8, <1>9 DEF ReadsOK

\* A request that holds nothing.
LEMMA ReadsNothing ==
  ASSUME left' = Nothing, shown' = Nothing, closedBefore' \subseteq Closed'
  PROVE  ReadsOK'
  BY DEF ReadsOK, Nothing, EntryType

\* No step of a handler or of the request makes what the request holds untrue.
LEMMA ReadsNext == IInv /\ ReadsOK /\ [BookNext]_<<vars, request>> => ReadsOK'
<1> SUFFICES ASSUME IInv, ReadsOK, [BookNext]_<<vars, request>>
             PROVE  ReadsOK'
  OBVIOUS
<1>1. CASE UNCHANGED <<vars, request>>
  BY <1>1 DEF ReadsOK, RankedOK, Closed, vars, request
<1>2. CASE Next /\ UNCHANGED request
  BY <1>2, ReadsOthers
<1>3. CASE RequestBook
  BY <1>3, ReadsNothing DEF RequestBook, ReadsOK, Closed, vars
<1>4. CASE RankSide("BUY", "rankBids", "rankAsks") \/ RankSide("SELL", "rankAsks", "hashes")
  BY <1>4, ReadsRank DEF RankSide, Sides
<1>5. CASE EndRequest /\ UNCHANGED vars
  BY <1>5, ReadsNothing DEF EndRequest
<1>6. ASSUME NEW s \in Sides, ReadShown(s)
      PROVE  ReadsOK'
  <2>1. CASE EndRequest
    BY <1>5, <1>6, <2>1 DEF ReadShown
  <2>2. CASE ~EndRequest
    BY <1>6, <2>2, ReadsHash DEF ReadShown
  <2> QED
    BY <2>1, <2>2
<1> QED
  BY <1>1, <1>2, <1>3, <1>4, <1>5, <1>6 DEF BookNext, AnswerBook, FailBook

\* Around a request, OrderMatching goes on as if it were not there.
LEMMA ReadsChangeNothing == BookSpec => Spec
<1>1. BookInit => Init
  BY DEF BookInit
<1>2. [BookNext]_<<vars, request>> => [Next]_vars
  BY DEF BookNext, RequestBook, RankSide, ReadShown, AnswerBook, FailBook
<1> QED
  BY <1>1, <1>2, PTL DEF BookSpec, Spec

\* What a request holds is true in every reachable state.
THEOREM ReadsAlwaysOK == BookSpec => [](IInv /\ ReadsOK)
<1>1. BookInit => ReadsOK
  BY DEF BookInit, ReadsOK, Nothing, EntryType
<1> QED
  BY <1>1, ReadsNext, ReadsChangeNothing, InvariantAlways, PTL DEF BookSpec

\* getTopOrderBook never throws 'There should be the Order!', however many orders
\* it ranks and whatever becomes of them before it reads their hashes.
THEOREM HashesAlwaysFound == BookSpec => []RankedHaveHashes
<1>1. IInv /\ ReadsOK => RankedHaveHashes
  BY ListedIsPlaced DEF IInv, ReadsOK, RankedOK, RankedHaveHashes
<1> QED
  BY <1>1, ReadsAlwaysOK, PTL

\* An order is answered on its own side, at its limit, and never with more than
\* was asked for.
THEOREM AlwaysShownAtTheirTerms == BookSpec => []ShownAtTheirTerms
<1>1. IInv /\ ReadsOK => ShownAtTheirTerms
  BY ListedIsPlaced DEF IInv, ReadsOK, RankedOK, ShownAtTheirTerms
<1> QED
  BY <1>1, ReadsAlwaysOK, PTL

\* No book that is asked for after an order was answered as closed shows it.
THEOREM ClosedNeverShown == BookSpec => []ClosedOrdersNotShown
<1>1. ReadsOK => ClosedOrdersNotShown
  BY DEF ReadsOK, RankedOK, ClosedOrdersNotShown
<1> QED
  BY <1>1, ReadsAlwaysOK, PTL
=============================================================================
