------------------------------ MODULE BookReads ------------------------------
(***************************************************************************)
(* getTopOrderBook while orders are placed, matched, filled and cancelled: *)
(* OrderMatching with one request that reads the book of the pair.  Both   *)
(* sides are ranked by a ZRANGE each, then the hashes of what was ranked   *)
(* are read one by one, and the handlers of OrderMatching go on between    *)
(* any two of these commands.  A request writes nothing, so one stands for *)
(* any number.                                                             *)
(***************************************************************************)
EXTENDS OrderMatchingInvariant, FiniteSets

CONSTANT Limit  \* how many orders of each side the request asks for

ASSUME LimitAssumption == Limit \in Nat \ {0}

VARIABLES
  reading,      \* "idle", "rankBids", "rankAsks" or "hashes": what the request does next
  left,         \* left[s]: the ranked orders of side s whose hashes are to be read
  shown,        \* shown[s]: those that were read, the bids and asks of the answer
  closedBefore  \* the orders that clients knew to be closed when the request arrived

request == <<reading, left, shown, closedBefore>>

\* What has been answered as cancelled or filled.
Closed ==
  {o \in Orders : \E e \in {"orderCancelled", "orderFilled"} : [event |-> e, orderId |-> o] \in told}

Nothing == [s \in Sides |-> {}]

\* e comes before f in the reply of side s: the order of ZRANGE, and with REV
\* its reverse.
Precedes(s, e, f) ==
  LET x == ScoreOf(s, e.price)
      y == ScoreOf(s, f.price)
  IN  IF s = "BUY" THEN x > y \/ (x = y /\ e.orderId > f.orderId)
      ELSE x < y \/ (x = y /\ e.orderId < f.orderId)

\* ZRANGE key 0 limit - 1.
TopOf(s) ==
  LET all == {Ranked(s, o) : o \in Members(book[s])}
  IN  {e \in all : Cardinality({f \in all : Precedes(s, f, e)}) < Limit}

BookInit ==
  /\ Init
  /\ reading = "idle"
  /\ left = Nothing
  /\ shown = Nothing
  /\ closedBefore = {}

RequestBook ==
  /\ reading = "idle"
  /\ reading' = "rankBids"
  /\ closedBefore' = Closed
  /\ UNCHANGED <<left, shown, vars>>

\* Both ZRANGEs are sent before the first reply comes.
RankSide(s, now, next) ==
  /\ reading = now
  /\ reading' = next
  /\ left' = [left EXCEPT ![s] = TopOf(s)]
  /\ UNCHANGED <<shown, closedBefore, vars>>

\* Back to where no request is under way: answered, or an exception.
EndRequest ==
  /\ reading' = "idle"
  /\ left' = Nothing
  /\ shown' = Nothing
  /\ closedBefore' = {}

\* The reads of both sides take turns, the bids first, while both have orders left.
Turn(s) ==
  \/ left[Opposite(s)] = {}
  \/ s = "BUY" /\ Cardinality(shown["BUY"]) <= Cardinality(shown["SELL"])
  \/ s = "SELL" /\ Cardinality(shown["BUY"]) > Cardinality(shown["SELL"])

Shown(e) ==
  LET stored == order[e.orderId]
  IN  [e EXCEPT !.quantity = stored.quantity, !.status = stored.status]

\* #_parseZRangeResults: the hash as it is by now, the price as it was ranked.
ReadShown(s) ==
  /\ reading = "hashes"
  /\ Turn(s)
  /\ \E e \in left[s] :
       /\ \A f \in left[s] \ {e} : Precedes(s, e, f)
       /\ IF order[e.orderId] = NoOrder THEN EndRequest
          ELSE /\ left' = [left EXCEPT ![s] = @ \ {e}]
               /\ shown' = [shown EXCEPT ![s] = @ \cup {Shown(e)}]
               /\ UNCHANGED <<reading, closedBefore>>
  /\ UNCHANGED vars

AnswerBook ==
  /\ reading = "hashes"
  /\ left = Nothing
  /\ EndRequest
  /\ UNCHANGED vars

\* A read is rejected: gatewayError.
FailBook ==
  /\ reading # "idle"
  /\ EndRequest
  /\ UNCHANGED vars

BookNext ==
  \/ Next /\ UNCHANGED request
  \/ RequestBook
  \/ RankSide("BUY", "rankBids", "rankAsks")
  \/ RankSide("SELL", "rankAsks", "hashes")
  \/ \E s \in Sides : ReadShown(s)
  \/ AnswerBook
  \/ FailBook

BookSpec == BookInit /\ [][BookNext]_<<vars, request>>

\* The handlers go on as they do without the request.
FairBookSpec == BookSpec /\ Fairness
-----------------------------------------------------------------------------
\* 'There should be the Order!' is thrown for no request: an order that was
\* ranked has a hash when its turn comes, though it may be matched, filled or
\* cancelled in between.
RankedHaveHashes == \A s \in Sides : \A e \in left[s] : order[e.orderId] # NoOrder

\* The two halves of an answered order come from different moments, and agree on
\* what the client asked for: the price that was ranked is the limit, on the
\* order's own side, and the quantity is not above that of the order.
ShownAtTheirTerms ==
  \A s \in Sides : \A e \in shown[s] :
    LET asked == placed[e.orderId]
    IN  /\ asked # NoOrder
        /\ asked.side = s
        /\ asked.orderType = "LIMIT" => e.price = asked.price
        /\ e.quantity <= asked.quantity

\* A client that knows an order to be closed does not find it in a book it asks
\* for afterwards, though other handlers still hold and write copies of it.
ClosedOrdersNotShown ==
  \A s \in Sides : \A e \in shown[s] : e.orderId \notin closedBefore
=============================================================================
