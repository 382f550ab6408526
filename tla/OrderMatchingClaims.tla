------------------------- MODULE OrderMatchingClaims -------------------------
(***************************************************************************)
(* What comments, documents and tests of the repository say of the order   *)
(* book and OrderMatching does not keep.  Each property has a run of its   *)
(* own, whose counterexample shows how the code departs from the words.    *)
(***************************************************************************)
EXTENDS OrderMatchingSerial

\* OrderRepository.js:315: getTopBids gives the bids of the highest price.  Bids
\* are stored under the negated price, and ZRANGE REV starts from the greatest
\* score, which is the lowest price.
TopBidIsTheHighest ==
  \A o, p \in Members(book["BUY"]) :
    IsTop("BUY", o) => PriceOf("BUY", book["BUY"][o]) >= PriceOf("BUY", book["BUY"][p])

\* order/README.md:77: of an order that finds too little liquidity, only part
\* executes.  Two handlers of matchTopOrders that both read a top order before
\* either has settled it trade it twice, beyond its quantity.
NothingOvertraded ==
  \A o \in Orders : placed[o] # NoOrder => Traded(o) <= placed[o].quantity

\* OrderService.js:117: cancelOrder marks the order as CANCELLED.  A match that
\* read the order before that writes it back as OPEN, out of the book.
CancelledStaysCancelled ==
  \A o \in Orders :
    [event |-> "orderCancelled", orderId |-> o] \in told => order[o].status # "OPEN"
=============================================================================
