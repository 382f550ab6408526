--------------------------- MODULE MCOrderMatching ---------------------------
(***************************************************************************)
(* Small instances of OrderMatching: what clients ask for, and the symmetry *)
(* of handlers, which are interchangeable.  Order ids are not: Redis ranks  *)
(* equal scores by them.  Prices are multiples of 4, so that midpoints, and *)
(* midpoints of midpoints, are exact.                                       *)
(***************************************************************************)
EXTENDS OrderMatchingClaims, OrderMatchingRefinement, OrderMatchingSerialInvariant, TLC

CONSTANTS h1, h2

HandlerSymmetry == Permutations({h1, h2})

Limit(s, p, q) == [side |-> s, orderType |-> "LIMIT", price |-> p, quantity |-> q]
Market(s, q) == [side |-> s, orderType |-> "MARKET", price |-> NoPrice, quantity |-> q]

\* A bid and two asks, one of which it crosses and only partly fills it, and a
\* MARKET order, which may find a price, an old trade's price or none.
PairRequests ==
  {Limit("BUY", 8, 2), Limit("SELL", 4, 1), Limit("SELL", 12, 1), Market("BUY", 1)}

\* An order on each side that trade with each other, one of them in part.
CrossingRequests == {Limit("BUY", 8, 2), Limit("SELL", 4, 1)}

\* And MARKET orders on both sides, which may come between them.
AllRequests == CrossingRequests \cup {Market("BUY", 1), Market("SELL", 2)}

\* Two bids, two prices.
BidRequests == {Limit("BUY", 8, 1), Limit("BUY", 4, 1), Limit("SELL", 4, 1)}
=============================================================================
