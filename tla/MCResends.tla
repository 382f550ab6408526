------------------------------ MODULE MCResends ------------------------------
(***************************************************************************)
(* Small instances of Resends: a bid and an ask that trade, and a MARKET   *)
(* order that rests at a price it takes from the other side.               *)
(***************************************************************************)
EXTENDS ResendsInvariant, TLC

CONSTANTS h1, h2

HandlerSymmetry == Permutations({h1, h2})

Limit(s, p, q) == [side |-> s, orderType |-> "LIMIT", price |-> p, quantity |-> q]
Market(s, q) == [side |-> s, orderType |-> "MARKET", price |-> NoPrice, quantity |-> q]

\* The bid is filled in part by the ask, or by the MARKET order.
PairRequests == {Limit("BUY", 8, 2), Limit("SELL", 4, 1), Market("SELL", 1)}
=============================================================================
