----------------------------- MODULE MCBookReads -----------------------------
(***************************************************************************)
(* Small instances of BookReads: orders on both sides, or two on one.      *)
(***************************************************************************)
EXTENDS BookReads

CONSTANTS h1, h2

Priced(s, p, q) == [side |-> s, orderType |-> "LIMIT", price |-> p, quantity |-> q]

\* A bid and an ask that fills it in part.
CrossingPair == {Priced("BUY", 8, 2), Priced("SELL", 4, 1)}
=============================================================================
