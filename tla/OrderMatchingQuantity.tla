------------------------ MODULE OrderMatchingQuantity ------------------------
(***************************************************************************)
(* Quantities of orders and of their trades, under every interleaving and  *)
(* with failures.  A trade is stored before its two orders are settled, and *)
(* each of the three can be the last thing its handler does.               *)
(***************************************************************************)
EXTENDS OrderMatchingProperties, FiniteSetsExt

\* What order o has traded.
Traded(o) ==
  MapThenSumSet(LAMBDA i : trades[i].quantity,
    {i \in 1 .. Len(trades) : o \in {trades[i].buyOrderId, trades[i].sellOrderId}})

\* No order comes up short: what its hash says and what it has traded are never
\* less than what was ordered.  A handler that stops after storeTrade leaves an
\* order with more than it should have, and so do two that trade the same copy;
\* but whatever is written back from however old a copy, no quantity is taken from
\* an order that no stored trade accounts for.
QuantityAccountedFor ==
  \A o \in Orders : order[o] # NoOrder =>
    order[o].quantity + Traded(o) >= placed[o].quantity
-----------------------------------------------------------------------------
\* The inductive invariant: what a handler has read, and will subtract from or
\* write back, and what its trade leaves once it is stored, is not too little either.
Left(h, s) == IF Matched(h) THEN Remaining(h, s) ELSE call[h].top[s].quantity

CopiesAccountedFor(h) ==
  \A o \in Orders :
    /\ \A s \in Sides : call[h].top[s].orderId = o /\ call[h].top[s].status # "unread" =>
         Left(h, s) + Traded(o) >= placed[o].quantity
    /\ pc[h] \in {"removeOrder", "saveStatus", "saveUpdate"} /\ Target(h) = o =>
         call[h].read.quantity + Traded(o) >= placed[o].quantity

QuantityInv ==
  /\ \A o \in Orders : Traded(o) >= 0
  /\ QuantityAccountedFor
  /\ \A h \in Handlers : CopiesAccountedFor(h)
=============================================================================
