------------------------ MODULE OrderMatchingSerial ------------------------
(***************************************************************************)
(* What holds of OrderMatching when one handler runs at a time and none    *)
(* fails: each operation then is one step of MatchingEngine, and the hash  *)
(* and the book agree whenever no handler runs.  With two handlers none of *)
(* this is promised: the OrderMatchingClaims runs show how it goes wrong.  *)
(***************************************************************************)
EXTENDS OrderMatchingQuantity

Quiescent == \A h \in Handlers : pc[h] = "idle"

\* Nothing is traded that was not ordered, and between requests the quantity of
\* an OPEN order is what it has not traded yet: storeTrade and the two updates
\* that follow it add up, in whichever order they would be read.
QuantityConserved ==
  \A o \in Orders : placed[o] # NoOrder =>
    /\ Traded(o) <= placed[o].quantity
    /\ Quiescent /\ o \in listed /\ order[o].status = "OPEN"
         => order[o].quantity + Traded(o) = placed[o].quantity

\* Between requests, an order is FILLED only by trading all of it or by a fillOrder
\* that was answered: matchTopOrders, which decides from copies read before the
\* trade, closes no order that has something left.
FilledMeansTraded ==
  Quiescent => \A o \in listed : order[o].status = "FILLED" =>
    Traded(o) = placed[o].quantity \/ [event |-> "orderFilled", orderId |-> o] \in told

\* Between requests the orders in the book are exactly the OPEN ones.
BookMirrorsHashes ==
  Quiescent => \A o \in listed : InBook(o) <=> order[o].status = "OPEN"
-----------------------------------------------------------------------------
(* The refinement.  A trade counts for both its orders from storeTrade on,  *)
(* although the orders are settled one after the other afterwards; resting, *)
(* filling and cancelling count from the command that changes the book.     *)

\* No order of the engine can be taken for a missing one.
ASSUME EngineOrderAssumption ==
  NoOrder \notin [side : Sides, price : Int, quantity : Nat, status : TradeStatuses]

\* The sides of the trade of handler h that are not settled yet.
Unsettled(h) ==
  {s \in Sides : Matched(h) /\ pc[h] # "respond" /\ (s = "SELL" \/ call[h].settling = "BUY")}

InTrade(o) == {c \in Handlers \X Sides : c[2] \in Unsettled(c[1]) /\ call[c[1]].top[c[2]].orderId = o}

\* The handler and the side that settle order o.
Settling(o) == CHOOSE c \in InTrade(o) : TRUE

AfterTrade(o) ==
  LET h == Settling(o)[1]
      side == Settling(o)[2]
      left == Remaining(h, side)
  IN  [side |-> side, price |-> IF left <= 0 THEN 0 ELSE call[h].top[side].price,
       quantity |-> IF left <= 0 THEN 0 ELSE left,
       status |-> IF left <= 0 THEN "FILLED" ELSE "OPEN"]

InTheBook(o) ==
  LET side == placed[o].side
  IN  [side |-> side, price |-> PriceOf(side, book[side][o]),
       quantity |-> order[o].quantity, status |-> "OPEN"]

\* Out of the book, with the status that is or is about to be in the hash.
OutOfTheBook(o) ==
  LET closing == {h \in Handlers : pc[h] = "saveStatus" /\ Target(h) = o}
  IN  [side |-> placed[o].side, price |-> 0, quantity |-> 0,
       status |-> IF closing # {} THEN call[CHOOSE h \in closing : TRUE].read.status
                  ELSE order[o].status]

EngineOrders ==
  [o \in Orders |->
     IF o \notin listed THEN NoOrder
     ELSE IF InTrade(o) # {} THEN AfterTrade(o)
     ELSE IF InBook(o) THEN InTheBook(o) ELSE OutOfTheBook(o)]

Engine == INSTANCE MatchingEngine WITH orders <- EngineOrders

\* Run one at a time, the handlers implement the engine: no reader of Redis that
\* waits for them can tell a request from one step.
ImplementsEngine == Engine!Spec
=============================================================================
