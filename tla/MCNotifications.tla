--------------------------- MODULE MCNotifications ---------------------------
(***************************************************************************)
(* Small instances of Notifications: LIMIT orders that cross, handlers     *)
(* that are interchangeable.                                               *)
(***************************************************************************)
EXTENDS NotificationsInvariant, NotificationsClaims, TLC

CONSTANTS h1, h2

HandlerSymmetry == Permutations({h1, h2})

Limit(s, p, q) == [side |-> s, orderType |-> "LIMIT", price |-> p, quantity |-> q]

\* An order on each side that trade with each other, one of them in part.
CrossingRequests == {Limit("BUY", 8, 2), Limit("SELL", 4, 1)}
=============================================================================
