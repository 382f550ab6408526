--------------------------- MODULE MCSubscription ---------------------------
(***************************************************************************)
(* Small instances of Subscription.  Sockets, and pairs, are               *)
(* interchangeable; so are the handlers of client events.                  *)
(***************************************************************************)
EXTENDS SubscriptionClaims, SubscriptionInvariant, TLC

CONSTANTS s1, s2, p1, p2, h1, h2, t1, t2

Symmetry == Permutations({s1, s2}) \cup Permutations({p1, p2}) \cup Permutations({h1, h2})
=============================================================================
