------------------------- MODULE SubscriptionClaims -------------------------
(***************************************************************************)
(* What a comment of the repository says of subscriptions and Subscription *)
(* does not keep, with a run of its own.                                   *)
(***************************************************************************)
EXTENDS SubscriptionProperties

\* SubscriptionSocketController.js:238: handleError is for any async operation.
\* The catch of the interval's callback never gets to call it.
FailedReadIsHandled == server # "exiting"
=============================================================================
