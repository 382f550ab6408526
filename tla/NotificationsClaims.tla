------------------------- MODULE NotificationsClaims -------------------------
(***************************************************************************)
(* What a comment of the repository says of the payloads of updates and    *)
(* Notifications does not keep, with a run of its own.                     *)
(***************************************************************************)
EXTENDS NotificationsProperties

\* EmitResponse.js:6: payloadEventKey indicates the relevant event name.  All
\* changes of the book are one event, orderBookUpdate, and only this key would tell
\* a subscriber which of them happened; no payload that is emitted has it.
PayloadNamesItsEvent ==
  \A h \in Handlers : publishing[h] # NoBroadcast =>
    publishing[h].payloadEventKey \in
      {"orderCreated", "orderCancelled", "orderFilled", "tradeExecuted"}
=============================================================================
