----------------------- MODULE SubscriptionProperties -----------------------
(***************************************************************************)
(* What holds of Subscription whatever events clients send, however they   *)
(* are batched and wherever reads fail.                                    *)
(***************************************************************************)
EXTENDS Subscription

\* Nobody waits for a book that no timer will read: while a room of a pair has a
\* member, the interval runs.  It is started only after the join, and stopped by
\* whoever leaves or disconnects, at a time when others may be half way in.
SubscribersHaveInterval ==
  Drained /\ (\E p \in Pairs : rooms[p] # {}) => interval

\* At most one timer runs, and clearInterval can reach it: two subscriptions of
\* one batch that both find no interval do not start two.
OneInterval == timers = IF interval THEN 1 ELSE 0

\* The interval is stopped when all sockets have disconnected, though the rooms
\* counted include those of the sockets themselves, and none is started later.
IntervalStopsWithLastSocket == connected = {} => timers = 0

\* The last acknowledgement a client got is true: whatever mix of subscribePair
\* and unsubscribePair it sent in one batch, whose handlers all looked at the
\* rooms before any of them changed one, it is in the room exactly if the last
\* of its answers that was no error says so.
AnswersAreTrue ==
  Drained => \A s \in Sockets, p \in Pairs :
    s \in rooms[p] <=> answered[s][p] = "subscribed"

\* A client that stays in a room gets the current book of the pair, at the latest
\* when it stops changing, though broadcasts fail, skip pairs that were no room
\* when they started, and are published late.
BookReachesSubscribers ==
  \A s \in Sockets, p \in Pairs :
    s \in rooms[p] ~> (s \notin rooms[p] \/ seen[s][p] = version[p])
=============================================================================
