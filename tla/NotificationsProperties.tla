----------------------- MODULE NotificationsProperties -----------------------
(***************************************************************************)
(* What a subscriber can rely on: what it hears is true and is told once,  *)
(* and while no MARKET order trades it misses nothing that a failure or    *)
(* the stream does not lose.                                               *)
(***************************************************************************)
EXTENDS Notifications, OrderMatchingSerial

\* Nothing is on its way to the subscriber.
Quiet ==
  /\ Quiescent
  /\ \A h \in Handlers : publishing[h] = NoBroadcast
  /\ unread = <<>>

InTradeUpdate(o) ==
  \E i \in 1 .. Len(tradeUpdates) :
    o \in {tradeUpdates[i].buyOrderId, tradeUpdates[i].sellOrderId}

\* No handler has failed, and the stream has kept each entry until it was read.
NothingLost == faults = 0 /\ ~trimmed

\* Once nothing is on its way, every order that entered the book has been announced,
\* and whoever took it out again, by a cancel, a fill or a match, has said so:
\* handlers that all change one order, in any order, leave no change of the book
\* that nobody tells the subscribers of, unless a failure or the stream lost it.
ChangesReachSubscribers ==
  Quiet /\ NothingLost => \A o \in listed :
    /\ "OPEN" \in announced[o]
    /\ InBook(o) \/ announced[o] \cap {"CANCELLED", "FILLED"} # {} \/ InTradeUpdate(o)

\* Subscribers never hear of a removal before it is done, nor of a trade that is
\* not stored: what they hear is old at worst.
UpdatesAreTrue ==
  /\ \A o \in Orders : announced[o] \cap {"CANCELLED", "FILLED"} # {} => ~InBook(o)
  /\ \A i \in 1 .. Len(tradeUpdates) : \E j \in 1 .. Len(trades) : tradeUpdates[i] = trades[j]

\* How often t occurs in a sequence of trades.
Times(t, ts) == Cardinality({i \in 1 .. Len(ts) : ts[i] = t})

\* No trade is told twice, and while nothing is lost each is told, also when two
\* handlers match the same two orders and make two equal trades of them.
TradesToldOnce ==
  Quiet => \A t \in {trades[i] : i \in 1 .. Len(trades)} :
    /\ Times(t, tradeUpdates) <= Times(t, trades)
    /\ NothingLost => Times(t, tradeUpdates) = Times(t, trades)
=============================================================================
