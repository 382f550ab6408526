# Verification of the real-time trading API

TLA+ modules for the order book, the matching engine, the subscriptions and the notifications of this
repository, TLC runs on small instances, and TLAPS proofs for instances of any size. Paths below are
relative to the repository.

    tlc -workers 2 -config ConcurrentFaults.cfg MCOrderMatching.tla    # any run: its .cfg
    tlapm OrderMatchingTypeProofs.tla                                  # any proof module

## The system

A Node service on socket.io. Clients send events; each event is handled by an `async`
function that talks to Redis and answers on the socket. Several instances of the service can
share one Redis.

| Component | Code | State | Operations |
|---|---|---|---|
| Orders | `src/modules/order` (repository, service) | Redis hash `order:{id}`, sorted sets `orderbook:{pair}:bids` and `:asks` | `createOrder`, `cancelOrder`, `fillOrder`, `updateOrder`, `getTopBids`, `getTopAsks` |
| Trades | `src/modules/trade` (repository, service) | Redis hash `trade:{id}`, sorted set `trades:{pair}` by timestamp | `matchTopOrders`, `storeTrade`, `getRecentTrades` |
| Order and trade handlers | `OrderSocketController.js`, `TradeSocketController.js` | none but their local variables | events `createOrder`, `cancelOrder`, `fillOrder`, `matchTopOrders`, `getRecentTrades` |
| Subscriptions | `SubscriptionSocketController.js` | socket.io rooms, one broadcast interval per instance | `subscribePair`, `unsubscribePair`, `getTopOrderBook`, the interval, `disconnect` |
| Notifications | the emits of all controllers, `EmitResponse.js`, the streams adapter of `app.js` | messages on their way | answers to the client, updates to the room of a pair |
| Redis connection | `config/RedisClient.js` | queue of commands without a reply | retries, resends |
| Process | `index.js`, `app.js` | the HTTP server | start, SIGTERM, unhandled errors |
| Validation, logging, environment, documentation | `core/`, `config/env.js`, `docs/` | none | |

How they interact. A handler calls its service, the service its repository, the repository
awaits one Redis command after the other. `OrderService.createOrder` calls
`TradeService.matchTopOrders` for MARKET orders, which calls back into `OrderService`
(`getTopBids`, `fillOrder`, `updateOrder`); `OrderRepository.addOrder` reads the last trade to
price a MARKET order. Subscriptions read the book with `getTopBids` and `getTopAsks`, at a
request or every eight seconds. Handlers share nothing but Redis.

What is hard here. An order is kept twice, in its hash and in the book, and nothing ties the
two together: no transaction, no `WATCH`, no lock. Every operation is a sequence of awaited
commands, and the other handlers, of the same or another instance, run between any two of
them; a handler can also stop between any two. So a copy of an order can be old when it is
written back, a check can be outdated when it is acted upon, and half of an operation can be
all that is ever done. The rest is arithmetic and order: what a trade leaves of two orders,
which end of a sorted set is its top, what a MARKET order is worth.

What makes each component correct.

- Orders and trades: what is in the book exists, is open and on its own side; an order that
  left the book does not come back; no copy changes the terms of an order; a LIMIT order never
  trades beyond its limit; what a client was told stays true; every event is answered; and, where
  handlers do not overlap, quantity is conserved and the whole is an ordinary matching engine.
- Subscriptions: a client is in a room exactly if it was told so; while a room has a member the
  interval runs, once; whoever stays in a room gets its current book; a book that is answered is
  made of orders at their own terms, none of them known to be closed.
- Notifications: what a subscriber hears is true and told once, and every change of the book is told.
- Connection and process: a command that runs twice does no harm but to the order it creates;
  nothing runs on once the last client has gone.

## Modules

| Module | What it is |
|---|---|
| `RedisSortedSet` | ZADD, ZREM and ZRANGE as the repositories use them (external to this repository) |
| `OrderMatching` | the order and trade modules and their handlers, one action per Redis command |
| `OrderMatchingProperties` | what holds of it under every interleaving |
| `MatchingEngine` | abstract specification: rest, match, fill and cancel, each in one step |
| `OrderMatchingQuantity` | what orders and their trades add up to, under every interleaving |
| `OrderMatchingSerial` | what holds when handlers do not overlap, and the refinement mapping to `MatchingEngine` |
| `OrderLife` | abstract specification: the life of one order and what its clients are told |
| `OrderMatchingRefinement` | the refinement mapping of `OrderMatching`, under every interleaving, to `OrderLife` |
| `OrderMatchingClaims` | what the repository's texts say and the code does not keep |
| `OrderMatchingInvariant` | the inductive invariant, in four layers |
| `OrderMatchingSerialInvariant` | what holds on top of it while one handler runs at a time |
| `Resends` | `OrderMatching` with commands that Redis runs twice |
| `ResendsInvariant` | its inductive invariant |
| `BookReads` | `OrderMatching` with a `getTopOrderBook` that reads the book meanwhile |
| `Notifications`, `NotificationsProperties` | `OrderMatching` with its broadcasts, the adapter's stream and a subscriber |
| `NotificationsClaims` | what a comment says of payloads and the code does not keep |
| `NotificationsInvariant` | their inductive invariant |
| `Subscription`, `SubscriptionProperties`, `SubscriptionClaims` | the subscription controller, its rooms and interval, and the end of the process |
| `SubscriptionInvariant` | its inductive invariant |
| `OrderMatchingTypeProofs`, `...LifeProofs`, `...TermsProofs`, `...SerialProofs`, `ResendsProofs`, `BookReadsProofs`, `NotificationsProofs`, `SubscriptionProofs` | TLAPS proofs |
| `MCOrderMatching`, `MCResends`, `MCBookReads`, `MCNotifications`, `MCSubscription` | the instances for TLC |

`Resends`, `BookReads` and `Notifications` each compose `OrderMatching` with one more component:
its actions are theirs, with the new variables unchanged or, for an answer, changed with it.
`Subscription` stands alone: of the order book it only needs that it changes.

### OrderMatching and the code

State. `order[o]` is the hash `order:{o}` (`NoOrder` if there is none), `book[s]` the sorted set
of a side, `trades` the trades of the pair, most recent first. `placed[o]` remembers the `Order`
object that `createOrder` built, `listed` which orders have been in the book, `told` which
acknowledgements were sent: `RequestCancel` and `RequestFill` use them to know which ids a client
can have, and the properties to say what was asked and answered. `pc[h]` is the command that
handler `h` sends next and `call[h]` its local variables: the event, its order, `topBid` and
`topAsk`, the side being settled, the order that `getOrder` returned, `priceToUse`.

One action is one command with the synchronous code after its reply:

| Action | Code |
|---|---|
| `RequestCreate`, `RequestMatch`, `RequestCancel`, `RequestFill` | the event arrives; `new Order` under a fresh id |
| `RankBids`, `RankAsks` | ZRANGE of `getTopBids(pair, 1)`, `getTopAsks(pair, 1)` |
| `ReadBid`, `ReadAsk` | HGETALL in `#_parseZRangeResults`, then the condition at `TradeService.js:47` |
| `StoreTrade` | the MULTI of `storeTrade`; `Settle` is the condition at lines 76 and 86 |
| `CheckOpen` | HGETALL of `fillOrder` and its check |
| `ReadForStatus`, `RemoveOrder`, `SaveStatus` | HGETALL, ZREM, HSET of `setOrderStatus` |
| `ReadForUpdate`, `SaveUpdate` | HGETALL, HSET of `updateOrder` |
| `SaveOrder`, `RankOpposite`, `ReadOpposite`, `ReadLastTrade`, `AddToBook` | HSET, the reads that price a MARKET order, and ZADD of `addOrder` |
| `Respond`, `RespondError` | the answer on the socket |
| `Fail` | a command rejected after its retries, or the end of the instance |

`Continue` goes on to the other side of the trade or to the answer. `Throws` is the `catch` of the
handlers, reached when a ranked order has no hash.

Abstractions. One pair: keys of different pairs are disjoint. Prices and quantities are integers, prices
in the instances multiples of 4, so that midpoints and midpoints of midpoints are exact. In the code
both are floating point numbers, and so are the midpoint and the remainders of a trade
(`TradeService.js:57-74`): their rounding is not modelled. A MARKET order that carries a price anyway
(validation does not strip it) is the same as one without, because every use of its stored price is
replaced by the score. Ids are integers, whose order stands for the byte order of the uuids. Clocks of
instances differ, so a trade may enter `trades` at any place. `getRecentTrades` as an event,
`getTopOrderBook` and the notifications change nothing in Redis and are left out here; `BookReads` and
`Notifications` add the last two. Invalid payloads are dropped before they reach any of this.

### Resends and the code

`RedisClient` sets `autoResendUnfulfilledCommands`: when the connection breaks after Redis has run
a command and before its reply is read, the client sends it again. `LoseReply(h)` is the first
run: HSET, ZADD or ZREM take effect and handler `h` stays where it is; its ordinary action is the
second. Other handlers, on other instances, run in between. A read that is sent twice is a slow
read, and the MULTI of `storeTrade` writes again what nobody else writes. A command that was given
up although it took effect is a `LoseReply`, or the action itself, followed by `Fail`.

### BookReads and the code

| Action | Code |
|---|---|
| `RequestBook` | the event `getTopOrderBook`, for a pair the socket is subscribed to |
| `RankSide` | the two ZRANGEs of `Promise.all([getTopBids, getTopAsks])`, sent one after the other |
| `ReadShown` | one HGETALL of `#_parseZRangeResults`, which keeps the ranked price and takes the rest from the hash; the two sides take turns as their replies come |
| `AnswerBook`, `FailBook` | the answer, or the `catch` |

`closedBefore` remembers which orders clients knew to be closed when the request arrived. A request
writes nothing, so one stands for any number.

### Notifications and the code

`Handle` runs the commands of a handler, `Notify` is its answer and the emit to the pair's room that
follows it, unless the handler returns before (`Silent`: a MARKET order that was answered as filled, a
match without a trade). `publishing[h]` is the broadcast that the instance of `h` has still to
publish, `unread` the part of the Redis stream that the subscriber's instance has not read,
`trimmed` whether MAXLEN has cut into it. `Publish` is the adapter's XADD, `Receive` its XREAD and
the packet to the subscriber. `Success` is `EmitResponse.Success`, which drops the key that would name
the event (see `PayloadNamesItsEvent` below). Each
handler is taken to be on an instance of its own, so broadcasts of two handlers may be
published in either order.

### Subscription and the code

State. `rooms[p]` are the sockets in the room of a pair, `connected` all sockets of the namespace (each
has a room of its own, which `#cleanupBroadcasts` counts as well), `interval` whether
`#broadcastInterval` holds a timer and `timers` how many really run. `version[p]` counts the
changes of a book, `seen[s][p]` is the version a client got last, `wire` the broadcasts the adapter is
publishing, `answered[s][p]` the last acknowledgement. `pc[t]` and `call[t]` are the awaits and
locals of a handler or of a callback of the interval.

| Action | Code |
|---|---|
| `Connect`, `Disconnect` | the connection; leaving all rooms, then `#cleanupBroadcasts` |
| `RequestRoom` | `subscribePair` or `unsubscribePair` up to the await of `#isSubscribed` |
| `JoinRoom`, `StartInterval` | the check and `socket.join`; the interval and the acknowledgement |
| `LeaveRoom`, `StopInterval` | the check and `socket.leave`; `#cleanupBroadcasts` and the acknowledgement |
| `RequestTopOrderBook`, `Tick` | the pairs of the socket; the pairs that are rooms |
| `ReadBook` | the book of one pair; after the last, the answer or the broadcasts |
| `Deliver` | a broadcast reaches those who are in the room by then |
| `FailRead` | a rejected read: `gatewayError`, or the exception in the `catch` of the callback |
| `Sigterm`, `Exit` | `server.close` without and with `process.exit` |
| `ChangeBook` | the order and trade handlers |

The awaits of `subscribePair` and `unsubscribePair` wait for settled promises, so their
continuations run before the event loop turns (`Drained`). They interleave only with each other,
when a socket sends several events in one batch: all handlers of the batch look at the rooms before
any of them goes on (`draining`). The adapter's `sockets`, `join` and `leave` work in memory.

### Properties

`OrderMatchingProperties`, under every interleaving, the safety properties also with failures:

- `BookedOrdersAreOpen`: an order in the book exists, is OPEN and on its side. It rests on the order
  of commands in `addOrder` (hash first) and `setOrderStatus` (book first), and on no stale copy
  being able to close an order that is still in the book.
- `StoredOrdersKeepTheirTerms`: whole-hash writes of old copies never change side, type or price nor
  raise the quantity above what was ordered.
- `TradesHonourLimits`: however old the scores that a trade is priced by, it is within the limits of
  both orders.
- `AnsweredOrdersAreGone`: after `orderFilled` or `orderCancelled`, nobody finds the order in the book.
- `NoRelisting`: a step never puts back an order that left the book.
- `QuantityAccountedFor` (`OrderMatchingQuantity`): what the hash of an order says and what it has traded
  are together never less than what was ordered. A trade is stored before its orders are settled, so
  a failure in between leaves an order with too much, and so do two handlers that trade the same copy; but
  no quantity disappears that a stored trade does not account for, however old the copies that are
  written back.
- `EveryRequestAnswered`, `CancelTakesEffect`: liveness, below.
- `ImplementsOrderLife`: each order is placed, rests at most once and is gone, and no answer is
  ahead of that.

`OrderMatchingSerial`, for one handler at a time: `QuantityConserved`, `FilledMeansTraded`,
`BookMirrorsHashes` and the refinement `ImplementsEngine`. These are not promised for
overlapping handlers; `NothingOvertraded` and `CancelledStaysCancelled` show two ways they fail.

`Resends`, with commands that run twice: terms and limits are kept as before; `RankedOrdersExist` is
what is left of `BookedOrdersAreOpen`, and `RelistedByCreatorOnly` of `NoRelisting`: an order comes back
into the book only by the second ZADD of its own creation.

`BookReads`: `RankedHaveHashes` (no request ends with 'There should be the Order!'),
`ShownAtTheirTerms` (rank and hash come from different moments and still fit together),
`ClosedOrdersNotShown` (who knows an order to be closed does not see it in a later book).

`NotificationsProperties`: `UpdatesAreTrue`, `TradesToldOnce` and `ChangesReachSubscribers`. The last is
stated for the moments when nothing is on its way; that handlers come to an end is `EveryRequestAnswered`.

`SubscriptionProperties`: `SubscribersHaveInterval`, `OneInterval`, `IntervalStopsWithLastSocket`,
`AnswersAreTrue`, and the liveness property `BookReachesSubscribers`.

## Runs

| Run | Instance | States | Shows |
|---|---|---|---|
| `ConcurrentFaults` | 2 handlers, 2 orders out of 4 kinds, 1 failure, all events | 2.4 million | the safety properties that survive interleaving and failures, the refinement to `OrderLife`, and the inductive invariant of the proofs |
| `Serial` | 1 handler, 3 orders out of 4 kinds, all events | 0.3 million | quantity, book and hash, their inductive invariant, the refinement to `MatchingEngine`, and that to `OrderLife` where MARKET orders are executed at once |
| `Resends` | 2 handlers, 2 orders out of 3 kinds, all events, 1 lost reply or failure | 2.6 million | what survives commands that run twice, and the inductive invariant behind it |
| `BookReads` | 2 handlers that go on, 2 orders that cross, no `fillOrder`, 1 request for both sides | 0.9 million | what a book is made of while it changes; and, of the handlers that change it, that every event is answered and a cancel takes effect |
| `Updates` | 2 handlers, 2 orders that cross, no `fillOrder`, 1 failure, a stream with 1 unread entry that the next may push out | 4.2 million | what a subscriber can conclude from the updates, and the inductive invariant behind it |
| `Rooms` | 2 sockets, 2 pairs, 2 handlers, 1 callback, 1 failed read | 1.4 million | rooms, interval and acknowledgements, and their inductive invariant |
| `BookDelivery` | 2 sockets, 1 pair, 1 handler, 2 callbacks, a book that changes once | 76 thousand | subscribers get the current book |
| `Claim*` | as small as the counterexample allows | | each finds the counterexample of one finding |

Why the bounds are enough. A conflict needs two handlers, and a trade two orders; the third order
of `Serial` is what a MARKET order needs to arrive between two others (what overlapping handlers
add to that is covered by the proofs). The
kinds of orders (`PairRequests` and so on) contain an order that crosses another and is partly
filled by it, one that does not cross, and MARKET orders that find a price, an old trade or
nothing (`CeilingPrice`, `FloorPrice`). One failure (`MaxFaults`) leaves one operation half done,
at each of its commands; what a second half-done operation adds is covered by the proofs, which hold for
any number of handlers, orders and failures. The event `fillOrder` is left out (`Events`) where it would only
multiply states: it closes an order by the commands of `cancelOrder`, and is announced as it is; its
commands are in `BookReads` and `Updates` all the same, where they settle an order that a trade has used up. In
`BookReads` `Limit` is 2, so both orders are ranked and read; there can be one on each side. The
stream of `Updates` keeps one entry (`MaxLen`) in place of about 45, so that it is cut although only
one is unread at a time (`MaxUnread`); broadcasts that wait are in `publishing`. In `Rooms` two pairs
make an interval's callback read one after the other, and two handlers are a batch; a longer batch
is covered by the proof.
`MaxVersion` and `MaxWire` bound how often a book changes and how many broadcasts the adapter is
behind; in `BookDelivery` both are enough for a newer book to overtake an older one.

Handlers are symmetric (`HandlerSymmetry`), and so are sockets and pairs (`Symmetry`); the runs that
check liveness do without; order ids are not, because Redis ranks equal scores by them. The deadlock
check is off in the runs of `Subscription`, whose process may exit.

Fairness. `Fairness` of `OrderMatching` is weak fairness of `Run(h)`, all commands of one handler:
Node runs the continuation of every reply and Redis replies to every command. `BookReads` is checked with
it (`FairBookSpec`). No fairness is assumed of clients, of the request for a book, of failures, or between
handlers, and that run has no failures, since a handler that failed answers `gatewayError` at once. Its
orders are LIMIT orders: the three reads that price a MARKET order are checked for safety only.

`FairSpec` of `Subscription` has weak fairness for continuations, which run at once, and strong fairness
for callbacks of the timer, for replies of Redis and for the adapter: each waits for a free turn of the
event loop, and free turns come again and again, though batches of client events take them away in
between. Nothing is assumed of clients, of failing reads or of SIGTERM.

Findings. The `Claim*` runs state what a comment, a document or a test says and show how the code
departs from it:

- `TopBidIsTheHighest`: `getTopBids` negates the price and then reads from the greatest score, so
  the top bid is the lowest one (`OrderRepository.js:329`).
- `NothingOvertraded`: two matches that read the same orders trade them twice (`TradeService.js:39`).
- `CancelledStaysCancelled`: a partial fill writes a cancelled order back as OPEN
  (`OrderRepository.js:227`).
- `PayloadNamesItsEvent`: `EmitResponse.js:6` says that `payloadEventKey` indicates the relevant event, but
  `Success` destructures it and does not hand it on (`EmitResponse.js:46`). Every change of the book is the one
  event `orderBookUpdate`, so its subscribers are not told which change it was.
- `FailedReadIsHandled`: the `catch` of the interval's callback evaluates a variable that is not declared
  there, and the unhandled rejection closes the server (`SubscriptionSocketController.js:229`).

What else the models show of the code, each visible in a definition and without a run of its own: a
MARKET order never trades itself: it makes two other orders trade and is answered as filled, and the
trade is not broadcast (`MatchingEngine`, `Silent`), or it rests; a closed order can be cancelled again,
and one cancelled between the two reads of `fillOrder` becomes FILLED (`SaveStatus`); the interval goes
on while a socket without a subscription is connected (`ActiveRooms`), although
`subscription/README.md:42` says that it stops when no active subscribers remain; two `subscribePair` of
one batch are both acknowledged; `getTopOrderBook` answers for pairs that the client has left meanwhile
(`ReadBook`), and with orders that were closed after they were ranked (`Shown`); a broadcast can bring
an older book than the client has (`Deliver`); and the creation of an order can be announced after its
cancel (`Publish`).

## Proofs

`OrderMatchingInvariant` states one inductive invariant `IInv` in four layers, each of which
needs the ones before it:

1. `TypeInv`: types; scores are prices; and what the locals of a handler hold at each command
   (`FrameOK`). It is needed because an action is only one command: that the remainder `updateOrder` gets
   is positive was decided several commands earlier, and is remembered in the entries of
   `topBid` and `topAsk`.
2. `LifeOK`: an order belongs to its creator alone until `AddToBook`; what any handler sets out
   to write back has been in the book; a copy that says closed is of an order that left the book.
   `BookedOrdersAreOpen` is part of it, and is not inductive without it: `SaveUpdate` keeps
   it only because a copy that is not OPEN was read after the order had left the book, and orders
   do not come back.
3. `TermsOK`: all copies of an order agree with what was placed; LIMIT orders are ranked at their
   limit. Of `LifeOK` it only needs `StoredOK`, that every order a handler goes by has a hash.
4. `AnswersOK`: an order that was answered as closed has no creator left that would list it.

All four are proved (`InvariantAlways`), and with them every safety property of
`OrderMatchingProperties`:

| Layer and module | Theorems about properties |
|---|---|
| 1, `OrderMatchingTypeProofs` | `TypeCorrect`: `Spec => []TypeOK` |
| 2, `OrderMatchingLifeProofs` | `BookedAlwaysOpen`: `Spec => []BookedOrdersAreOpen`; `NeverRelisted`: `Spec => NoRelisting` |
| 3, `OrderMatchingTermsProofs` | `TermsKept`: `Spec => []StoredOrdersKeepTheirTerms`; `LimitsHonoured`: `Spec => []TradesHonourLimits` |
| 4, `OrderMatchingTermsProofs` | `AnsweredStayGone`: `Spec => []AnsweredOrdersAreGone` |

The first three layers are proved in the same way: a lemma per command looks only at the handler
that takes the step; `FrameStep`, `LifeStep` and `TermsStep` dispose of the others, from
`OthersKeep` and `Interferes`, which say what a step may change behind their backs. The fourth
goes by what its facts are about instead: who can still bring an order into the book
(`EntersFromCreator`), who tells what (`ToldByAnswer`), and how a handler comes to its answer
(`ClosedWhenAnswered`).

`OrderMatchingTermsProofs` also proves that `OrderMatching` implements `OrderLife`
(`OrdersLiveOnce`): `IInv` gives each command the phase its order is in, and every step is one
step of a life or a stutter. A request for a book is defined to change
nothing of the handlers, so `IInv` holds of `BookReads` as well; `BookReadsProofs` shows what a request
holds (`ReadsAlwaysOK`): what was ranked has been in the book, at its limit, and was not closed when the
request arrived. Its three properties follow.

### One handler at a time

`OrderMatchingSerialProofs` assumes `OneAtATime`: there is one handler and no failure. The numbers of
orders, of requests and of trades are as free as before. Under it the whole of
`OrderMatchingSerial` is proved, on top of `IInv` and from one more inductive invariant, `SerialInv`:

- `SnapshotCurrent` and `CopyCurrent`: what the handler has read and still uses is what Redis
  holds: quantity, status and score of a top order, and the copy about to be written back. It is
  the statement that fails as soon as two handlers overlap, and the properties below with it.
- `ClosesOK`: a match closes only an order with nothing left, `fillOrder` only an open one.
- `BalanceOK`: what the hash of an OPEN order says and what it has traded add up to what was ordered
  plus what is `Owed`, the trade that is stored and not yet settled on its side; a FILLED order has
  traded everything or was filled by its client. The two sides of a trade are always two orders, so one
  settlement never pays for the other.
- `LowestAsk`, `PricingOK`, `PlacedAsRequested`: what the refinement needs besides, the ask of a
  match being a lowest one and the prices that a MARKET order can rest at.

| Theorem | Statement |
|---|---|
| `SerialAlways` | `OneAtATime` implies `Spec => []SerialInv` |
| `QuantityAlwaysConserved`, `FilledAlwaysTraded`, `BookAlwaysMirrors` | the same for `QuantityConserved`, `FilledMeansTraded` and `BookMirrorsHashes` |
| `EngineImplemented` | `OneAtATime` implies `Spec => ImplementsEngine` |

`Traded` is a sum over a sequence into which `storeTrade` inserts anywhere. That one more trade adds
its quantity (`TradedSums`) needs inductions that the library's theorems, which take a predicate as a
parameter, cannot be cited for. `MapThenSumSet` chooses a function on finite sets that solves an equation; that
there is one, that its solutions agree, and that places can be renamed is each shown of a set of sizes
at which it fails, which would have a least element (`Least`).

The refinement goes by what the engine sees of an order (`View`): of an order in a trade that is not
settled what the trade leaves, of one in the book its hash at its score, of one that is out its status.
The commands at which an operation takes effect are ZADD (`Rest`), the MULTI of the trade (`Match`, also
when a MARKET order makes two others trade) and the ZREM of a client's fill or cancel (`Fill`, `Cancel`),
even if it finds nothing to remove. Every other command leaves every `View` as it was: reads and answers do
not show (`EngineHidden`), and a HSET only catches up (`EngineSave`, `EngineSaveOrder`).
`EngineOrderAssumption` says that `NoOrder` is no order of the engine.

### Quantities of any number of handlers

The second half of `OrderMatchingSerialProofs` does without `OneAtATime`. `QuantityAccountedFor` is not
inductive: a HSET writes what an old copy says. `QuantityInv` adds that no copy says too little either
(`CopiesAccountedFor`): neither what a handler has read of a top order, less the trade once that is stored
(`Left`), nor the order it is about to write back. It is enough to look at the handler that takes the step
(`QuantityStep`), because what an order has traded only grows (`TradedGrows`), and a copy that was enough
stays so (`StaysEnough`). The one command that makes a copy smaller is `StoreTrade`, by what it adds to the
trades. `QuantityAlwaysAccounted` follows for any number of handlers, orders, trades and failures.

### Commands that run twice

`Resends` does not keep `LifeOK`: its second ZADD can bring back an order that a match or a cancel has
closed between the two. `ResendInv` (`ResendsInvariant`) is what remains, `TypeInv`, `StoredOK` and
`TermsOK`. It is inductive because no command deletes a hash: `addOrder` writes it before its ZADD, and
what a handler reads, copies or ranks keeps one. The steps of `OrderMatching` keep `TypeInv` and
`TermsOK` by the lemmas above; `ResendsProofs` adds that they keep `StoredOK` (`StoredNext`) and that a
lost reply keeps all three (`LostReply` says which command has run). The safety properties of the run
follow as theorems of `ResendSpec`, for any number of lost replies: `ResentRankedExist`, `ResentTermsKept`,
`ResentLimitsHonoured` and `RelistedByCreator`.

### Notifications

Broadcasts are defined to change nothing of the handlers, so `IInv` holds of `Notifications` too.
`NInv` (`NotificationsInvariant`), which `NotificationsProofs` shows, says of every broadcast, wherever it is:

- `HeardOK`: a removal that is on its way or heard is of an order that has left the book, and does
  not come back (`NeverRelisted`); a trade that is told is stored.
- `ReachOK`: that an order came to rest is heard, on its way, or its creator is about to answer; that it
  left the book is heard, on its way, or somebody's to tell (`WillTell`). What only one of several
  handlers that change the same order knows is covered by naming all of them.
- `CountOK`: of each trade, the handlers that have it to tell, the broadcasts under way and the
  updates heard are together no more than the trades stored, and as many while nothing is lost. Two
  handlers can make two equal trades, so the invariant counts and does not name.

`UpdatesAlwaysTrue` holds of every instance, with failures, MARKET orders and a stream that drops
entries. `ChangesAlwaysReach` and the second half of `TradesAlwaysToldOnce` need `OnlyLimitOrders`:
a trade that a MARKET order triggers is never broadcast (see `Silent`), and with one of them the properties
are false. The run `Updates` has LIMIT orders only for the same reason. That no trade is told more often than
it was made is proved for all of them. The assumptions are that finitely many handlers are in flight
(`HandlersAssumption`; the count is of a finite set), that `NoBroadcast` is not a broadcast
(`NoBroadcastAssumption`) and that the stream keeps at least one entry.

### Subscriptions

`SubscriptionInvariant` states the inductive invariant of `Subscription`: the continuations of a
batch belong to one socket and agree on what they found (`BatchOK`), which is why the last
acknowledgement is true whatever order they run in; a room with a member has an interval or a
continuation that is about to start it (`IntervalOK`). `SubscriptionProofs` proves it, one lemma per
action, and with it `STypeOK`, `SubscribersHaveInterval`, `OneInterval`,
`IntervalStopsWithLastSocket` and `AnswersAreTrue`, for any number of sockets, pairs and events.

### Assumptions, and what is only model-checked

The assumptions are those of the modules: order ids are integers, `NoOrder`, `NoPrice` and
`NoScore` are none of the values they are told apart from, requests are of `RequestType`. They
bound neither the number of handlers nor of orders, trades or failures; `Notifications` takes the
handlers to be finitely many. Those of `Subscription` are that handlers are not callbacks and that
`NoSocket` and `NoPair` are no socket and no pair. TLC evaluates all of them on every run.

Only model-checked: liveness (`EveryRequestAnswered`, `CancelTakesEffect`, `BookReachesSubscribers`),
which TLAPS does not reach. Every safety property that a passing run checks is a theorem; those of
`OrderMatchingSerial`, under `OneAtATime`. `ConcurrentFaults`, `Serial`, `Resends`, `Updates` and
`Rooms` check the inductive invariants on their instances.

## Not modelled

- `deleteOrder`, `clearOrderBook`, the price change of `updateOrder`, `connect` and `disconnect` of the Redis
  client: nothing calls them.
- `getRecentTrades` as an event: it reads hashes that never change after the MULTI that made them.
- A broadcast whose XADD fails: what the adapter does then is outside this repository.
- Validation (`validateSocket`, the schemas) keeps no state: it answers what is invalid, and the
  instances hold valid requests only. The HTTP side of Express serves documentation.
- Starting up, logging, environment, generated documentation: input and output.
- Floating point: prices and quantities are integers, so remainders and midpoints are always
  exact, which in the code they need not be.
