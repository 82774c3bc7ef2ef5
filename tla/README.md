# A TLA+ model of the exchange

The repository is a small centralised exchange (NestJS, TypeORM on PostgreSQL,
Redis, BullMQ, Kafka). Two processes run it:

* the **API** (`src/main.ts`): HTTP requests, the websocket gateway, and the
  Kafka consumer of chain deposits;
* the **worker** (`src/main-worker.ts`): the consumer of the order queue with
  the matching engine, and the cron schedules.

They share PostgreSQL (balances, ledgers, histories, orders, candles), Redis
(order book, candles, tickers, pub/sub, the queue) and nothing else. Money lives
in `balances` rows (`available`, `locked`, one row for a wallet and a token); the
wallets of a user are FUNDING, SPOT and FUTURE. An external blockchain service
sends deposit messages and answers withdrawal requests over Kafka.

The project states what must stay true of money and orders while handlers of
both processes interleave, messages come twice, databases refuse and processes
die. Paths below are relative to `src/src/modules/`.

## 1. Inventory

| Component | State | Operations | Hard behaviour | Correct means |
|---|---|---|---|---|
| Chain deposits (`api/services/deposit.service.ts`) | `chain_deposit_inbox`, balances, ledgers, history | Kafka message: claim key, credit, commit, emit | redelivery, two consumers, rollback, crash before the event | credited once, announced at most once, credited in the end |
| Withdrawals (`database/services/withdraw.service.ts`) | balances, ledgers, `transaction_history.status`, the chain | debit and PENDING; ask the chain; BROADCASTED; compensation and FAILED; event | crash between the steps, an error after the broadcast, no timeout | debit before asking, refund only with a reason, the event names the stored status |
| Transfers (`database/services/wallet.service.ts`) | two balances, lots, ledger | read source, lock target, save both | unlocked read, opposite transfers, two first transfers | both legs or none, ends |
| Matching engine (`queue/services/order.matchingengin.ts`) | arrays of the service: rows, ledgers, orders, trades, lots | market and limit orders | jobs that overlap, a cache of one user, rounding, crash before the write | money conserved, reservations agree with the book, best price first |
| Order book (`redis/services/redis.orderbook.service.ts`) | sorted set of prices, a list for each price, a hash for each user | add, update, delete, read | every call is several Redis commands | the three structures agree, no amount is given out twice |
| Placement and closing (`database/services/order.service.ts`, `database/services/balance.service.ts`) | balances (locked), queue, book | check, lock, enqueue; delete, refund | unlocked read-modify-write in two processes, swallowed errors | what is locked is what is open |
| Lots and PnL (`queue/services/balance-lot.service.ts`, `database/services/balance_lot.service.ts`) | `balance_lots`, snapshots, arrays | FIFO on trades, LIFO on withdrawals and transfers | snapshots beside rows, arrays not reset | lots add up to the balance |
| Candles (`redis/services/redis.candle.service.ts`, `woker/schedules`) | a Redis hash for a symbol and an interval, candle rows | update on a trade, close on a cron tick | read-modify-write against the close | each trade in one candle |
| Tickers (`redis/services/redis.ticker.service.ts`, `database/services/ticker.service.ts`) | Redis key, ticker rows | update on a trade, daily reset, flush | two writers | high >= last >= low, no update lost |
| Market lifecycle (`database/services/market-token.service.ts`) | `isActive`, ticker, candles | activate, deactivate | un-awaited initialisation | subscribed exactly while active |
| Gateway (`api/gateways/spotPublic.gateway.ts`) | rooms, timeframes, clients, timers, subscriptions | connect, join, leave, disconnect, broadcast | events in any order, duplicate subscription | one message for one event, to the members only |
| Users, guards, tokens, seed, logger, configuration | rows of their own | single queries | none of their own | not modelled |

`PROJECT.json` lists the same components with their status, and each hazard at
the line where it bites.

## 2. Modules

| Module | What it is |
|---|---|
| `Funding` | deposits, withdrawals and transfers on the balances of the API process |
| `Lots` | the lots of a user and token: the engine's FIFO beside transfers and withdrawals |
| `Settlement` | what `Funding` promises, without handlers, locks or messages |
| `WalletProof` | about `Funding`: its inductive invariant, the safety theorems, the refinement of `Settlement`, and the sums of the ledgers; about `Lots`: its inductive invariant and the theorems |
| `Matching` | `handleMarketOrder`: fills, shared arrays, closing transaction |
| `MatchingProof` | fills, rounding, price order, ledgers, locks and conservation for any makers and jobs |
| `OrderBook` | one side of a book, a Redis command at a time |
| `OrderBookProof` | what each caller of a book may rely on, and the safety theorems |
| `SpotExchange` | placement, the job of a limit order, fills and closing on the balance rows of a user |
| `Gateway` | the maps of the websocket gateway: sockets, rooms, timeframes, timers, listeners |
| `GatewayProof` | the inductive invariant of `Gateway` and the safety theorems |
| `SpotProof` | the inductive invariant of `SpotExchange`: no negative amount, what is locked is backed, and where the ledger goes astray |
| `Candle` | the current candle in Redis, the engine, the closing job and the activation |
| `CandleProof` | where a trade can be while nobody locks the candle, and the theorems |
| `Ticker` | the ticker in Redis, the engine, the daily job and the flush of both processes |
| `TickerProof` | what the copies of a ticker can contain, and the theorems |
| `SumTheorems` | sums over finite sets, for the proofs about money |
| `MCFunding`, `MCMatching`, `MCOrderBook`, `MCSpotExchange`, `MCGateway`, `MCCandle`, `MCTicker`, `MCLots` | the instances TLC checks |

### Funding

A database transaction (READ COMMITTED) is a row lock, the reads made under it
and one commit action with all its writes: nobody sees them earlier, and whoever
wants the row waits for `holder`. A rollback is the commit that never happens.

* **Deposits.** `Deliver` (a message is handed to a consumer, any message at any
  time again), `Claim` (`tryClaim`, which waits for an uncommitted row with the
  same key), `Credit` (the upsert takes the balance row), `CommitDeposit`,
  `EmitDeposit`, and `DepositFails` (rollback and rethrow).
* **Withdrawals.** `QuoteFee`, `LockBalance` (SELECT FOR UPDATE), `Debit` or
  `RefuseDebit`, `AskChain` or `AskFails`, the external `ChainAnswers`,
  `RecordBroadcast` or `ChainRefused`, `FollowUpFails` (the statements after the
  answer are inside the same `try`), `LockRefund`, `Refund`, `HandlerLost`,
  `Announce`.
* **Transfers.** `ReadFrom` reads the source without a lock, `SelectTo` locks the
  target if it exists, `SaveFrom` takes the source's lock with its UPDATE (or
  finds nothing to write, since TypeORM leaves out columns that are equal),
  `CommitTransfer`, `DuplicateRow` (the unique index), `DeadlockVictim`.
* **Crash** ends all handlers of the process and rolls back what is open.

`ledger` is the sum of the `ledgers` rows of an account, signed by their reason
and direction: the column itself stores the amount. Two histories name what the
code does wrong so that the rest can be stated exactly: `tainted` (accounts that
a transfer overwrote with a stale value) and `disputed` (withdrawals that were
compensated without an answer that says so).

`Settlement` has five actions: credit once, open, complete, give back, move. Its
state is the ledger, the credited keys, the statuses and the transfers carried
out; the refinement maps them to `ledger`, `inbox`, `status` and the transfers
whose `pc` is `done`.

### Matching

A job is a process. `Start` takes the copy of the opposite side; `Match` is one
turn of the loop up to the update of the book, which is immediate; `ReadMaker`
and `SettleMaker` put the maker's row and ledger entries into the arrays of the
service; `ReadTaker` and `FinishTaker` do the same for the taker (FILLED,
PARTIALLY_FILLED or CANCELLED); `WriteToDB` saves the arrays in one transaction;
`Reset` empties them. The awaits in between are where a second job may run,
because `order.consumer.ts:17` does not await the handler. `Saved` is TypeORM's
save of several objects of one row: each writes the columns in which it differs.
Amounts are integers and `Scale` is one unit, so that `ROUND_DOWN` is integer
division. Rests are `Decimal`s and exact, but for one: a market order that sold a part
of its quantity releases `Number(quantity) - Number(filled_quantity)`, a difference of
binary floats (`order.matchingengin.ts:549-554`), and the row that takes it is rounded
down (`:686-694`). 0.3 with 0.1 sold gives 0.19999999999999998: the row's free amount is
0.00000001 short. `FloatErrors` are the signs such an error can have in the two columns,
`RoundedDown` is what `ROUND_DOWN` makes of them, and the history `short` says how much
each job's release is short in each column: at most one unit of both together, also of
the other sign (`TypeOK`). `LockedIsReserved`, `Conserved` and `LedgerExplainsBalance`
count exactly these units; everything else must agree to the last digit.

`anomaly` records what happened that can separate balances from orders:
`overlap` (two jobs at once), `reread` (a user's row read from the database while
an unsaved one is in the arrays: the cache holds one user), `spentForNothing` (quote paid
for zero base), `notReleased` (the guard on the locked amount), `crash`. Every
property names the anomalies it does not survive; outside them it holds. The
anomalies are behaviours of the code, not exclusions of the model: the state
space contains them.

### OrderBook

An action is one Redis command. `Place`, `ZAdd`, `RPush`, `HSet` are `addOrder`
and the second half of `updateOrder`; `LRange`, `LRem`, `LLen`, `Del`, `ZRem`,
`HDel` are `deleteOrder`; `Fetch` and `Refund` are `closeOrder` around it;
`ReadLevels`, `ReadList`, `Take` are the engine. `LREM` removes the JSON copy that
was read, so entries are records of an id and a filled amount. Histories:
`contested` (two callers had the order at once), `swept` (the order was in a list
whose list or level was removed), `cut` (its caller died).

### SpotExchange

The rows `balances` of one user for two assets, at price one. `Check`
(`checkBalance`), `ReadRow` and `SaveLock` (`lockBalance`), `Enqueue` or
`EnqueueFails` (`addOrderJob` swallows the error) are `OrderService.create`;
`StartJob` and `AddOrder` the job of a limit order, `JobRepeated` its second
delivery by the queue; `ReadBook`, `Take`, `ReadRows`, `WriteToDB` a fill by
somebody's market order; `Fetch`, `Delete`, `ReadForRefund`, `SaveRefund`,
`RefundLedger`, `CloseFails` are `closeOrder`, whose `Promise.all` ends in any
order; `Credit` is the statement of a deposit or of an administrator.
`WorkerDies` loses what the worker had in memory. A row that is read and later
saved is `copy`; a save from an outdated copy puts its asset into the history
`raced`, and `stranded` says for each caller and asset what is locked that no code
will release (the job was lost, the close failed, the worker died).

### Gateway

Its variables are the maps of `SpotPublicGateway`: `clients`, `clientRoom`,
`roomClients`, `timeframes` (`roomTimeframeClients`), `intervals`; `subs` counts
the listeners of a room's channels. A handler is an action up to its first
await; the rest is `Reply`, which emits to the socket that asked, whatever has
become of it. `Message` is what `WsAuth` does before every handler: it puts the
user's id on the handshake, and only then does `handleDisconnect` know whom to
remove. The broadcasts record their last emission in `sent`. `Activate` is the
event ACTIVE, after which `subTicker` and `subCandles` subscribe every room
again. Histories: `abandoned` (joined over without leaving), `lingering`
(timeframes of users who left), `evicted` (sockets dropped when an older one
closed), `resubscribed`.

### Candle

One market and one interval: keys and rows of others are separate, except that
`initCandle` goes through the candles of all intervals and ends at the first that
has one: `Begin` may end without a candle, and the cron job of another interval that
misses its own candle begins this one too (`OtherCronRead`, `OtherCronInit`, with a
price of 0 of its own). An action is one command: `Get` and `Set` of `updateCandle` for a
trade, for the activation and for the closing job; `CronRead`, `CloseCandle`,
`DeleteCandle`, `Upsert`, `BeginNext` are `handleCandle`, with the two branches
of its `Promise.all` interleaved. A candle is its bucket and the sequence of what
was merged into it. `Offset` is the difference between the stored end, which is
shifted by seven hours, and the time it is compared with. `raced` names the trades
of candles that two writers changed at once, that died with the worker, or whose
row was replaced by a later candle of the same bucket.

### Ticker

A ticker is the sequence of its fills and a stamp. `StartFill` takes the stamp,
`Get`, `QueryFinds`, `Restore` or `QueryFails` are `getTicker` (a market without a
row of today makes it throw, which ends the process unless the daily job
called), `WriteFill` and `Add` are `updateTicker`. `Activate` and `WriteInitial`
begin the ticker anew; `Midnight` and `SaveRow` are the daily job up to the
statement at which it fails; `Boot`, `StartFlush` and `Flush` the map of
summaries in each of the two processes. Faults are the death of a process and the
loss of the Redis data. `gone` names the fills another change has overwritten.

### Lots

A row of `balance_lots` is an id with a wallet, an age and a quantity (`lots`). The
engine's snapshot is what it knows of each lot (`heap`) without the lots it has sold
out; `toCreate`, `toUpdate` and `toDelete` are its lists. TypeORM changes the entity
it removes or saves: `remove` takes its id, and `save` inserts what has none, so a lot
of both `toUpdate` and `toDelete` comes back under a new id, once or as often as it is
listed (`Agains`). The lots are found without their relations
(`balance_lot.service.ts:22`, `wallet.service.ts:263`), which are neither eager nor
required (`balane_lot.entity.ts:14-20`): saving a copy of a row that is there changes
its quantity and leaves its wallet (`SavedLot`), but what such a save inserts has a NULL
wallet and token (`Orphan`, wallet `Nobody`), and `LotsOf`, the find by wallet, never
returns it again. That goes for the lots of one commit and for a row that somebody else
has removed since the copy was read. `Load` takes the snapshot, `Buy`, `Sell`, `SellLot`, `LotsDone` are
`pushToBalanceLot`, `Commit` is `commitAll` in the transaction of `handleWriteToDB`,
`Reset` is `resetAll`, which leaves the list of profits. `FindLots` and `ConvertLots`
are a transfer, `DeductLots` a withdrawal, `AddRefundLot` its compensation. New ids
only have to be new, and grow by gaps (`new` is above all of them). History:
`stale` (a row was written that had changed since it was read). The names `LotsInit`,
`LotsNext` and so on keep the module apart from `Funding` where both are extended.

## 3. Runs

| Run | Instance | Shows |
|---|---|---|
| `funding_safety` | 1 deposit, 2 consumers, 1 withdrawal, 3 transfers between FUNDING and SPOT in both directions, SPOT row absent, 1 fault; 1.3 million states | type, `NeverNegative`, `BalanceMatchesLedger`, `RefundOnlyIfRefusedOrDisputed`, `DebitBeforeAsking`, `AnnouncedAsStored`, `NoticeAtMostOnce`, `LedgerExplained`, and the refinement of `Settlement` |
| `funding_liveness` | 1 deposit, 1 consumer, 1 withdrawal, 2 opposite transfers, 1 fault; about 55 thousand states | `DepositsCredited`, `PendingResolved`, `TransfersEnd` |
| `funding_refund` | 1 consumer, 1 withdrawal, 1 transfer | expected violation: a withdrawal stored as broadcast is refunded when the read after it fails |
| `matching` | 3 makers of 2 users at up to 3 prices with all orders of arrival, 2 jobs, 1 crash; 820 thousand states | `LockedIsReserved`, `Conserved`, `LedgerExplainsBalance`, `PricePriority`, `RoundingRestIsSmall` |
| `orderbook` | 3 orders at 2 prices, 1 close request, 1 market order that fills one order and half of the next, 1 crash; 340 thousand states | `BookAgrees`, `NoEmptyLevel`, `EachAmountOnce` |
| `spot` | 2 of 3 orders (a BUY, two SELL that want more base than there is), 1 close request, 1 fill, 1 credit, 1 fault; 280 thousand states | `LockedIsBacked`, `RefundIsTheOnlyDrift`, `AcceptedIsServed`; `TypeOK` says that no available amount becomes negative |
| `gateway` | 1 user with 2 sockets, 2 markets of which 1 is activated late, 1 timeframe, 1 request under way, 1 restart; 197 thousand states | `RoomsAgree`, `NewestSocket`, `HeardOnce`, `MembersGetBooks` |
| `candle` | 2 trades, 1 activation, 3 buckets, 1 death of the worker or 1 candle missed by another interval's job, symmetric trades; 8.4 million states | `TradeKept`, `ZeroOnlyIfMissed` |
| `ticker` | 2 fills, 1 activation, 1 midnight, 1 fault; 1.1 million states | `TickerKept`, `SummaryCatchesUp` |
| `ticker_day` | 2 fills, 2 midnights, no fault | expected violation: a fill in the rows of two days |
| `lots` | 2 lots in each wallet, 2 jobs of up to 3 fills, 2 calls, 1 death of the worker; 1 million states | `LotsMatchHoldings`, `PnlOncePerSale` |
| `lots_deleted` | the same without calls and faults | expected violation: a lot sold out is inserted again, without its wallet |

Why the bounds suffice. The hazards are races of two actors on one row, one
price level or one array, so two of each kind with a third that disturbs show
them: two consumers of one key; two transfers in one direction with the target
missing (the double insert) and one against them (the deadlock); a withdrawal
and a transfer on the same source (the stale write); three makers of two users
so that A, B, A occurs; two orders at one price and one at another so that a
level empties and another stays. One fault is enough to reach every point at
which a handler can die; a second one meets the same recovery code. The prices
2, 3 and 5 with `Scale` 2 leave rounding rests, one maker has a quote amount that
does not fit its quantity (`quantity` and `quote_quantity` are independent
inputs, `api/dtos/order.dto.ts`), and one market order is too small for a unit of
base.

In `spot` two orders on one asset, or one on each, can meet the closing of one and
the fill of the other. In `gateway` the second socket of the user connects before
or after the first one closes, and his second room is one he enters with or
without leaving the first; a larger instance with a second user (no restart, 354
thousand states) shows the same, and the theorems cover every size. In `candle`
three buckets are what a candle that ends one bucket late needs to be closed,
continued and replaced; more lateness only repeats the middle case. A death of the
worker and a miss of the other interval share one bound (`MaxFaults`): each meets the
trades and the closing job alone, and the theorems cover them together, with any
number of activations. In `lots` the
job of three fills sells a lot in part twice and then out, the fill of four
takes two lots, and the two wallets exchange lots with the engine at work.

Deadlock is checked in every run except those of `Ticker`, where both flushes may
be idle forever because their maps are empty. `Matching`, `OrderBook`,
`SpotExchange` and `Candle` have a `Terminated` step for the state in which every
request is served; `Lots` may stop between jobs and calls (`AllDone`); `Funding` can always receive a message again, and
`Gateway` a connection.

Fairness. In `funding_liveness` a handler that has begun goes on: the Node
event loop and PostgreSQL's lock queues are fair. Kafka delivers a message until
its handler returned, hence strong fairness of a delivery of each key. The
blockchain service answers: the code waits for it without a timeout, so without
this assumption nothing can be said. New requests, crashes and errors are not
fair. `PendingResolved` ends in `lost` as well, because the code has nothing that
picks up the withdrawal of a handler that died. In `spot` the request that has
locked goes on and the worker takes its jobs; a fill, a close and a fault need
not happen. In `gateway` the timer of a room fires again and again
(`setInterval`); no client is fair. In `ticker` each flush is called again and
again (`setInterval`, six seconds) and its awaits end; fills, activations and
midnights are not fair.

### Findings

`withdraw.service.ts:211`: the `catch` that compensates covers the chain request
and also the statements after the answer. If the transaction that records `txHash` fails
(line 175), or the read for the event (line 189), the user is refunded a withdrawal that
was broadcast. The comment at `balance_lot.service.ts:185` says the refund follows a failed
on-chain withdrawal. `RefundOnlyAfterChainFailure` is stated over withdrawals that are
stored as broadcast; the trace is the error of the read: BROADCASTED becomes FAILED and
the amount is given back.

`schedules.service.ts:78`: the daily job stores the ticker of each market and then
asks for the balances of `mt.baseToken`, a relation that `getAll`
(`market-token.service.ts:118`) does not load. The error is caught, and the
statement that sets the ticker back (lines 91-101: volumes of zero, the last price as
the opening one) is not reached: the ticker of `ticker/24hr` accumulates
(`ticker.controller.ts:5`). `EachDayItsOwn` fails.

`balance-lot.service.ts:236`: a lot that one fill of a job sells in part and the next
one sells out is in `toUpdate` and in `toDelete`. `remove` takes the id of the
entity, `save(toUpdate)` then inserts it again, with the quantity before the last
fill, although line 203 wants it gone at once (from the snapshot; line 204 lists it for
deletion). The new row has neither wallet nor token, so nobody finds or deletes it: the
table keeps it for good. `SoldLotsAreDeleted` fails; `LotsMatchHoldings` holds all the
same, since the rows a find by wallet returns are those that should be there.

### Behaviours the histories name

Seen in counterexamples while the properties were weakened to what holds:

* a transfer writes back a stale source balance (`wallet.service.ts:140`);
* a user whose makers are filled with another user's between them loses the first fill in
  the balance, not in the ledger (`order.matchingengin.ts:763`);
* overlapping jobs save each other's arrays twice, or reset what is not saved;
* a market order on an empty book keeps its reservation;
* an order pushed between LLEN and ZREM is out of reach of the engine but still
  in its owner's hash, who can close it;
* an order closed while it is matched is paid twice;
* the refund of a closed SELL order is in the ledger of the quote token
  (`order.service.ts:194`);
* a job that the queue lost, or whose `closeOrder` failed after `deleteOrder`,
  leaves an amount locked that nothing releases;
* a trade merged between the read of a candle and its deletion is in no candle;
* a candle that is closed in the bucket it began in is replaced by the next row of
  that bucket (`schedules.service.ts:187`);
* a market without a ticker row of today and without a key in Redis ends the
  process that asks for its ticker (`redis.ticker.service.ts:91`);
* a socket that never spoke leaves its entry in `clients` when it closes, and an old
  socket that did removes the entry of the new one.

## 4. Proofs

`WalletProof` has `Funding` and `Lots`, which share no variable; each is proved from
its own assumption and its own inductive invariant.

About `Funding` it proves, for any number of accounts, deposits, consumers,
withdrawals, transfers and faults, from `FundingAssumption` alone (types of the
constants, finite disjoint sets of processes, a transfer between two different
accounts, amounts that are not negative):

* `TypeCorrect`, `BalancesNeverNegative`, `BalancesMatchLedgers`,
  `RefundsAreJustified`, `ChainAskedAfterDebit`, `AnnouncementsAreTrue`,
  `NoticesAreTrue`.

None of these invariants is inductive by itself: that a balance is not negative
after a debit needs that the value compared is still the row's, that it is
needs that the handler holds the row, and that a deposit is announced once
needs that a key belongs to one handler from the claim to the commit. `IInv`
says this for each program point: `DepositInv` (who owns a key), `NoticeInv`,
`WithdrawInv` (status, chain and lock at each point of a withdrawal),
`TransferInv` (a transfer that holds its target read it under the lock, and the
source covered the amount when it was read), `RowInv` (a row that does not
exist stands for zero). There is one lemma for each action, with one step for
each conjunct.

`FundingImplementsSettlement` is `Spec => ImplementsSettlement`: five commits are
the five steps of `Settlement`, each enabled by `IInv`, and every other action
leaves the mapped state alone. `LedgersAreExplained` uses the same five steps: a
ledger is the sum of the deposits credited, the withdrawals standing and the
transfers done, and each step of the settlement changes one summand of it.

About `Lots` it proves, for any first lots, fills, amounts, jobs, calls and deaths, from
`LotsAssumption` alone (quantities are positive): `LotsTypeCorrect`, `LotsMatch`,
`PnlExact`, `LotsSuffice` and `SalesFindLots`. `PnlOncePerSale` and
`LotsMatchHoldings` are far from inductive, and TLC helped to find what `LotsInv` must
add (each part was an invariant of the instance before it was proved):

* `Lists`: what the lists of the engine hold at each of its steps, and that a lot of the
  snapshot differs from what was loaded only if it is listed.
* `Books`: what the job has sold from its snapshot, what its list of profits has
  unsaved, and what its fills still want add up to its fills (`SoldSoFar`,
  `Unsaved`, `Rest`), and the snapshot was loaded with enough for all of them.
* `Reserved`: orders and transfers reserve no more than the wallet has, and the lots a
  transfer found cover its amount.
* `Enough`: this is the heart. The engine and a transfer write lots back as they read
  them, so a row can lose what somebody else did to it, and its quantity may then be
  below what the holding needs. Yet it never is: let the `Worth` of a lot be the least
  of what the row and each copy of it say (nothing if the row is gone or has lost its
  wallet). The lots are worth at least what the wallet holds, in every state, stale
  rows included; a copy written to a row that is gone makes an orphan, which changes
  nobody's worth. A fresh
  copy takes nothing from the worth, a step that consumes a quantity takes at most
  that, and a commit or a conversion that writes a stale copy back takes no more than
  it books. So the snapshot of a sale always has lots for it (`SalesFindLots`), and the
  loop that would silently end without a profit for the rest never does.
* `WalletKept`: a row that somebody has a copy of is still of the wallet it was found
  for, or of nobody, so that a copy of a lot of one wallet takes nothing from the
  worth of the other.

The steps of `Enough` and `LotsMatchHoldings` are one calculation: `LotsMoved` says what
a wallet's lots and worth become when each old id loses at most a given quantity and
new ids are added, and each action says how much (`CommitHoldings`, `ConvertHoldings`,
`DeductHoldings`, `RefundHoldings`, and `QuietHoldings` for the others). That an amount
spent newest first is taken in full, whatever the lots, is `TakenInFull`: the order is
not enumerated, and the smallest set of newest lots that would give something else is
refuted.

`GatewayProof` proves, for any users, sockets, markets, timeframes and bounds, from
`GatewayAssumption` alone (a socket has one owner, the markets of the boot are
markets, `None` is nobody): `TypeCorrect`, `RoomMapsAgree`, `SentToTheNewest`,
`ListenedOnce`. `RoomsAgree` is not inductive: when the last socket of a user
closes he must leave his room, which happens only if the gateway knows him from
this socket. That needs `SpokenInRoom` (a user in a room has an open socket that
has spoken) and `NewestOwned` (the newest socket is his own). `HeardOnce` needs
`Listened` (a room has listeners exactly if it exists) and `SentOnce` (what the
last emission says was true when it was sent and still is). `IInv` is their
conjunction; one step for each action proves each conjunct.

`SumTheorems` has what the proofs about money need of `SumFunctionOnSet`: a sum is
its value at one element and the sum over the others, it changes by what one
summand changes, sums add up, split, grow with their summands, and do not mind new
names of the elements. The fold of the library takes the elements in the
order of `CHOOSE`; that its recursive function exists and that the order plays no
part is proved by refuting the smallest counterexample, since the induction
theorems cannot be instantiated.

`SpotProof` proves, for any orders, sizes, fills, close requests, credits and faults,
from `SpotAssumption` alone (types of the constants, finite disjoint sets of callers):

* `NeverNegative` (no interleaving of the unlocked writers makes an available amount
  negative; the locked amount may become so, and the type allows it) and
  `LockIsCovered`. A save writes what was computed from a copy, whoever has changed
  the row since, so the row itself need not cover the order: `Covered` says that the
  copy does, from the read of `lockBalance` to its save. `Filling` and `Closing` say
  what the engine and `closeOrder` hold at each point (a fill takes at most what its
  copy of the order offers; a save of a close request has the row it read).
* `LockIsBacked` and `DriftIsRefunds`. What is locked of an asset is a sum over the
  book and a sum over the callers; each step moves an amount between the row, one
  order of the book, what one caller holds, and what is stranded for that caller, so
  that at most one summand of each sum changes (`BInv`; `Placed` says that an order is
  in the book only after its placement). The refunds a closed order books on the quote
  asset are the only difference of rows and ledgers in every state, after a fault as
  well.

`MatchingProof` proves, for any makers, jobs, users, prices, amounts and order of jobs,
from `MatchingAssumption` alone, in layers:

* `FillsAreAmounts` from `IInv`: types, a fill is no larger than its maker's copy, what
  was filled fits what the taker asked for.
* `RestIsSmall` from `Rounding`: with each visit the base and the quote of a maker come
  apart by less than one unit at his price, so the number of visitors bounds the rest.
* `BestPriceFirst` from `Single`: without `overlap` there is one job at work, its copy
  of the book is the book, and who may be filled is in the copy or is being filled.
* `LedgerExplains` from `Explaining`: without `overlap` and `reread` the arrays have at
  most one row object of a user, and it holds what was booked for him.
* `LocksAreReserved` from `Locking`: what a row will lock is the sum over the makers in
  the book and over the jobs (what is reserved, less what is pushed), less what the
  rounded release of a partly sold order kept. That is a sum over the jobs too, which
  only the step that releases changes (`ShortKept`, `ShortQuiet`).
* `MoneyIsConserved`: over all users the entries of a job add up to what it has matched
  and not booked on the other side yet; `NothingForNothing` closes the case of a seller
  who gets nothing.

`OrderBookProof` proves, for any orders, close requests, market orders, prices and
crashes, from `OrderBookAssumption` alone: `TypeCorrect`, `BookIsConsistent`, `AmountsOnce`,
`LevelsHaveOrders`. A clean order (no two callers had it at once, and no caller died
with it) has a `Story`: at most one caller works with it and the list has it at most
once (`OneWorker`), nobody knows it before its RPUSH (`Early`), and the program point
of the caller says what hash, list and amounts hold (`InHand`, `InLine`, `AtRest`). A
clean order whose level was not removed under it is listed while it is open (`Kept`).
The levels need no such history: as long as no caller died, an empty one that is listed
has a caller who fills or removes it, whatever has raced (`LevelsInUse`).

`CandleProof` proves, for any trades, offsets, buckets, activations and deaths, from
`CandleAssumption` alone: `TypeCorrect`, `ZeroIsExplained`, `TradesAreKept`. A candle
can be in Redis, in the hands of the cron job and in the rows. A trade that is not
written is in none of them and in no copy of a writer (`Fresh`); one that is written is
in at least one, once in each, and in candles of one bucket (`Kept`), unless one of the
named races was recorded in the step that broke it. For the price 0, `ZeroInv` says
that an active market without a candle has somebody who is about to begin it, unless a
reason for a miss was recorded; `OtherInv` says that the other interval's price of 0 is
nowhere before its job has missed a candle.

`TickerProof` proves, for any fills, days, activations and faults, from
`TickerAssumption` alone: `TypeCorrect`, `TickerIsKept`. Copies of the ticker are in
Redis, in rows of any day and in the hands of readers, and any of them can be written
back. A fill that is not written is in none (`Fresh`), so the copy it is merged into
cannot have it and no copy ever has it twice (`Single`); one that is written leaves
the ticker only in a step that records it in `gone` (`Stored`).

Only model-checked: the liveness properties (`DepositsCredited`, `PendingResolved`,
`TransfersEnd`, `AcceptedIsServed`, `MembersGetBooks`, `SummaryCatchesUp`), since
fairness and ENABLED are out of the prover's reach. Every safety property a passing
run checks is a theorem.

## 5. Abstractions

* `Funding` takes one token, and two wallets of the three: the runs use FUNDING and SPOT,
  so that the label `transferFunds` gives the ledger rows of a transfer from FUTURE
  (`wallet.service.ts:247-250`, the same as from FUNDING) plays no part; the lots of other tokens appear as one more reason
  for `RefuseDebit`, and average prices, history rows other than `status`, and the
  fee (taken from the amount sent, not from the balance) are left out. The
  administrator's credit (`balance.service.ts` `create`) is left out.
* `Matching` has one wallet per user and one market. Trades, order rows, lots and
  tickers are not in its state. A read and the statements up to the next await
  are one action. An update of the book is one action there; `OrderBook` opens it
  up. The error of a float rest is taken to be below one unit of 10^-8, which holds for
  quantities below 10^7; it is any such error, not that of particular numbers.
  `short` is accurate where jobs do not overlap, as are the properties that read it.
* `OrderBook` has one side of one market and unfilled amounts of one asset.
* `SpotExchange` has one user, one market and one wallet, and price one; the wallet
  type of an order is read by placement only, while `closeOrder` always takes SPOT.
* `Gateway`: the content of messages, tokens that do not verify (such a socket is
  closed at once), and the two awaits of one request are one `Reply`.
* `Candle` and `Ticker` keep what was merged instead of prices and volumes. The
  readers of the ticker on behalf of clients do no more than a flush and are left
  out.
* `Lots` has one user and one token, no prices, and one job at a time.
* Wording, events for display and logging are left out everywhere.

### Not modelled

Authentication, lookups, the seed, DTOs, configuration and logging have no shared
state beyond single statements. The average prices and profit reports are
arithmetic on decimals for display. The daily profit rows are after the statement
at which the daily job fails. `redis.service.ts` is commented out entirely.

## 6. Plan

1. `Lots` with overlapping jobs, if its instance stays small enough: two jobs that sell
   the same lots of one snapshot are the one hazard without a property.
2. What the theorems say of each other: a market order of `Matching` against the
   commands of `OrderBook`.
