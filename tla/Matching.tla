------------------------------ MODULE Matching ------------------------------
(***************************************************************************)
(* The matching engine: MatchingEnginService.handleMarketOrder, one market *)
(* of one base and one quote asset.                                        *)
(*                                                                         *)
(* A job takes the opposite side of the order book as it is, fills maker   *)
(* after maker from that copy and writes every fill to the book at once,   *)
(* but collects the balance rows and ledger entries in arrays of the       *)
(* service, which one transaction at the end saves.  The queue's consumer  *)
(* does not await the handler (order.consumer.ts:17), so jobs may overlap, *)
(* and then they share these arrays.                                       *)
(*                                                                         *)
(* Amounts are integers, 10^-8 in the code: Scale is one whole unit, and   *)
(* ROUND_DOWN to 8 places is integer division.                             *)
(***************************************************************************)
EXTENDS Integers, Sequences, FiniteSets, FiniteSetsExt

CONSTANTS
  Users,
  Makers,       \* limit orders that rest in the book at the start
  Jobs,         \* market orders in the queue, their balance reserved
  MakerOrders,  \* [Makers -> sets of maker orders]: what the maker may have asked
  JobOrders,    \* [Jobs -> sets of market orders]
  Scale,        \* 1.0 in the units of amounts and prices
  MaxFaults,    \* bound: process crashes in a run
  NoUser

Sides == {"BUY", "SELL"}
Opposite(side) == IF side = "BUY" THEN "SELL" ELSE "BUY"

ASSUME MatchingAssumption ==
  /\ IsFiniteSet(Users) /\ IsFiniteSet(Makers) /\ IsFiniteSet(Jobs)
  /\ \A m \in Makers : MakerOrders[m] \subseteq
       [user : Users, side : Sides, price : Nat \ {0},
        base : Nat \ {0}, quote : Nat \ {0}]
  /\ \A j \in Jobs : JobOrders[j] \subseteq
       [user : Users, side : Sides, amount : Nat \ {0}]
  /\ Scale \in Nat \ {0}
  /\ MaxFaults \in Nat
  /\ NoUser \notin Users

VARIABLES
  maker,     \* [Makers -> order]: owner, side, price, quantity, quote_quantity
  taker,     \* [Jobs -> order]: owner, side and the amount it may spend
  book,      \* Redis: filled amounts of the makers; place 0: not in the book
  tail,      \* Redis: place of the last order pushed to a price level
  balance,   \* Postgres: [Users -> row of the base and row of the quote asset]
  ledger,    \* Postgres: [Users -> sum of the ledger deltas per asset]
  pc,        \* [Jobs -> PcValues]
  snap,      \* [Jobs -> the makers of the copy not visited yet]
  filled,    \* [Jobs -> filled_quantity and filled_quote_quantity]
  fill,      \* [Jobs -> the fill to settle]
  read,      \* [Jobs -> the rows getBalances returned]
  rows,      \* engine.balances: [Users -> the row objects pushed, oldest first]
  cache,     \* balanceAsset*ForUser: whose row object is reused, and which
  entries,   \* engine.ledgers: [Users -> sum of the deltas pushed]
  faults,    \* crashes so far
  short,     \* history: [Jobs -> what rounding kept of the release of its rest]
  anomaly    \* history: what happened that can separate balances from orders

orders == <<maker, taker>>
redis == <<book, tail>>
postgres == <<balance, ledger>>
engine == <<rows, cache, entries>>
local == <<snap, filled, fill, read>>
vars == <<orders, redis, postgres, engine, local, pc, faults, short, anomaly>>

PcValues == {"queued", "match", "read", "settle", "close", "finish", "write",
             "reset", "done", "unmatched", "lost"}
Anomalies == {"overlap", "reread", "spentForNothing", "notReleased", "crash"}
Columns == {"baseFree", "baseLocked", "quoteFree", "quoteLocked"}
Nothing == [base |-> 0, quote |-> 0]
NoCache == [user |-> NoUser, at |-> 0]
NoFill == [id |-> NoUser, base |-> 0, quote |-> 0]
EmptyRow == [c \in Columns |-> 0]
NotShort == [free |-> 0, locked |-> 0]

\* A handler between its first and its last statement.
Active(j) == pc[j] \notin {"queued", "done", "unmatched", "lost"}

Goto(j, label) == pc' = [pc EXCEPT ![j] = label]

\* What an order locked of its user's asset when it was accepted: lockBalance.
MakerLock(m, u, side) ==
  IF maker[m].user = u /\ maker[m].side = side
  THEN IF side = "BUY" THEN maker[m].quote ELSE maker[m].base
  ELSE 0
TakerLock(j, u, side) ==
  IF taker[j].user = u /\ taker[j].side = side THEN taker[j].amount ELSE 0

Reserve(u, side) == SumFunctionOnSet([m \in Makers |-> MakerLock(m, u, side)], Makers)
                    + SumFunctionOnSet([j \in Jobs |-> TakerLock(j, u, side)], Jobs)

Init ==
  /\ maker \in [Makers -> UNION {MakerOrders[m] : m \in Makers}]
  /\ \A m \in Makers : maker[m] \in MakerOrders[m]
  /\ taker \in [Jobs -> UNION {JobOrders[j] : j \in Jobs}]
  /\ \A j \in Jobs : taker[j] \in JobOrders[j]
  /\ \E place \in [Makers -> 1 .. Cardinality(Makers)] :
       /\ \A m, n \in Makers : m # n => place[m] # place[n]
       /\ book = [m \in Makers |-> [base |-> 0, quote |-> 0, place |-> place[m]]]
  /\ tail = Cardinality(Makers)
  /\ balance = [u \in Users |-> [EmptyRow EXCEPT !["baseLocked"] = Reserve(u, "SELL"),
                                                 !["quoteLocked"] = Reserve(u, "BUY")]]
  /\ ledger = [u \in Users |-> Nothing]
  /\ pc = [j \in Jobs |-> "queued"]
  /\ snap = [j \in Jobs |-> {}]
  /\ filled = [j \in Jobs |-> Nothing]
  /\ fill = [j \in Jobs |-> NoFill]
  /\ read = [j \in Jobs |-> EmptyRow]
  /\ rows = [u \in Users |-> <<>>]
  /\ cache = NoCache
  /\ entries = [u \in Users |-> Nothing]
  /\ faults = 0
  /\ short = [j \in Jobs |-> NotShort]
  /\ anomaly = {}

(***************************************************************************)
(* Prices and roundings.                                                   *)
(***************************************************************************)
QuoteFor(base, price) == (base * price) \div Scale
BaseFor(quote, price) == (quote * Scale) \div price

\* Mutant: the worst price of a side comes first.
BeforeByWorst(m, p, n, q) ==
  LET worse == IF maker[m].side = "BUY" THEN maker[m].price > maker[n].price
                                         ELSE maker[m].price < maker[n].price
  IN  ~worse /\ (maker[m].price = maker[n].price => p <= q)

\* The better price of a side comes first, then the older place in the level.
Before(m, p, n, q) ==
  LET worse == IF maker[m].side = "SELL" THEN maker[m].price > maker[n].price
                                         ELSE maker[m].price < maker[n].price
  IN  ~worse /\ (maker[m].price = maker[n].price => p <= q)

\* What a job may still spend: quote when it buys, base when it sells.
Remaining(j) ==
  taker[j].amount - (IF taker[j].side = "BUY" THEN filled[j].quote
                                              ELSE filled[j].base)

\* Mutant: what is left of the maker is subtracted the wrong way.
FillOfNegative(j, s) ==
  LET m == maker[s.id] IN
  IF taker[j].side = "BUY"
  THEN LET quote == Min({Remaining(j), s.quote - m.quote})
       IN  [id |-> s.id, base |-> BaseFor(quote, m.price), quote |-> quote]
  ELSE LET base == Min({Remaining(j), m.base - s.base})
       IN  [id |-> s.id, base |-> base, quote |-> QuoteFor(base, m.price)]

\* Mutant: the fill is not limited by what the maker has left.
FillOfWithoutMin(j, s) ==
  LET m == maker[s.id] IN
  IF taker[j].side = "BUY"
  THEN LET quote == Remaining(j)
       IN  [id |-> s.id, base |-> BaseFor(quote, m.price), quote |-> quote]
  ELSE LET base == Remaining(j)
       IN  [id |-> s.id, base |-> base, quote |-> QuoteFor(base, m.price)]

\* The fill of maker entry s by job j.
FillOf(j, s) ==
  LET m == maker[s.id] IN
  IF taker[j].side = "BUY"
  THEN LET quote == Min({Remaining(j), m.quote - s.quote})
       IN  [id |-> s.id, base |-> BaseFor(quote, m.price), quote |-> quote]
  ELSE LET base == Min({Remaining(j), m.base - s.base})
       IN  [id |-> s.id, base |-> base, quote |-> QuoteFor(base, m.price)]

\* A maker is FILLED when the asset the taker counts in is exhausted.
Exhausted(m, base, quote) ==
  IF maker[m].side = "SELL" THEN quote >= maker[m].quote ELSE base >= maker[m].base

(***************************************************************************)
(* The rows and ledger entries of the engine.                              *)
(***************************************************************************)
\* Mutant: a seller is paid the base amount.
TradedWithBase(row, side, base, quote) ==
  IF side = "BUY"
  THEN [row EXCEPT !["quoteLocked"] = @ - quote, !["baseFree"] = @ + base]
  ELSE [row EXCEPT !["baseLocked"] = @ - base, !["quoteFree"] = @ + base]

\* A trade of `side` moves the reserved asset out and the other one in.
Traded(row, side, base, quote) ==
  IF side = "BUY"
  THEN [row EXCEPT !["quoteLocked"] = @ - quote, !["baseFree"] = @ + base]
  ELSE [row EXCEPT !["baseLocked"] = @ - base, !["quoteFree"] = @ + quote]

\* Mutant: the buyer's quote delta is not negated.
EntryWithoutSign(sum, side, base, quote) ==
  IF side = "BUY" THEN [base |-> sum.base + base, quote |-> sum.quote + quote]
                  ELSE [base |-> sum.base - base, quote |-> sum.quote + quote]

Entry(sum, side, base, quote) ==
  IF side = "BUY" THEN [base |-> sum.base + base, quote |-> sum.quote - quote]
                  ELSE [base |-> sum.base - base, quote |-> sum.quote + quote]

\* pushToBalanceAndLedger: the row object of the user served last is reused,
\* any other user starts from the row just read.
PushTrade(u, side, row, base, quote) ==
  LET hit == cache.user = u
      old == IF hit THEN rows[u][cache.at] ELSE row
      rest == IF hit THEN [i \in 1 .. Len(rows[u]) - 1 |->
                             rows[u][IF i < cache.at THEN i ELSE i + 1]]
                     ELSE rows[u]
  IN
  /\ rows' = [rows EXCEPT ![u] = Append(rest, Traded(old, side, base, quote))]
  /\ cache' = [user |-> u, at |-> Len(rest) + 1]
  /\ entries' = [entries EXCEPT ![u] = Entry(@, side, base, quote)]
  /\ anomaly' = IF ~hit /\ rows[u] # <<>> THEN anomaly \union {"reread"} ELSE anomaly

\* The rest of a partly filled SELL is a difference of binary floats
\* (order.matchingengin.ts:549-554): it may miss the exact rest by less than one
\* unit.  The signs of what the sum (free) and the difference (locked) of the
\* row then carry too much; a sum of more than 20 digits loses its error.
NoError == [free |-> 0, locked |-> 0]
FloatErrors == {e \in [free : -1 .. 1, locked : -1 .. 1] : e.free * e.locked <= 0}

\* ROUND_DOWN, towards zero, of x and an error of that sign below one unit.
Truncated(x, error) ==
  IF error < 0 /\ x > 0 THEN x - 1 ELSE IF error > 0 /\ x < 0 THEN x + 1 ELSE x

LockedOf(side) == IF side = "BUY" THEN "quoteLocked" ELSE "baseLocked"
FreeOf(side) == IF side = "BUY" THEN "quoteFree" ELSE "baseFree"
RoundedDown(row, side, error) ==
  [row EXCEPT ![FreeOf(side)] = Truncated(@, error.free),
              ![LockedOf(side)] = Truncated(@, error.locked)]

\* Mutant: the rest stays locked although it is available again.
PushReleaseKeepingRest(j, base, quote, errors, noted) ==
  LET u == taker[j].user
      side == taker[j].side
      row == read[j]
      locked == LockedOf(side)
      free == FreeOf(side)
      released == [row EXCEPT ![free] = @ + Remaining(j)]
      exact == Traded(released, side, base, quote)
      again == IF rows[u] = <<>> THEN {} ELSE {"reread"}
  IN
  /\ \/ /\ row[locked] > 0
        /\ \E e \in errors :
             LET held == RoundedDown(exact, side, e)
             IN  /\ rows' = [rows EXCEPT ![u] = Append(@, held)]
                 /\ short' = [short EXCEPT ![j] =
                                [free |-> exact[free] - held[free],
                                 locked |-> exact[locked] - held[locked]]]
        /\ entries' = [entries EXCEPT ![u] = Entry(@, side, base, quote)]
        /\ anomaly' = anomaly \union again \union noted
     \/ /\ row[locked] <= 0
        /\ rows' = [rows EXCEPT ![u] = Append(@, row)]
        /\ anomaly' = anomaly \union again \union noted \union {"notReleased"}
        /\ UNCHANGED <<entries, short>>
  /\ UNCHANGED cache

\* handleReimberForOrderPartial, and cancelOrder with nothing traded: a row of
\* their own, unchanged when the locked amount they read is not positive.
PushRelease(j, base, quote, errors, noted) ==
  LET u == taker[j].user
      side == taker[j].side
      row == read[j]
      locked == LockedOf(side)
      free == FreeOf(side)
      released == [row EXCEPT ![free] = @ + Remaining(j), ![locked] = @ - Remaining(j)]
      exact == Traded(released, side, base, quote)
      again == IF rows[u] = <<>> THEN {} ELSE {"reread"}
  IN
  /\ \/ /\ row[locked] > 0
        /\ \E e \in errors :
             LET held == RoundedDown(exact, side, e)
             IN  /\ rows' = [rows EXCEPT ![u] = Append(@, held)]
                 /\ short' = [short EXCEPT ![j] =
                                [free |-> exact[free] - held[free],
                                 locked |-> exact[locked] - held[locked]]]
        /\ entries' = [entries EXCEPT ![u] = Entry(@, side, base, quote)]
        /\ anomaly' = anomaly \union again \union noted
     \/ /\ row[locked] <= 0
        /\ rows' = [rows EXCEPT ![u] = Append(@, row)]
        /\ anomaly' = anomaly \union again \union noted \union {"notReleased"}
        /\ UNCHANGED <<entries, short>>
  /\ UNCHANGED cache

\* balanceRepo.save of all pushed rows: each updates the columns in which it
\* differs from the stored row, in the order of the array.
Saved(u) ==
  [c \in Columns |->
     LET changed == {i \in DOMAIN rows[u] : rows[u][i][c] # balance[u][c]}
     IN  IF changed = {} THEN balance[u][c] ELSE rows[u][Max(changed)][c]]

(***************************************************************************)
(* handleMarketOrder.                                                      *)
(***************************************************************************)

\* getOrderBook; the taker's own orders will be skipped.  With nothing to match
\* the handler returns: the order is not stored and its balance stays locked.
Start(j) ==
  LET side == [m \in Makers |-> maker[m].side]
      level == {m \in Makers : /\ side[m] = Opposite(taker[j].side)
                               /\ book[m].place # 0}
      others == {m \in level : maker[m].user # taker[j].user}
  IN
  /\ pc[j] = "queued"
  /\ \/ /\ level = {}
        /\ Goto(j, "unmatched")
        /\ UNCHANGED <<snap, anomaly>>
     \/ /\ level # {}
        /\ snap' = [snap EXCEPT ![j] =
             {[id |-> m, base |-> book[m].base, quote |-> book[m].quote,
               place |-> book[m].place] : m \in others}]
        /\ Goto(j, IF others = {} THEN "close" ELSE "match")
        /\ anomaly' = IF \E i \in Jobs : Active(i) THEN anomaly \union {"overlap"}
                                                   ELSE anomaly
  /\ UNCHANGED <<orders, redis, postgres, engine, filled, fill, read, faults, short>>

\* One turn of the loop up to the update of the book: deleteOrder when the
\* maker is filled, else updateOrder, which pushes it to the end of its level.
Match(j) ==
  /\ pc[j] = "match"
  /\ \E s \in snap[j] :
       LET f == FillOf(j, s)
           base == s.base + f.base
           quote == s.quote + f.quote
           gone == Exhausted(s.id, base, quote)
       IN
       /\ \A r \in snap[j] : Before(s.id, s.place, r.id, r.place)
       /\ snap' = [snap EXCEPT ![j] = @ \ {s}]
       /\ fill' = [fill EXCEPT ![j] = f]
       /\ filled' = [filled EXCEPT ![j] = [base |-> @.base + f.base,
                                           quote |-> @.quote + f.quote]]
       /\ tail' = IF gone THEN tail ELSE tail + 1
       /\ book' = [book EXCEPT ![s.id] =
            [base |-> base, quote |-> quote, place |-> IF gone THEN 0 ELSE tail + 1]]
  /\ Goto(j, "read")
  /\ UNCHANGED <<orders, postgres, engine, read, faults, short, anomaly>>

\* getBalances of the maker.
ReadMaker(j) ==
  /\ pc[j] = "read"
  /\ read' = [read EXCEPT ![j] = balance[maker[fill[j].id].user]]
  /\ Goto(j, "settle")
  /\ UNCHANGED <<orders, redis, postgres, engine, snap, filled, fill, faults, short,
                 anomaly>>

\* The maker's side of the trade; the loop ends with the amount or the book.
SettleMaker(j) ==
  LET m == maker[fill[j].id] IN
  /\ pc[j] = "settle"
  /\ PushTrade(m.user, m.side, read[j], fill[j].base, fill[j].quote)
  /\ Goto(j, IF Remaining(j) <= 0 \/ snap[j] = {} THEN "close" ELSE "match")
  /\ UNCHANGED <<orders, redis, postgres, local, faults, short>>

\* getBalances of the taker.
ReadTaker(j) ==
  /\ pc[j] = "close"
  /\ read' = [read EXCEPT ![j] = balance[taker[j].user]]
  /\ Goto(j, "finish")
  /\ UNCHANGED <<orders, redis, postgres, engine, snap, filled, fill, faults, short,
                 anomaly>>

\* FILLED, PARTIALLY_FILLED or CANCELLED.
FinishTaker(j) ==
  LET t == taker[j]
      spent == taker[j].amount - Remaining(j)
  IN
  /\ pc[j] = "finish"
  /\ \/ /\ Remaining(j) <= 0
        /\ PushTrade(t.user, t.side, read[j], filled[j].base, filled[j].quote)
        /\ UNCHANGED short
     \/ /\ Remaining(j) > 0 /\ filled[j].base > 0
        /\ PushRelease(j, filled[j].base, filled[j].quote,
                       IF t.side = "SELL" THEN FloatErrors ELSE {NoError}, {})
     \/ /\ Remaining(j) > 0 /\ filled[j].base = 0
        /\ PushRelease(j, 0, 0, {NoError},
                       IF spent > 0 THEN {"spentForNothing"} ELSE {})
  /\ Goto(j, "write")
  /\ UNCHANGED <<orders, redis, postgres, local, faults>>

\* handleWriteToDB: one transaction saves what the arrays hold.
WriteToDB(j) ==
  /\ pc[j] = "write"
  /\ balance' = [u \in Users |-> Saved(u)]
  /\ ledger' = [u \in Users |-> [base |-> ledger[u].base + entries[u].base,
                                 quote |-> ledger[u].quote + entries[u].quote]]
  /\ Goto(j, "reset")
  /\ UNCHANGED <<orders, redis, engine, local, faults, short, anomaly>>

\* resetCatch, after the trades were published.
Reset(j) ==
  /\ pc[j] = "reset"
  /\ rows' = [u \in Users |-> <<>>]
  /\ cache' = NoCache
  /\ entries' = [u \in Users |-> Nothing]
  /\ Goto(j, "done")
  /\ UNCHANGED <<orders, redis, postgres, local, faults, short, anomaly>>

\* The process dies, also of an error in a handler nobody awaits.  Redis keeps
\* the fills; the queue has already seen the jobs complete.
Crash ==
  /\ faults < MaxFaults
  /\ \E j \in Jobs : Active(j)
  /\ faults' = faults + 1
  /\ pc' = [j \in Jobs |-> IF Active(j) THEN "lost" ELSE pc[j]]
  /\ rows' = [u \in Users |-> <<>>]
  /\ cache' = NoCache
  /\ entries' = [u \in Users |-> Nothing]
  /\ short' = [j \in Jobs |-> IF pc[j] = "write" THEN NotShort ELSE short[j]]
  /\ anomaly' = anomaly \union {"crash"}
  /\ UNCHANGED <<orders, redis, postgres, local>>

JobStep(j) ==
  \/ Start(j) \/ Match(j) \/ ReadMaker(j) \/ SettleMaker(j)
  \/ ReadTaker(j) \/ FinishTaker(j) \/ WriteToDB(j) \/ Reset(j)

\* The jobs are over: the system may stop.
Terminated ==
  /\ \A j \in Jobs : pc[j] \in {"done", "unmatched", "lost"}
  /\ UNCHANGED vars

Next == (\E j \in Jobs : JobStep(j)) \/ Crash \/ Terminated

Spec == Init /\ [][Next]_vars

(***************************************************************************)
(* Properties.  Each names the anomalies it does not survive.              *)
(***************************************************************************)

Without(A) == anomaly \intersect A = {}

\* No handler is under way: the arrays are empty, everything is saved.
Idle == \A j \in Jobs : ~Active(j)

Amounts == [base : Nat, quote : Nat]

\* Every variable has its type.
TypeOK ==
  /\ \A m \in Makers : maker[m] \in MakerOrders[m]
  /\ \A j \in Jobs : taker[j] \in JobOrders[j]
  /\ book \in [Makers -> [base : Nat, quote : Nat, place : Nat]]
  /\ tail \in Nat
  /\ balance \in [Users -> [Columns -> Int]]
  /\ ledger \in [Users -> [base : Int, quote : Int]]
  /\ pc \in [Jobs -> PcValues]
  /\ snap \in [Jobs -> SUBSET [id : Makers, base : Nat, quote : Nat, place : Nat]]
  /\ filled \in [Jobs -> Amounts]
  /\ fill \in [Jobs -> [id : Makers \union {NoUser}, base : Nat, quote : Nat]]
  /\ read \in [Jobs -> [Columns -> Int]]
  /\ rows \in [Users -> Seq([Columns -> Int])]
  /\ cache \in [user : Users \union {NoUser}, at : Nat]
  /\ entries \in [Users -> [base : Int, quote : Int]]
  /\ faults \in 0 .. MaxFaults
  /\ short \in [Jobs -> [free : -1 .. 1, locked : -1 .. 1]]
  /\ \A j \in Jobs : short[j].free + short[j].locked \in -1 .. 1
  /\ anomaly \subseteq Anomalies

\* What the orders of a user reserve: the unfilled part of a maker, and a market
\* order that waits or that returned on an empty book.
Resting(m, u, side) ==
  IF maker[m].user = u /\ maker[m].side = side
  THEN MakerLock(m, u, side) - (IF side = "BUY" THEN book[m].quote ELSE book[m].base)
  ELSE 0
Waiting(j, u, side) ==
  IF pc[j] \in {"queued", "unmatched"} THEN TakerLock(j, u, side) ELSE 0
StillReserved(u, side) ==
  SumFunctionOnSet([m \in Makers |-> Resting(m, u, side)], Makers)
  + SumFunctionOnSet([j \in Jobs |-> Waiting(j, u, side)], Jobs)

\* What the rounding of a rest kept from a user: only a market order that sold a
\* part of its quantity counts, and TypeOK has it lose or win one unit at most.
PartlySold(j) ==
  taker[j].side = "SELL" /\ 0 < filled[j].base /\ Remaining(j) > 0
ShortLocked(j, u) ==
  IF taker[j].user = u /\ PartlySold(j) THEN short[j].locked ELSE 0
ShortTotal(j, u) ==
  IF taker[j].user = u /\ PartlySold(j) THEN short[j].free + short[j].locked ELSE 0
LockedShort(u) == SumFunctionOnSet([j \in Jobs |-> ShortLocked(j, u)], Jobs)
Short(u) == SumFunctionOnSet([j \in Jobs |-> ShortTotal(j, u)], Jobs)

\* What a user has locked in Postgres is what the orders in Redis and the queue
\* still reserve (a filled maker keeps its rounding rest).  It takes fills,
\* cached rows, the taker's release and the one transaction at the end to agree
\* (order.matchingengin.ts:586-895).
LockedIsReserved ==
  Without(Anomalies) /\ Idle =>
    \A u \in Users : /\ balance[u]["baseLocked"] = StillReserved(u, "SELL") - LockedShort(u)
                     /\ balance[u]["quoteLocked"] = StillReserved(u, "BUY")

Owned(u) == [base |-> balance[u]["baseFree"] + balance[u]["baseLocked"],
             quote |-> balance[u]["quoteFree"] + balance[u]["quoteLocked"]]

\* Matching moves money between users and neither makes nor loses any, also
\* when the process dies within a job: the balances of all users are saved
\* together (handleWriteToDB, order.matchingengin.ts:848-895).
Conserved ==
  Without(Anomalies \ {"crash"}) /\ Idle =>
    /\ SumFunctionOnSet([u \in Users |-> Owned(u).base], Users)
         = SumFunctionOnSet([u \in Users |-> Reserve(u, "SELL") - Short(u)], Users)
    /\ SumFunctionOnSet([u \in Users |-> Owned(u).quote], Users)
         = SumFunctionOnSet([u \in Users |-> Reserve(u, "BUY")], Users)

\* The ledger rows of a user explain every change of the user's balances, also
\* after a crash and for orders that paid without a release
\* (order.matchingengin.ts:821-845, 710-734).
LedgerExplainsBalance ==
  Without({"overlap", "reread"}) /\ Idle =>
    \A u \in Users :
      /\ Owned(u).base = Reserve(u, "SELL") + ledger[u].base - Short(u)
      /\ Owned(u).quote = Reserve(u, "BUY") + ledger[u].quote

\* When a job trades at a price, no order of another user rests in the book at
\* a better one (order.matchingengin.ts:207-210, redis.orderbook.service.ts:124-135).
PricePriority ==
  \A j \in Jobs :
    pc[j] \in {"read", "settle"} /\ Without({"overlap"}) =>
      \A m \in Makers :
        (/\ book[m].place # 0
         /\ maker[m].side = Opposite(taker[j].side)
         /\ maker[m].user # taker[j].user)
        => LET traded == maker[fill[j].id].price IN
           IF maker[m].side = "SELL" THEN maker[m].price >= traded
                                     ELSE maker[m].price <= traded

\* However its fills are rounded and whatever overlaps, an order whose quote
\* amount fits its quantity and price is filled within both, and once it left
\* the book the rest it keeps locked is worth less than one unit of quote and
\* one unit of base for every fill (order.matchingengin.ts:217-223, 416-419).
RoundingRestIsSmall ==
  \A m \in Makers :
    LET o == maker[m]
        b == book[m]
    IN
    o.quote = QuoteFor(o.base, o.price) =>
      /\ b.base <= o.base /\ b.quote <= o.quote
      /\ b.place = 0 =>
           IF o.side = "SELL"
           THEN (o.base - b.base) * o.price < Scale + Cardinality(Jobs) * o.price
           ELSE o.quote - b.quote < Cardinality(Jobs) + 1
=============================================================================
