-------------------------------- MODULE Lots --------------------------------
(***************************************************************************)
(* The lots of one user and token, and the profit realised on them.  The   *)
(* engine works on a snapshot of the lots of the SPOT wallet: a buy adds a *)
(* lot, a sale consumes the oldest ones, and one transaction at the end of *)
(* the job writes what changed.  Transfers and withdrawals of the API      *)
(* consume the newest lots in transactions of their own.                   *)
(*                                                                         *)
(* A job has fills of one side, since an order never meets its owner's.    *)
(* Prices are left out, and jobs do not overlap here (Matching has that).  *)
(***************************************************************************)
EXTENDS Integers, Sequences, FiniteSets, FiniteSetsExt

CONSTANTS
  Sales, Buys,    \* sets of sequences of quantities: the fills of a job
  Amounts,        \* amounts of transfers and withdrawals
  FirstLots,      \* sequence of the first lots, oldest first
  MaxJobs,        \* bound: jobs of the engine
  MaxCalls,       \* bound: transfers and withdrawals
  MaxDeaths       \* bound: deaths of the worker

Wallets == {"SPOT", "FUNDING"}
Other(w) == IF w = "SPOT" THEN "FUNDING" ELSE "SPOT"
Nobody == "none"
Lot == [wallet : Wallets \union {Nobody}, age : Nat, quantity : Nat \ {0}]
Realized == [saved : BOOLEAN, quantity : Nat]

ASSUME LotsAssumption ==
  /\ Sales \subseteq Seq(Nat \ {0}) /\ Buys \subseteq Seq(Nat \ {0})
  /\ Amounts \subseteq Nat \ {0}
  /\ MaxJobs \in Nat /\ MaxCalls \in Nat /\ MaxDeaths \in Nat
  /\ FirstLots \in Seq([wallet : Wallets, quantity : Nat \ {0}])

VARIABLES
  lots,      \* balance_lots: [ids -> a wallet or NULL, an age and a quantity]
  holding,   \* [Wallets -> what the wallet holds of the token]
  locked,    \* part of the SPOT wallet reserved by orders
  new,       \* greater than every id and every age
  pnl,       \* quantity in realized_pnl_history
  heap,      \* the engine's lots, as it knows them: [ids -> lot]
  toCreate, toUpdate, \* its lists of lots bought, and of ids sold in part
  toDelete,  \* ids of the lots sold out, which are no longer in the snapshot
  pnlList,   \* its toCreatePnlHistory: quantities, and which have been saved
  step,      \* step of the engine
  side,      \* side of the job in work
  fills,     \* quantities of its fills
  at,        \* the next one
  remain,    \* what the current fill has left to sell
  call,      \* the transfer in work: its wallet, its amount, the lots it found
  refundable, \* withdrawn, and not yet given back
  jobs, calls, deaths,
  sold,      \* history: quantity of the committed sales
  usedUp,    \* history: ages of the lots sold out
  loaded,    \* history: the lots of the snapshot when it was taken
  stale      \* history: a lot was written that had changed since it was read

fifo == <<heap, toCreate, toUpdate, toDelete, loaded>>
work == <<side, fills, at, jobs>>
api == <<call, refundable, calls>>
tables == <<lots, holding, locked, pnl, sold, usedUp, stale>>
lotsVars == <<tables, new, fifo, pnlList, step, work, remain, api, deaths>>

NoLots == <<>>
NoCall == [from |-> Nobody, amount |-> 0, found |-> NoLots]

Sum(s, S) == SumFunctionOnSet(s, S)
Quantity(f, S) == Sum([i \in DOMAIN f |-> f[i].quantity], S)
Total(f) == Quantity(f, DOMAIN f)
LotsOf(w) == [i \in {j \in DOMAIN lots : lots[j].wallet = w} |-> lots[i]]
Traded == Sum(fills, DOMAIN fills)
Available(w) == holding[w] - (IF w = "SPOT" THEN locked ELSE 0)
                           - (IF call.from = w THEN call.amount ELSE 0)

LotsInit ==
  /\ lots = [i \in DOMAIN FirstLots |-> [wallet |-> FirstLots[i].wallet, age |-> i,
                                         quantity |-> FirstLots[i].quantity]]
  /\ holding = [w \in Wallets |-> Total(LotsOf(w))]
  /\ locked = 0 /\ new = Len(FirstLots) + 1 /\ pnl = 0
  /\ heap = NoLots /\ toCreate = <<>> /\ toUpdate = <<>> /\ toDelete = {}
  /\ pnlList = <<>>
  /\ step = "idle" /\ side = "BUY" /\ fills = <<>> /\ at = 1 /\ remain = 0
  /\ call = NoCall /\ refundable = 0
  /\ jobs = 0 /\ calls = 0 /\ deaths = 0
  /\ sold = 0 /\ usedUp = {} /\ loaded = NoLots /\ stale = FALSE

(***************************************************************************)
(* BalanceLotFifo: pushToBalanceLot for each fill of a job.                *)
(***************************************************************************)

\* The orders of the job have reserved what they sell.
StartJob(s, q) ==
  /\ step = "idle" /\ jobs < MaxJobs
  /\ LET quantity == Sum(q, DOMAIN q) IN
     /\ s = "SELL" => quantity <= Available("SPOT")
     /\ locked' = IF s = "SELL" THEN locked + quantity ELSE locked
  /\ side' = s /\ fills' = q /\ at' = 1 /\ jobs' = jobs + 1
  /\ step' = "load"
  /\ UNCHANGED <<lots, holding, new, pnl, fifo, pnlList, remain, api, deaths, sold,
                 usedUp, stale>>

\* ensureSnapshot, at the first fill.
Load ==
  /\ step = "load"
  /\ heap' = LotsOf("SPOT") /\ loaded' = LotsOf("SPOT")
  /\ step' = "push"
  /\ UNCHANGED <<tables, new, toCreate, toUpdate, toDelete, pnlList, work, remain, api,
                 deaths>>

\* The snapshot of a job that buys is only averaged, so its own lots are left out.
Buy ==
  /\ step = "push" /\ side = "BUY" /\ at \in DOMAIN fills
  /\ toCreate' = Append(toCreate, [wallet |-> "SPOT", age |-> new, quantity |-> fills[at]])
  /\ at' = at + 1
  /\ new' = new + 1
  /\ UNCHANGED <<tables, heap, toUpdate, toDelete, loaded, pnlList, step, side, fills,
                 jobs, remain, api, deaths>>

Sell ==
  /\ step = "push" /\ side = "SELL" /\ at \in DOMAIN fills
  /\ remain' = fills[at] /\ at' = at + 1
  /\ step' = "lot"
  /\ UNCHANGED <<tables, new, fifo, pnlList, side, fills, jobs, api, deaths>>

Snapshot == DOMAIN heap \ toDelete

\* Mutant: only a lot below zero is used up.
UsedUpBelow(left) == left < 0

UsedUp(left) == left <= 0

\* The oldest lot, after an await for the price.  A lot used up leaves the
\* snapshot with the quantity it had; one in part keeps the rest.
SellLot(i) ==
  /\ step = "lot" /\ remain > 0
  /\ i \in Snapshot /\ \A j \in Snapshot : heap[i].age <= heap[j].age
  /\ LET used == Min({heap[i].quantity, remain})
         left == heap[i].quantity - used
     IN  /\ pnlList' = Append(pnlList, [saved |-> FALSE, quantity |-> used])
         /\ remain' = remain - used
         /\ IF UsedUp(left)
            THEN toDelete' = toDelete \union {i} /\ UNCHANGED <<heap, toUpdate>>
            ELSE /\ toUpdate' = Append(toUpdate, i)
                 /\ heap' = [heap EXCEPT ![i].quantity = left]
                 /\ UNCHANGED toDelete
  /\ UNCHANGED <<tables, new, toCreate, loaded, step, work, api, deaths>>

\* Without lots the rest of the sale has no profit or loss, and no error.
LotsDone ==
  /\ step = "lot" /\ (remain = 0 \/ Snapshot = {})
  /\ step' = "push" /\ remain' = 0
  /\ UNCHANGED <<tables, new, fifo, pnlList, work, api, deaths>>

(***************************************************************************)
(* commitAll, in the transaction that writes the job.                      *)
(***************************************************************************)
Updated == {toUpdate[k] : k \in DOMAIN toUpdate}

\* Lots are found without their wallet and token (balance_lot.service.ts:22-25,
\* wallet.service.ts:263-269).  save() of such a copy leaves these columns of a row
\* that is there alone; a row it inserts belongs to nobody, and no find returns it.
Orphan(lot) == [lot EXCEPT !.wallet = Nobody]
SavedLot(i, lot) ==
  IF i \in DOMAIN lots THEN [lots[i] EXCEPT !.quantity = lot.quantity] ELSE Orphan(lot)

\* remove() takes the id of what it has removed; save() inserts what has no id:
\* the places of toUpdate where a lot that is gone is inserted, once or more often.
Agains ==
  {ks \in SUBSET {k \in DOMAIN toUpdate : toUpdate[k] \in toDelete} :
     {toUpdate[k] : k \in ks} = Updated \intersect toDelete}

\* What is inserted at a new id, and the ids.
Inserted(ks) ==
  {new + k : k \in ks} \union {new + Len(toUpdate) + k : k \in DOMAIN toCreate}
InsertedLot(i) ==
  IF i - new <= Len(toUpdate) THEN Orphan(heap[toUpdate[i - new]])
  ELSE toCreate[i - new - Len(toUpdate)]

\* Mutant: the lots that were sold in part are not saved.
WrittenWithoutUpdates(ks) ==
  [i \in (DOMAIN lots \ toDelete) \union Inserted(ks) |->
     IF i \in Inserted(ks) THEN InsertedLot(i) ELSE lots[i]]

\* A lot that somebody changed meanwhile gets the quantity the engine knows, one
\* that somebody deleted comes back at its id.
Written(ks) ==
  [i \in ((DOMAIN lots \union Updated) \ toDelete) \union Inserted(ks) |->
     IF i \in Inserted(ks) THEN InsertedLot(i)
     ELSE IF i \in Updated THEN SavedLot(i, heap[i]) ELSE lots[i]]

\* Mutant: every entity of the list is inserted.
NewPnlOf(p) == p.quantity
\* save() inserts the entities that have no id yet; the list is never cleared.
NewPnl(p) == IF p.saved THEN 0 ELSE p.quantity

Unsaved == Sum([k \in DOMAIN pnlList |-> NewPnl(pnlList[k])], DOMAIN pnlList)

Fresh(f, S) == \A i \in S : i \in DOMAIN lots /\ lots[i] = f[i]

Commit ==
  /\ step = "push" /\ at \notin DOMAIN fills
  /\ \E ks \in Agains : lots' = Written(ks)
  /\ new' = new + Len(toUpdate) + Len(toCreate) + 1
  /\ stale' = (stale \/ ~ Fresh(loaded, Updated \union toDelete))
  /\ usedUp' = usedUp \union {heap[i].age : i \in toDelete}
  /\ pnl' = pnl + Unsaved
  /\ pnlList' = [k \in DOMAIN pnlList |-> [pnlList[k] EXCEPT !.saved = TRUE]]
  /\ holding' = [holding EXCEPT !["SPOT"] = IF side = "BUY" THEN @ + Traded ELSE @ - Traded]
  /\ locked' = IF side = "BUY" THEN locked ELSE locked - Traded
  /\ sold' = IF side = "BUY" THEN sold ELSE sold + Traded
  /\ step' = "reset"
  /\ UNCHANGED <<fifo, work, remain, api, deaths>>

Cleared ==
  /\ heap' = NoLots /\ loaded' = NoLots
  /\ toCreate' = <<>> /\ toUpdate' = <<>> /\ toDelete' = {}

\* resetAll, after the trades are published.
Reset ==
  /\ step = "reset"
  /\ Cleared
  /\ step' = "idle"
  /\ UNCHANGED <<tables, new, pnlList, work, remain, api, deaths>>

\* The worker dies; what the job had reserved stays so.
WorkerDies ==
  /\ step # "idle" /\ deaths < MaxDeaths
  /\ deaths' = deaths + 1
  /\ Cleared /\ pnlList' = <<>>
  /\ step' = "idle" /\ remain' = 0
  /\ UNCHANGED <<tables, new, work, api>>

(***************************************************************************)
(* The API.                                                                *)
(***************************************************************************)
Newer(f, i, j) == f[i].age > f[j].age \/ (f[i].age = f[j].age /\ i > j)

\* What an amount takes of a lot, newest lots first.
Taken(f, amount, i) ==
  LET newer == Quantity(f, {j \in DOMAIN f : Newer(f, j, i)}) IN
  IF newer >= amount THEN 0 ELSE Min({f[i].quantity, amount - newer})

Spent(f, amount) == {i \in DOMAIN f : Taken(f, amount, i) > 0}

\* The lots after a wallet has spent an amount of those that were found: a lot
\* is saved with what was found less what was taken, or removed.
After(f, amount) ==
  LET gone == {i \in DOMAIN f : Taken(f, amount, i) = f[i].quantity} IN
  [i \in (DOMAIN lots \union Spent(f, amount)) \ gone |->
     IF i \in Spent(f, amount)
     THEN SavedLot(i, [f[i] EXCEPT !.quantity = @ - Taken(f, amount, i)])
     ELSE lots[i]]

\* transfer and convertBalanceLot: find without a lock.
FindLots(w, amount) ==
  /\ call = NoCall /\ calls < MaxCalls /\ amount <= Available(w)
  /\ calls' = calls + 1
  /\ call' = [from |-> w, amount |-> amount, found |-> LotsOf(w)]
  /\ UNCHANGED <<tables, new, fifo, pnlList, step, work, remain, refundable, deaths>>

\* The lots go to the other wallet as lots of their own.
ConvertLots ==
  LET w == call.from
      spent == Spent(call.found, call.amount)
      after == After(call.found, call.amount)
  IN  /\ call # NoCall
      /\ lots' = [i \in DOMAIN after \union {new + j : j \in spent} |->
                    IF i < new THEN after[i]
                    ELSE [wallet |-> Other(w), age |-> i,
                          quantity |-> Taken(call.found, call.amount, i - new)]]
      /\ new' = new + new
      /\ stale' = (stale \/ ~ Fresh(call.found, spent))
      /\ holding' = [holding EXCEPT ![w] = @ - call.amount, ![Other(w)] = @ + call.amount]
      /\ call' = NoCall
      /\ UNCHANGED <<locked, pnl, fifo, pnlList, step, work, remain, refundable, calls,
                     deaths, sold, usedUp>>

\* deductBalanceLotsAtomic, its rows locked; too few lots refuse the withdrawal.
DeductLots(amount) ==
  LET found == LotsOf("FUNDING") IN
  /\ calls < MaxCalls /\ amount <= Available("FUNDING") /\ amount <= Total(found)
  /\ lots' = After(found, amount)
  /\ holding' = [holding EXCEPT !["FUNDING"] = @ - amount]
  /\ refundable' = refundable + amount /\ calls' = calls + 1
  /\ UNCHANGED <<locked, new, pnl, fifo, pnlList, step, work, remain, call, deaths, sold,
                 usedUp, stale>>

AddRefundLot(amount) ==
  /\ amount <= refundable
  /\ lots' = [i \in DOMAIN lots \union {new} |->
                IF i = new THEN [wallet |-> "FUNDING", age |-> new, quantity |-> amount]
                ELSE lots[i]]
  /\ new' = new + 1
  /\ holding' = [holding EXCEPT !["FUNDING"] = @ + amount]
  /\ refundable' = refundable - amount
  /\ UNCHANGED <<locked, pnl, fifo, pnlList, step, work, remain, call, calls, deaths, sold,
                 usedUp, stale>>

\* Between jobs and calls the system may stop.
AllDone == step = "idle" /\ call = NoCall /\ UNCHANGED lotsVars

LotsNext ==
  \/ \E q \in Sales : StartJob("SELL", q)
  \/ \E q \in Buys : StartJob("BUY", q)
  \/ Load \/ Buy \/ Sell \/ (\E i \in Snapshot : SellLot(i)) \/ LotsDone
  \/ Commit \/ Reset \/ WorkerDies
  \/ \E amount \in Amounts :
       (\E w \in Wallets : FindLots(w, amount)) \/ DeductLots(amount) \/ AddRefundLot(amount)
  \/ ConvertLots \/ AllDone

LotsSpec == LotsInit /\ [][LotsNext]_lotsVars

(***************************************************************************)
(* Properties.                                                             *)
(***************************************************************************)
Table(f) == f \in [DOMAIN f -> Lot] /\ DOMAIN f \subseteq 1 .. new - 1

\* Every variable has its type; every id is below the next one, no lot is empty.
LotsTypeOK ==
  /\ Table(lots) /\ new \in Nat \ {0}
  /\ holding \in [Wallets -> Int] /\ locked \in Nat /\ pnl \in Nat
  /\ Table(heap) /\ Table(loaded) /\ DOMAIN loaded = DOMAIN heap
  /\ toCreate \in Seq(Lot) /\ toUpdate \in Seq(DOMAIN heap) /\ toDelete \subseteq DOMAIN heap
  /\ pnlList \in Seq(Realized)
  /\ step \in {"idle", "load", "push", "lot", "reset"} /\ side \in {"BUY", "SELL"}
  /\ fills \in Seq(Nat \ {0}) /\ at \in 1 .. Len(fills) + 1 /\ remain \in Nat
  /\ call = NoCall \/ (call.from \in Wallets /\ call.amount \in Amounts /\ Table(call.found))
  /\ refundable \in Nat /\ jobs \in 0 .. MaxJobs /\ calls \in 0 .. MaxCalls
  /\ deaths \in 0 .. MaxDeaths
  /\ sold \in Nat /\ usedUp \subseteq Nat /\ stale \in BOOLEAN

\* The lots that are found for a wallet add up to what it holds, whoever consumed
\* them and whatever a commit inserts again after it has deleted it: unless a row
\* was written from a copy that had become stale, since the engine and the API
\* lock no lots they both change
\* (balance-lot.service.ts:156-248, wallet.service.ts:256-311).
LotsMatchHoldings == ~stale => \A w \in Wallets : Total(LotsOf(w)) = holding[w]

\* Each unit sold is in the history of realised profits once, however often the
\* list of the engine is saved again, and whatever the API did to the lots
\* (balance-lot.service.ts:189-200, 245-255).
PnlOncePerSale == pnl = sold

\* A lot that a sale has used up is no longer a row, of no wallet
\* (balance-lot.service.ts:202-205, "delete it from the snapshot at once").
SoldLotsAreDeleted == \A i \in DOMAIN lots : lots[i].age \notin usedUp
=============================================================================
