---------------------------- MODULE SpotExchange ----------------------------
(***************************************************************************)
(* The two SPOT balance rows of one user under everything that writes them *)
(* while his limit orders live: OrderService.create and closeOrder in the  *)
(* API process, the matching engine's settlement in the worker, and the    *)
(* credits of BalanceService.  None of the first three holds a lock: each  *)
(* reads a row, computes, and later saves the values it computed.          *)
(*                                                                         *)
(* The price is one, so that an order's base and quote amounts are equal;  *)
(* prices, rounding and takers are the matter of module Matching, the book *)
(* command by command of module OrderBook.                                 *)
(***************************************************************************)
EXTENDS Integers, FiniteSets, Functions

CONSTANTS
  Orders,      \* limit order requests of the user
  Closers,     \* close requests
  Fills,       \* fills of his orders by other users' market orders
  Credits,     \* the assets credited by an administrator or a deposit
  SideOf,      \* [Orders -> {"BUY", "SELL"}]
  Size,        \* [Orders -> amount]
  Initial,     \* available amount of either asset
  MaxRequests, \* bound: orders the user sends
  MaxFaults,   \* bound: crashes, errors, repeated jobs
  None         \* nothing held

ASSUME SpotAssumption ==
  /\ SideOf \in [Orders -> {"BUY", "SELL"}]
  /\ Size \in [Orders -> Nat \ {0}]
  /\ Initial \in Nat /\ MaxRequests \in Nat /\ MaxFaults \in Nat
  /\ Credits \subseteq {"base", "quote"}
  /\ Orders \intersect Closers = {} /\ Orders \intersect Fills = {}
  /\ Closers \intersect Fills = {}
  /\ IsFiniteSet(Orders) /\ IsFiniteSet(Closers) /\ IsFiniteSet(Fills)
  /\ None \notin Nat

Assets == {"base", "quote"}
Reserved(o) == IF SideOf[o] = "BUY" THEN "quote" ELSE "base"
Received(o) == IF SideOf[o] = "BUY" THEN "base" ELSE "quote"

\* The worker may run the job of an order a second time, under a new order id.
Ids == Orders \X {1, 2}
Callers == Orders \union Closers \union Fills

VARIABLES
  row,       \* [Assets -> [available, locked]]: table balances
  ledger,    \* [Assets -> sum of the ledger's deltas]
  open,      \* [Ids -> unfilled amount in the book, or None]
  pc,        \* [Callers -> step]
  copy,      \* [Callers -> rows read, or None]
  at,        \* [Closers \union Fills -> [id, rest, amount] or None]
  writes,    \* [Closers -> the saves of Promise.all that are still to end]
  pending,   \* credits to come
  faults,    \* faults so far
  stranded,  \* history: [Callers -> [Assets -> amount nobody will release]]
  refunded,  \* history: sum of the refunds written to the ledger
  raced      \* history: assets whose row was saved from an outdated copy

vars == <<row, ledger, open, pc, copy, at, writes, pending, faults, stranded,
          refunded, raced>>
history == <<stranded, refunded, raced>>

Steps == {"new", "checked", "read", "locked", "queued", "running", "fetched",
          "deleted", "saving", "rows", "done"}

Goto(p, step) == pc' = [pc EXCEPT ![p] = step]
AddTo(f, a, n) == [f EXCEPT ![a] = @ + n]
Strand(p, a, n) == stranded' = [stranded EXCEPT ![p][a] = @ + n]

\* A save of asset a from the rows c read: an outdated copy undoes what
\* somebody else has written since.
Outdated(c, A) == {a \in A : row[a] # c[a]}

Init ==
  /\ row = [a \in Assets |-> [available |-> Initial, locked |-> 0]]
  /\ ledger = [a \in Assets |-> 0]
  /\ open = [i \in Ids |-> None]
  /\ pc = [p \in Callers |-> "new"]
  /\ copy = [p \in Callers |-> None]
  /\ at = [p \in Closers \union Fills |-> None]
  /\ writes = [c \in Closers |-> {}]
  /\ pending = Credits
  /\ faults = 0
  /\ stranded = [p \in Callers |-> [a \in Assets |-> 0]]
  /\ refunded = 0
  /\ raced = {}

(***************************************************************************)
(* OrderService.create.                                                    *)
(***************************************************************************)

\* checkBalance: the available amount must cover the order.
Check(o) ==
  /\ pc[o] = "new"
  /\ Cardinality({q \in Orders : pc[q] # "new"}) < MaxRequests
  /\ Goto(o, IF row[Reserved(o)].available < Size[o] THEN "done" ELSE "checked")
  /\ UNCHANGED <<row, ledger, open, copy, at, writes, pending, faults, history>>

\* Mutant: lockBalance trusts the check.
ReadUnchecked(o) ==
  /\ pc[o] = "checked"
  /\ Goto(o, "read")
  /\ copy' = [copy EXCEPT ![o] = row]
  /\ UNCHANGED <<row, ledger, open, at, writes, pending, faults, history>>

\* lockBalance reads the row again, and refuses again.
ReadRow(o) ==
  /\ pc[o] = "checked"
  /\ \/ /\ row[Reserved(o)].available < Size[o]
        /\ Goto(o, "done")
        /\ UNCHANGED copy
     \/ /\ row[Reserved(o)].available >= Size[o]
        /\ Goto(o, "read")
        /\ copy' = [copy EXCEPT ![o] = row]
  /\ UNCHANGED <<row, ledger, open, at, writes, pending, faults, history>>

\* lockBalance saves what it computed from its copy.
SaveLock(o) ==
  LET a == Reserved(o)
      old == copy[o][a]
  IN
  /\ pc[o] = "read"
  /\ row' = [row EXCEPT ![a] = [available |-> old.available - Size[o],
                                locked |-> old.locked + Size[o]]]
  /\ raced' = raced \union Outdated(copy[o], {a})
  /\ copy' = [copy EXCEPT ![o] = None]
  /\ Goto(o, "locked")
  /\ UNCHANGED <<ledger, open, at, writes, pending, faults, stranded, refunded>>

Enqueue(o) ==
  /\ pc[o] = "locked"
  /\ Goto(o, "queued")
  /\ UNCHANGED <<row, ledger, open, copy, at, writes, pending, faults, history>>

\* addOrderJob returns FALSE and create does not look: the user is told that
\* the order was accepted, no job exists, the reservation stays.
EnqueueFails(o) ==
  /\ pc[o] = "locked" /\ faults < MaxFaults
  /\ faults' = faults + 1
  /\ Strand(o, Reserved(o), Size[o])
  /\ Goto(o, "done")
  /\ UNCHANGED <<row, ledger, open, copy, at, writes, pending, refunded, raced>>

(***************************************************************************)
(* The worker: the order's job.                                            *)
(***************************************************************************)

\* Mutant: a job waits for the end of the order before it.
StartJobAlone(o) ==
  /\ pc[o] = "queued"
  /\ \A i \in Ids : open[i] = None
  /\ Goto(o, "running")
  /\ UNCHANGED <<row, ledger, open, copy, at, writes, pending, faults, history>>

\* process does not await handleLimitOrder: the job counts as completed.
StartJob(o) ==
  /\ pc[o] = "queued"
  /\ Goto(o, "running")
  /\ UNCHANGED <<row, ledger, open, copy, at, writes, pending, faults, history>>

\* handleLimitOrder: the order is in the book and in the table of orders.
AddOrder(o) ==
  /\ pc[o] = "running"
  /\ open' = [open EXCEPT ![<<o, 1>>] = Size[o]]
  /\ Goto(o, "done")
  /\ UNCHANGED <<row, ledger, copy, at, writes, pending, faults, history>>

\* The completion of the job was not recorded: the queue hands it out again,
\* and a second order rests on one reservation.
JobRepeated(o) ==
  /\ pc[o] = "done" /\ open[<<o, 1>>] # None /\ open[<<o, 2>>] = None
  /\ faults < MaxFaults
  /\ faults' = faults + 1
  /\ open' = [open EXCEPT ![<<o, 2>>] = Size[o]]
  /\ raced' = raced \union {Reserved(o)}
  /\ UNCHANGED <<row, ledger, pc, copy, at, writes, pending, stranded, refunded>>

(***************************************************************************)
(* A fill of one of the user's orders by the engine.                       *)
(***************************************************************************)

\* getOrderBook: the engine works with its copy of the order.
ReadBook(f) ==
  /\ pc[f] = "new"
  /\ \E i \in Ids : \E n \in 1 .. (IF open[i] = None THEN 0 ELSE open[i]) :
       at' = [at EXCEPT ![f] = [id |-> i, rest |-> open[i], amount |-> n]]
  /\ Goto(f, "fetched")
  /\ UNCHANGED <<row, ledger, open, copy, writes, pending, faults, history>>

\* deleteOrder or updateOrder, from the copy.  An order that was closed or
\* filled since is taken again: what happens to its amounts is a race.
Take(f) ==
  LET e == at[f] IN
  /\ pc[f] = "fetched"
  /\ open' = [open EXCEPT ![e.id] = IF e.amount = e.rest THEN None
                                    ELSE e.rest - e.amount]
  /\ raced' = IF open[e.id] = e.rest THEN raced ELSE Assets
  /\ Goto(f, "deleted")
  /\ UNCHANGED <<row, ledger, copy, at, writes, pending, faults, stranded, refunded>>

\* pushToBalanceAndLedger reads both rows; the changes stay in the arrays.
ReadRows(f) ==
  /\ pc[f] = "deleted"
  /\ copy' = [copy EXCEPT ![f] = row]
  /\ Goto(f, "rows")
  /\ UNCHANGED <<row, ledger, open, at, writes, pending, faults, history>>

\* handleWriteToDB: both rows and the ledger in one transaction.
WriteToDB(f) ==
  LET o == at[f].id[1]
      n == at[f].amount
      old == copy[f]
  IN
  /\ pc[f] = "rows"
  /\ row' = [a \in Assets |->
               IF a = Reserved(o) THEN [old[a] EXCEPT !.locked = @ - n]
                                  ELSE [old[a] EXCEPT !.available = @ + n]]
  /\ ledger' = AddTo(AddTo(ledger, Reserved(o), -n), Received(o), n)
  /\ raced' = raced \union Outdated(old, Assets)
  /\ copy' = [copy EXCEPT ![f] = None]
  /\ at' = [at EXCEPT ![f] = None]
  /\ Goto(f, "done")
  /\ UNCHANGED <<open, writes, pending, faults, stranded, refunded>>

(***************************************************************************)
(* OrderService.closeOrder.                                                *)
(***************************************************************************)

\* getOrderByUser.
Fetch(c) ==
  /\ pc[c] = "new"
  /\ \E i \in Ids :
       /\ open[i] # None
       /\ at' = [at EXCEPT ![c] = [id |-> i, rest |-> open[i], amount |-> open[i]]]
  /\ Goto(c, "fetched")
  /\ UNCHANGED <<row, ledger, open, copy, writes, pending, faults, history>>

\* deleteOrder does not say whether the order was still there.
Delete(c) ==
  LET e == at[c] IN
  /\ pc[c] = "fetched"
  /\ open' = [open EXCEPT ![e.id] = None]
  /\ raced' = IF open[e.id] = e.rest THEN raced ELSE Assets
  /\ Goto(c, "deleted")
  /\ UNCHANGED <<row, ledger, copy, at, writes, pending, faults, stranded, refunded>>

ReadForRefund(c) ==
  /\ pc[c] = "deleted"
  /\ copy' = [copy EXCEPT ![c] = row]
  /\ writes' = [writes EXCEPT ![c] = {"row", "ledger"}]
  /\ Goto(c, "saving")
  /\ UNCHANGED <<row, ledger, open, at, pending, faults, history>>

\* The saves of Promise.all end in any order; after the last, the request does.
Ended(c, w) ==
  /\ writes' = [writes EXCEPT ![c] = @ \ {w}]
  /\ IF writes[c] = {w}
     THEN /\ Goto(c, "done")
          /\ copy' = [copy EXCEPT ![c] = None]
          /\ at' = [at EXCEPT ![c] = None]
     ELSE UNCHANGED <<pc, copy, at>>

\* Mutant: the amount is given back and stays locked.
SaveRefundLocked(c) ==
  LET a == Reserved(at[c].id[1])
      n == at[c].rest
      old == copy[c][a]
  IN
  /\ "row" \in writes[c]
  /\ row' = [row EXCEPT ![a] = [available |-> old.available + n, locked |-> old.locked]]
  /\ raced' = raced \union Outdated(copy[c], {a})
  /\ Ended(c, "row")
  /\ UNCHANGED <<ledger, open, pending, faults, stranded, refunded>>

SaveRefund(c) ==
  LET a == Reserved(at[c].id[1])
      n == at[c].rest
      old == copy[c][a]
  IN
  /\ "row" \in writes[c]
  /\ row' = [row EXCEPT ![a] = [available |-> old.available + n,
                                locked |-> old.locked - n]]
  /\ raced' = raced \union Outdated(copy[c], {a})
  /\ Ended(c, "row")
  /\ UNCHANGED <<ledger, open, pending, faults, stranded, refunded>>

\* Mutant: the row has the whole amount of the order, what was filled included.
RefundLedgerWhole(c) ==
  /\ "ledger" \in writes[c]
  /\ ledger' = AddTo(ledger, "quote", Size[at[c].id[1]])
  /\ refunded' = refunded + at[c].rest
  /\ Ended(c, "ledger")
  /\ UNCHANGED <<row, open, pending, faults, stranded, raced>>

\* The ledger row of a refund names the quote token, whatever was reserved.
RefundLedger(c) ==
  /\ "ledger" \in writes[c]
  /\ ledger' = AddTo(ledger, "quote", at[c].rest)
  /\ refunded' = refunded + at[c].rest
  /\ Ended(c, "ledger")
  /\ UNCHANGED <<row, open, pending, faults, stranded, raced>>

\* An error after deleteOrder is logged and swallowed: the order is gone, what
\* it reserved is not released.
CloseFails(c) ==
  /\ pc[c] \in {"deleted", "saving"} /\ faults < MaxFaults
  /\ faults' = faults + 1
  /\ IF pc[c] = "deleted" \/ "row" \in writes[c]
     THEN Strand(c, Reserved(at[c].id[1]), at[c].rest)
     ELSE UNCHANGED stranded
  /\ writes' = [writes EXCEPT ![c] = {}]
  /\ copy' = [copy EXCEPT ![c] = None]
  /\ at' = [at EXCEPT ![c] = None]
  /\ Goto(c, "done")
  /\ UNCHANGED <<row, ledger, open, pending, refunded, raced>>

(***************************************************************************)
(* create (an administrator) and depositTokenWithManager: one statement    *)
(* adds to the row, whatever it holds, and a ledger row in the same        *)
(* transaction.                                                            *)
(***************************************************************************)
Credit(a) ==
  /\ a \in pending
  /\ row' = [row EXCEPT ![a].available = @ + 1]
  /\ ledger' = AddTo(ledger, a, 1)
  /\ pending' = pending \ {a}
  /\ UNCHANGED <<open, pc, copy, at, writes, faults, history>>

(***************************************************************************)
(* The worker dies: what it had not written is lost, Redis keeps the rest. *)
(***************************************************************************)
InWorker(p) == (p \in Orders /\ pc[p] = "running")
               \/ (p \in Fills /\ pc[p] \notin {"new", "done"})

\* What a caller that holds neither a row nor an open order stands for.
Due(p, a) ==
  CASE p \in Orders -> IF pc[p] \in {"locked", "queued", "running"} /\ Reserved(p) = a
                       THEN Size[p] ELSE 0
    [] p \in Fills -> IF pc[p] \in {"deleted", "rows"} /\ Reserved(at[p].id[1]) = a
                      THEN at[p].amount ELSE 0
    [] OTHER -> IF /\ pc[p] = "deleted" \/ (pc[p] = "saving" /\ "row" \in writes[p])
                   /\ Reserved(at[p].id[1]) = a
                THEN at[p].rest ELSE 0

WorkerDies ==
  LET dead == {p \in Callers : InWorker(p)} IN
  /\ dead # {} /\ faults < MaxFaults
  /\ faults' = faults + 1
  /\ stranded' = [p \in Callers |-> [a \in Assets |->
                    stranded[p][a] + IF p \in dead THEN Due(p, a) ELSE 0]]
  /\ pc' = [p \in Callers |-> IF p \in dead THEN "done" ELSE pc[p]]
  /\ copy' = [p \in Callers |-> IF p \in dead THEN None ELSE copy[p]]
  /\ at' = [p \in Closers \union Fills |-> IF p \in dead THEN None ELSE at[p]]
  /\ UNCHANGED <<row, ledger, open, writes, pending, refunded, raced>>

\* Nobody is on the way: the system may stop.
Terminated ==
  /\ \A p \in Callers : pc[p] \in {"new", "done"}
  /\ UNCHANGED vars

Next ==
  \/ \E o \in Orders : \/ Check(o) \/ ReadRow(o) \/ SaveLock(o) \/ Enqueue(o)
                       \/ EnqueueFails(o) \/ StartJob(o) \/ AddOrder(o) \/ JobRepeated(o)
  \/ \E f \in Fills : ReadBook(f) \/ Take(f) \/ ReadRows(f) \/ WriteToDB(f)
  \/ \E c \in Closers : \/ Fetch(c) \/ Delete(c) \/ ReadForRefund(c)
                        \/ SaveRefund(c) \/ RefundLedger(c) \/ CloseFails(c)
  \/ \E a \in Assets : Credit(a)
  \/ WorkerDies
  \/ Terminated

\* A request that was begun goes on, and the worker takes the jobs it is given.
Fairness ==
  \A o \in Orders : WF_vars(Enqueue(o) \/ EnqueueFails(o) \/ StartJob(o) \/ AddOrder(o))

Spec == Init /\ [][Next]_vars /\ Fairness

(***************************************************************************)
(* Properties.                                                             *)
(***************************************************************************)
Rows == [Assets -> [available : Nat, locked : Int]]
Work == [id : Ids, rest : Nat \ {0}, amount : Nat \ {0}]

\* Every variable has its type; above all, no interleaving of the unlocked
\* writers makes an available amount negative (balance.service.ts:225-245).
TypeOK ==
  /\ row \in Rows
  /\ ledger \in [Assets -> Int]
  /\ open \in [Ids -> (Nat \ {0}) \union {None}]
  /\ pc \in [Callers -> Steps]
  /\ copy \in [Callers -> Rows \union {None}]
  /\ at \in [Closers \union Fills -> Work \union {None}]
  /\ writes \in [Closers -> SUBSET {"row", "ledger"}]
  /\ pending \subseteq Assets
  /\ faults \in 0 .. MaxFaults
  /\ stranded \in [Callers -> [Assets -> Nat]]
  /\ refunded \in Nat /\ raced \subseteq Assets

\* What an open order offers of an asset, and what a caller stands for: a
\* reservation on its way, or one that a fault has stranded.
Offered(i, a) == IF open[i] # None /\ Reserved(i[1]) = a THEN open[i] ELSE 0
HeldBy(p, a) == Due(p, a) + stranded[p][a]

\* In every state, what a row has locked is what the open orders still offer,
\* what callers on their way hold, and what a named fault has stranded, unless
\* the row was saved from an outdated copy or a job ran twice: the reservation
\* of a lost job is the only one nobody can release.
LockedIsBacked ==
  \A a \in Assets \ raced :
    row[a].locked = SumFunctionOnSet([i \in Ids |-> Offered(i, a)], Ids)
                    + SumFunctionOnSet([p \in Callers |-> HeldBy(p, a)], Callers)

\* In every state, also between the saves of a close request and after faults,
\* the ledger and the rows are apart by the refunds of closed orders only, and
\* those all on the quote asset, whichever asset was refunded
\* (order.service.ts:156-163, 189-196).
RefundIsTheOnlyDrift ==
  \A a \in Assets \ raced :
    ledger[a] = row[a].available + row[a].locked - Initial
                + (IF a = "quote" THEN refunded ELSE 0)

\* A placement whose amount is locked ends with its order in the book, unless
\* the queue or the worker failed with this very order on the way: no order
\* waits for another one (queue.service.ts:14-21, order.consumer.ts:13-23).
AcceptedIsServed ==
  \A o \in Orders :
    pc[o] = "locked" ~> (open[<<o, 1>>] # None \/ stranded[o][Reserved(o)] > 0)
=============================================================================
