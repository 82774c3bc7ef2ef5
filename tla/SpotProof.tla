----------------------------- MODULE SpotProof ------------------------------
(***************************************************************************)
(* No interleaving of the unlocked writers of a balance row makes its      *)
(* available amount negative, for any orders, fills, close requests and    *)
(* faults.  A save writes what was computed from a copy, whoever has       *)
(* changed the row meanwhile; so it is the copy that must cover the order  *)
(* from the read on, not the row.                                          *)
(***************************************************************************)
EXTENDS SpotExchange, SumTheorems

USE SpotAssumption

\* Between the read and the save of lockBalance the copy covers the order.
Covered ==
  \A o \in Orders :
    pc[o] = "read" => copy[o] \in Rows /\ copy[o][Reserved(o)].available >= Size[o]

\* A fill under way takes no more than its copy of the order offers.
Filling ==
  \A f \in Fills :
    /\ pc[f] \in {"fetched", "deleted", "rows"} =>
         at[f] \in Work /\ at[f].amount <= at[f].rest
    /\ pc[f] = "rows" => copy[f] \in Rows

\* A close request that still has saves to end holds the row it read.
Closing ==
  \A c \in Closers :
    /\ pc[c] \in {"fetched", "deleted", "saving"} => at[c] \in Work
    /\ pc[c] = "saving" => copy[c] \in Rows
    /\ writes[c] # {} => pc[c] = "saving"

IInv == TypeOK /\ Covered /\ Filling /\ Closing

-----------------------------------------------------------------------------
LEMMA ReservedIsAsset == \A o \in Orders : Reserved(o) \in Assets /\ Received(o) \in Assets
  BY DEF Reserved, Received, Assets

\* Replacing the row of one asset by amounts of the right type.
LEMMA RowTypes ==
  ASSUME NEW r \in Rows, NEW a \in Assets, NEW n \in Nat, NEW k \in Int
  PROVE  [r EXCEPT ![a] = [available |-> n, locked |-> k]] \in Rows
  BY DEF Rows

LEMMA StrandTypes ==
  ASSUME TypeOK, NEW p \in Callers, NEW a \in Assets, NEW n \in Nat, Strand(p, a, n)
  PROVE  stranded' \in [Callers -> [Assets -> Nat]]
  BY DEF Strand, TypeOK

LEMMA InitialStates == Init => IInv
<1> SUFFICES ASSUME Init PROVE IInv
  OBVIOUS
<1>1. row \in Rows /\ ledger \in [Assets -> Int] /\ pending \subseteq Assets
  BY DEF Init, Rows, Assets
<1>2. /\ open \in [Ids -> (Nat \ {0}) \union {None}]
      /\ pc \in [Callers -> Steps]
      /\ copy \in [Callers -> Rows \union {None}]
      /\ at \in [Closers \union Fills -> Work \union {None}]
      /\ writes \in [Closers -> SUBSET {"row", "ledger"}]
  BY DEF Init, Steps
<1>3. /\ faults \in 0 .. MaxFaults /\ refunded \in Nat /\ raced \subseteq Assets
      /\ stranded \in [Callers -> [Assets -> Nat]]
  BY DEF Init
<1>4. TypeOK
  BY <1>1, <1>2, <1>3 DEF TypeOK
<1>5. Covered /\ Filling /\ Closing
  BY DEF Init, Covered, Filling, Closing, Callers
<1> QED
  BY <1>4, <1>5 DEF IInv

-----------------------------------------------------------------------------
\* OrderService.create and the job of the order.
LEMMA PlacementStep ==
  ASSUME IInv, NEW o \in Orders,
         \/ Check(o) \/ ReadRow(o) \/ SaveLock(o) \/ Enqueue(o)
         \/ EnqueueFails(o) \/ StartJob(o) \/ AddOrder(o) \/ JobRepeated(o)
  PROVE  IInv'
<1>0. o \in Callers /\ Reserved(o) \in Assets /\ Size[o] \in Nat \ {0}
  BY ReservedIsAsset DEF Callers
<1> USE <1>0 DEF IInv
<1>1. CASE Check(o)
  BY <1>1 DEF Check, Goto, TypeOK, Covered, Filling, Closing, Steps, Callers, history
<1>2. CASE ReadRow(o)
  <2>1. /\ pc[o] = "checked"
        /\ \/ pc' = [pc EXCEPT ![o] = "done"] /\ copy' = copy
           \/ /\ pc' = [pc EXCEPT ![o] = "read"] /\ copy' = [copy EXCEPT ![o] = row]
              /\ row[Reserved(o)].available >= Size[o]
    BY <1>2 DEF ReadRow, Goto
  <2>2. UNCHANGED <<row, ledger, open, at, writes, pending, faults, stranded, refunded, raced>>
    BY <1>2 DEF ReadRow, history
  <2>3. TypeOK'
    BY <2>1, <2>2 DEF TypeOK, Steps
  <2>4. Covered'
    BY <2>1, <2>2 DEF TypeOK, Covered, Callers
  <2>5. Filling' /\ Closing'
    BY <2>1, <2>2 DEF TypeOK, Filling, Closing, Callers
  <2> QED
    BY <2>3, <2>4, <2>5
<1>3. CASE SaveLock(o)
  <2> DEFINE a == Reserved(o)
             old == copy[o][a]
  <2>1. copy[o] \in Rows /\ old.available >= Size[o]
    BY <1>3 DEF SaveLock, Covered
  <2>2. old.available - Size[o] \in Nat /\ old.locked + Size[o] \in Int
    BY <2>1 DEF Rows
  <2>3. row' \in Rows
    BY <1>3, <2>2, RowTypes DEF SaveLock, TypeOK
  <2>4. raced' \subseteq Assets
    BY <1>3 DEF SaveLock, Outdated, TypeOK
  <2> QED
    BY <1>3, <2>3, <2>4 DEF SaveLock, Goto, TypeOK, Covered, Filling, Closing, Steps, Callers
<1>4. CASE Enqueue(o)
  BY <1>4 DEF Enqueue, Goto, TypeOK, Covered, Filling, Closing, Steps, Callers, history
<1>5. CASE EnqueueFails(o)
  <2>1. stranded' \in [Callers -> [Assets -> Nat]]
    BY <1>5, StrandTypes DEF EnqueueFails, TypeOK
  <2> QED
    BY <1>5, <2>1 DEF EnqueueFails, Goto, TypeOK, Covered, Filling, Closing, Steps, Callers
<1>6. CASE StartJob(o)
  BY <1>6 DEF StartJob, Goto, TypeOK, Covered, Filling, Closing, Steps, Callers, history
<1>7. CASE AddOrder(o)
  BY <1>7 DEF AddOrder, Goto, TypeOK, Covered, Filling, Closing, Steps, Callers, history, Ids
<1>8. CASE JobRepeated(o)
  BY <1>8 DEF JobRepeated, TypeOK, Covered, Filling, Closing, Ids
<1> QED
  BY <1>1, <1>2, <1>3, <1>4, <1>5, <1>6, <1>7, <1>8

-----------------------------------------------------------------------------
\* A fill.
LEMMA FillStep ==
  ASSUME IInv, NEW f \in Fills, ReadBook(f) \/ Take(f) \/ ReadRows(f) \/ WriteToDB(f)
  PROVE  IInv'
<1>0. f \in Callers /\ f \notin Orders /\ f \notin Closers
  BY DEF Callers
<1> USE <1>0 DEF IInv
<1>1. CASE ReadBook(f)
  <2>1. PICK i \in Ids : \E n \in 1 .. (IF open[i] = None THEN 0 ELSE open[i]) :
          at' = [at EXCEPT ![f] = [id |-> i, rest |-> open[i], amount |-> n]]
    BY <1>1 DEF ReadBook
  <2>a. PICK n \in 1 .. (IF open[i] = None THEN 0 ELSE open[i]) :
          at' = [at EXCEPT ![f] = [id |-> i, rest |-> open[i], amount |-> n]]
    BY <2>1
  <2>2. open[i] # None /\ open[i] \in Nat \ {0} /\ n \in Nat \ {0} /\ n <= open[i]
    BY <2>a DEF TypeOK
  <2>3. [id |-> i, rest |-> open[i], amount |-> n] \in Work
    BY <2>2 DEF Work
  <2> QED
    BY <1>1, <2>a, <2>2, <2>3
       DEF ReadBook, Goto, TypeOK, Covered, Filling, Closing, Steps, Callers, history, Work
<1>2. CASE Take(f)
  <2>1. at[f] \in Work /\ at[f].amount <= at[f].rest
    BY <1>2 DEF Take, Filling
  <2>2. \A i \in Ids : open'[i] \in Nat \ {0} \/ open'[i] = None
    <3>1. at[f].amount # at[f].rest => at[f].rest - at[f].amount \in Nat \ {0}
      BY <2>1 DEF Work
    <3> QED
      BY <1>2, <3>1 DEF Take, TypeOK
  <2> QED
    BY <1>2, <2>1, <2>2 DEF Take, Goto, TypeOK, Covered, Filling, Closing, Steps, Callers
<1>3. CASE ReadRows(f)
  BY <1>3 DEF ReadRows, Goto, TypeOK, Covered, Filling, Closing, Steps, Callers, history
<1>4. CASE WriteToDB(f)
  <2> DEFINE o == at[f].id[1]
             n == at[f].amount
  <2>1. at[f] \in Work /\ copy[f] \in Rows
    BY <1>4 DEF WriteToDB, Filling
  <2>2. o \in Orders /\ n \in Nat
    BY <2>1 DEF Work, Ids
  <2>3. Reserved(o) \in Assets /\ Received(o) \in Assets
    BY <2>2, ReservedIsAsset
  <2>4. row' \in Rows
    BY <1>4, <2>1, <2>2 DEF WriteToDB, Rows
  <2>5. ledger' \in [Assets -> Int]
    BY <1>4, <2>2, <2>3 DEF WriteToDB, AddTo, TypeOK
  <2>6. raced' \subseteq Assets
    BY <1>4 DEF WriteToDB, Outdated, TypeOK
  <2> QED
    BY <1>4, <2>4, <2>5, <2>6 DEF WriteToDB, Goto, TypeOK, Covered, Filling, Closing, Steps, Callers
<1> QED
  BY <1>1, <1>2, <1>3, <1>4

-----------------------------------------------------------------------------
\* The end of one save of a close request keeps what concerns its program point.
LEMMA EndedStep ==
  ASSUME IInv, NEW c \in Closers, NEW w, w \in writes[c], Ended(c, w),
         row' \in Rows, ledger' \in [Assets -> Int], raced' \subseteq Assets, refunded' \in Nat,
         UNCHANGED <<open, pending, faults, stranded>>
  PROVE  IInv'
<1>1. pc[c] = "saving" /\ c \in Callers /\ c \notin Orders /\ c \notin Fills
  BY DEF IInv, Closing, Callers
<1>2. CASE writes[c] = {w}
  <2>1. /\ writes' = [writes EXCEPT ![c] = {}] /\ pc' = [pc EXCEPT ![c] = "done"]
        /\ copy' = [copy EXCEPT ![c] = None] /\ at' = [at EXCEPT ![c] = None]
    BY <1>2 DEF Ended, Goto
  <2>2. TypeOK'
    BY <1>1, <2>1 DEF IInv, TypeOK, Steps
  <2> QED
    BY <1>1, <2>1, <2>2 DEF IInv, TypeOK, Covered, Filling, Closing, Callers
<1>3. CASE writes[c] # {w}
  BY <1>1, <1>3 DEF Ended, IInv, TypeOK, Covered, Filling, Closing
<1> QED
  BY <1>2, <1>3

\* OrderService.closeOrder.
LEMMA CloseStep ==
  ASSUME IInv, NEW c \in Closers,
         \/ Fetch(c) \/ Delete(c) \/ ReadForRefund(c)
         \/ SaveRefund(c) \/ RefundLedger(c) \/ CloseFails(c)
  PROVE  IInv'
<1>0. c \in Callers /\ c \notin Orders /\ c \notin Fills
  BY DEF Callers
<1> USE <1>0 DEF IInv
<1>1. CASE Fetch(c)
  <2>1. PICK i \in Ids : open[i] # None /\
          at' = [at EXCEPT ![c] = [id |-> i, rest |-> open[i], amount |-> open[i]]]
    BY <1>1 DEF Fetch
  <2>2. [id |-> i, rest |-> open[i], amount |-> open[i]] \in Work
    BY <2>1 DEF TypeOK, Work
  <2> QED
    BY <1>1, <2>1, <2>2
       DEF Fetch, Goto, TypeOK, Covered, Filling, Closing, Steps, Callers, history, Work
<1>2. CASE Delete(c)
  BY <1>2 DEF Delete, Goto, TypeOK, Covered, Filling, Closing, Steps, Callers
<1>3. CASE ReadForRefund(c)
  BY <1>3 DEF ReadForRefund, Goto, TypeOK, Covered, Filling, Closing, Steps, Callers, history
<1>4. ASSUME NEW w, w \in writes[c]
      PROVE  /\ at[c] \in Work /\ copy[c] \in Rows
             /\ Reserved(at[c].id[1]) \in Assets
  BY <1>4, ReservedIsAsset DEF Closing, Work, Ids
<1>5. CASE SaveRefund(c)
  <2> DEFINE a == Reserved(at[c].id[1])
             n == at[c].rest
             old == copy[c][a]
  <2>1. at[c] \in Work /\ copy[c] \in Rows /\ a \in Assets
    BY <1>4, <1>5 DEF SaveRefund
  <2>2. old.available + n \in Nat /\ old.locked - n \in Int
    BY <2>1 DEF Work, Rows
  <2>3. row' \in Rows
    BY <1>5, <2>1, <2>2, RowTypes DEF SaveRefund, TypeOK
  <2>4. raced' \subseteq Assets
    BY <1>5, <2>1 DEF SaveRefund, Outdated, TypeOK
  <2> QED
    BY <1>5, <2>3, <2>4, EndedStep DEF SaveRefund, TypeOK
<1>6. CASE RefundLedger(c)
  <2>1. at[c] \in Work
    BY <1>4, <1>6 DEF RefundLedger
  <2>2. ledger' \in [Assets -> Int] /\ refunded' \in Nat
    BY <1>6, <2>1 DEF RefundLedger, AddTo, TypeOK, Work, Assets
  <2> QED
    BY <1>6, <2>2, EndedStep DEF RefundLedger, TypeOK
<1>7. CASE CloseFails(c)
  <2>1. at[c] \in Work
    BY <1>7 DEF CloseFails, Closing
  <2>2. Reserved(at[c].id[1]) \in Assets /\ at[c].rest \in Nat
    BY <2>1, ReservedIsAsset DEF Work, Ids
  <2>3. stranded' \in [Callers -> [Assets -> Nat]]
    BY <1>7, <2>2, StrandTypes DEF CloseFails, TypeOK
  <2>a. /\ pc' = [pc EXCEPT ![c] = "done"] /\ writes' = [writes EXCEPT ![c] = {}]
        /\ copy' = [copy EXCEPT ![c] = None] /\ at' = [at EXCEPT ![c] = None]
        /\ faults' = faults + 1 /\ faults < MaxFaults
        /\ UNCHANGED <<row, ledger, open, pending, refunded, raced>>
    BY <1>7 DEF CloseFails, Goto
  <2>4. TypeOK'
    BY <2>3, <2>a DEF TypeOK, Steps
  <2> QED
    BY <1>7, <2>4 DEF CloseFails, Goto, TypeOK, Covered, Filling, Closing, Callers
<1> QED
  BY <1>1, <1>2, <1>3, <1>5, <1>6, <1>7

-----------------------------------------------------------------------------
\* What a handler of the worker held is an amount.
LEMMA DueTypes ==
  ASSUME IInv, NEW p \in Orders \union Fills, NEW a \in Assets
  PROVE  Due(p, a) \in Nat
<1>1. CASE p \in Orders
  BY <1>1 DEF Due
<1>2. CASE p \in Fills
  <2>1. pc[p] \in {"deleted", "rows"} => at[p].amount \in Nat
    BY <1>2 DEF IInv, Filling, Work
  <2> QED
    BY <1>2, <2>1 DEF Due
<1> QED
  BY <1>1, <1>2

LEMMA DeathStep == ASSUME IInv, WorkerDies PROVE IInv'
<1> DEFINE dead == {p \in Callers : InWorker(p)}
<1>1. dead \subseteq Orders \union Fills
  BY DEF InWorker
<1>2. stranded' \in [Callers -> [Assets -> Nat]]
  <2>1. \A p \in dead, a \in Assets : Due(p, a) \in Nat
    BY <1>1, DueTypes
  <2>2. stranded' = [p \in Callers |-> [a \in Assets |->
                       stranded[p][a] + IF p \in dead THEN Due(p, a) ELSE 0]]
    BY DEF WorkerDies
  <2>3. \A p \in Callers, a \in Assets : stranded[p][a] \in Nat
    BY DEF IInv, TypeOK
  <2> HIDE DEF dead
  <2> QED
    BY <2>1, <2>2, <2>3
<1>3. TypeOK'
  BY <1>2 DEF WorkerDies, IInv, TypeOK, Steps
<1>4. Closing'
  <2>1. \A c \in Closers : c \in Callers /\ c \notin dead
    BY <1>1 DEF Callers
  <2> QED
    BY <2>1 DEF WorkerDies, IInv, Closing
<1>5. Covered' /\ Filling'
  BY DEF WorkerDies, IInv, Covered, Filling, Callers
<1> QED
  BY <1>3, <1>4, <1>5 DEF IInv

-----------------------------------------------------------------------------
\* The invariant is inductive.
LEMMA Step == IInv /\ [Next]_vars => IInv'
<1> SUFFICES ASSUME IInv, [Next]_vars PROVE IInv'
  OBVIOUS
<1>1. ASSUME NEW a \in Assets, Credit(a) PROVE IInv'
  <2>1. row' \in Rows /\ ledger' \in [Assets -> Int]
    BY <1>1 DEF Credit, AddTo, IInv, TypeOK, Rows
  <2> QED
    BY <1>1, <2>1 DEF Credit, IInv, TypeOK, Covered, Filling, Closing, history
<1>2. CASE UNCHANGED vars
  BY <1>2 DEF vars, IInv, TypeOK, Covered, Filling, Closing
<1>3. CASE Terminated
  BY <1>2, <1>3 DEF Terminated
<1> QED
  BY <1>1, <1>2, <1>3, PlacementStep, FillStep, CloseStep, DeathStep DEF Next

\* The inductive invariant holds in every behaviour of the exchange.
THEOREM Invariance == Spec => []IInv
  BY InitialStates, Step, PTL DEF Spec

\* Every variable keeps its type: no available amount is ever negative, although
\* placement, closing and the engine save rows they have not locked.
THEOREM NeverNegative == Spec => []TypeOK
  BY Invariance, PTL DEF IInv

\* lockBalance saves only what the row it read covers (balance.service.ts:225-245).
THEOREM LockIsCovered == Spec => []Covered
  BY Invariance, PTL DEF IInv

-----------------------------------------------------------------------------
(***************************************************************************)
(* What is locked.  The two sums of LockedIsBacked change at one order and *)
(* at one caller in every step but the death of the worker, which moves    *)
(* what each caller stood for to what is stranded.                         *)
(***************************************************************************)
Offers(a) == SumFunctionOnSet([i \in Ids |-> Offered(i, a)], Ids)
Holdings(a) == SumFunctionOnSet([p \in Callers |-> HeldBy(p, a)], Callers)

\* An order is in the book, or in the hands of a caller, after its placement only.
Works(p) == pc[p] \in {"fetched", "deleted", IF p \in Fills THEN "rows" ELSE "saving"}
Placed ==
  /\ \A i \in Ids : open[i] # None => pc[i[1]] = "done"
  /\ \A p \in Closers \union Fills : Works(p) => pc[at[p].id[1]] = "done"

BInv == IInv /\ Placed /\ LockedIsBacked /\ RefundIsTheOnlyDrift

LEMMA FiniteIndices == IsFiniteSet(Ids) /\ IsFiniteSet(Callers)
<1>1. IsFiniteSet({1, 2})
  <2>1. IsFiniteSet({1}) /\ IsFiniteSet({2})
    BY FS_Singleton
  <2>2. {1, 2} = {1} \union {2} 
    OBVIOUS
  <2>3. IsFiniteSet({1} \union {2})
    BY <2>1, FS_Union
  <2> QED
    BY <2>2, <2>3
<1>2. IsFiniteSet(Ids)
  BY <1>1, FS_Product DEF Ids
<1>3. IsFiniteSet(Orders \union Closers)
  BY FS_Union
<1>4. IsFiniteSet(Callers)
  BY <1>3, FS_Union DEF Callers
<1> QED
  BY <1>2, <1>4

AmountsOK ==
  \A a \in Assets :
    /\ \A p \in Callers : Due(p, a) \in Nat /\ stranded[p][a] \in Nat /\ HeldBy(p, a) \in Nat
    /\ \A i \in Ids : Offered(i, a) \in Nat

LEMMA HeldTypes == IInv => AmountsOK
<1> SUFFICES ASSUME IInv, NEW a \in Assets
             PROVE  /\ \A p \in Callers : Due(p, a) \in Nat /\ stranded[p][a] \in Nat /\ HeldBy(p, a) \in Nat
                    /\ \A i \in Ids : Offered(i, a) \in Nat
  BY DEF AmountsOK
<1>1. \A p \in Callers : Due(p, a) \in Nat
  <2> SUFFICES ASSUME NEW p \in Callers PROVE Due(p, a) \in Nat
    OBVIOUS
  <2>1. CASE p \in Orders \union Fills
    BY <2>1, DueTypes
  <2>2. CASE p \in Closers
    <3>1. pc[p] \in {"deleted", "saving"} => at[p].rest \in Nat
      BY <2>2 DEF IInv, Closing, Work
    <3> QED
      BY <2>2, <3>1 DEF Due
  <2> QED
    BY <2>1, <2>2 DEF Callers
<1>2. \A p \in Callers : stranded[p][a] \in Nat
  BY DEF IInv, TypeOK
<1>3. \A i \in Ids : Offered(i, a) \in Nat
  BY DEF Offered, IInv, TypeOK
<1> QED
  BY <1>1, <1>2, <1>3 DEF HeldBy

LEMMA OffersChange ==
  ASSUME AmountsOK, AmountsOK', NEW a \in Assets, NEW i \in Ids,
         \A k \in Ids \ {i} : open'[k] = open[k]
  PROVE  /\ Offers(a)' = Offers(a) - Offered(i, a) + Offered(i, a)'
         /\ Offers(a) \in Int
<1> DEFINE f == [k \in Ids |-> Offered(k, a)]
           g == [k \in Ids |-> Offered(k, a)']
<1>1. \A k \in Ids : f[k] \in Int /\ g[k] \in Int
  BY AmountsOK, AmountsOK' DEF AmountsOK
<1>2. \A k \in Ids \ {i} : f[k] = g[k]
  BY DEF Offered
<1> HIDE DEF f, g
<1>3. SumFunctionOnSet(g, Ids) = SumFunctionOnSet(f, Ids) - f[i] + g[i]
  <2>1. IsFiniteSet(Ids)
    BY FiniteIndices
  <2> HIDE SpotAssumption
  <2>2. \A x \in Ids \ {i} : f[x] = g[x]
    BY <1>2
  <2> QED
    BY <1>1, <2>1, <2>2, SumChange
<1>4. SumFunctionOnSet(f, Ids) \in Int
  BY <1>1, FiniteIndices, SumElement
<1> QED
  BY <1>3, <1>4 DEF f, g, Offers

LEMMA OffersSame ==
  ASSUME UNCHANGED open, NEW a \in Assets
  PROVE  Offers(a)' = Offers(a)
  BY DEF Offers, Offered

LEMMA HoldingsTypes ==
  ASSUME AmountsOK, NEW a \in Assets
  PROVE  Holdings(a) \in Int /\ Offers(a) \in Int
<1> DEFINE f == [p \in Callers |-> HeldBy(p, a)]
           g == [i \in Ids |-> Offered(i, a)]
<1>1. (\A p \in Callers : f[p] \in Int) /\ (\A i \in Ids : g[i] \in Int)
  BY DEF AmountsOK
<1> HIDE DEF f, g
<1>2. SumFunctionOnSet(f, Callers) \in Int /\ SumFunctionOnSet(g, Ids) \in Int
  BY <1>1, FiniteIndices, SumElement
<1> QED
  BY <1>2 DEF f, g, Holdings, Offers

LEMMA HoldingsChange ==
  ASSUME AmountsOK, AmountsOK', NEW a \in Assets, NEW p \in Callers,
         \A q \in Callers \ {p} : HeldBy(q, a)' = HeldBy(q, a)
  PROVE  Holdings(a)' = Holdings(a) - HeldBy(p, a) + HeldBy(p, a)'
<1> DEFINE f == [q \in Callers |-> HeldBy(q, a)]
           g == [q \in Callers |-> HeldBy(q, a)']
<1>1. \A q \in Callers : f[q] \in Int /\ g[q] \in Int
  BY AmountsOK, AmountsOK' DEF AmountsOK
<1>2. \A q \in Callers \ {p} : f[q] = g[q]
  OBVIOUS
<1> HIDE DEF f, g
<1>3. SumFunctionOnSet(g, Callers) = SumFunctionOnSet(f, Callers) - f[p] + g[p]
  BY <1>1, <1>2, FiniteIndices, SumChange
<1> QED
  BY <1>3 DEF f, g, Holdings

LEMMA HoldingsSame ==
  ASSUME NEW a \in Assets, \A q \in Callers : HeldBy(q, a)' = HeldBy(q, a)
  PROVE  Holdings(a)' = Holdings(a)
  BY DEF Holdings

\* A caller whose part of the state stays as it is stands for what it did.
LEMMA OtherHolds ==
  ASSUME NEW q \in Callers, NEW a \in Assets,
         pc'[q] = pc[q], stranded'[q] = stranded[q],
         q \notin Orders => at'[q] = at[q], q \in Closers => writes'[q] = writes[q]
  PROVE  HeldBy(q, a)' = HeldBy(q, a)
  BY DEF HeldBy, Due, Callers

\* A step of caller p on order i that moves an amount between the row, the
\* book and what p stands for.
LEMMA OneMoves ==
  ASSUME AmountsOK, AmountsOK', row \in Rows, row' \in Rows, raced \subseteq raced',
         LockedIsBacked, NEW p \in Callers, NEW i \in Ids,
         \A k \in Ids \ {i} : open'[k] = open[k],
         \A q \in Callers \ {p} : /\ pc'[q] = pc[q] /\ stranded'[q] = stranded[q]
                                  /\ q \notin Orders => at'[q] = at[q]
                                  /\ q \in Closers => writes'[q] = writes[q],
         \A a \in Assets \ raced' :
           row'[a].locked - Offered(i, a)' - HeldBy(p, a)'
             = row[a].locked - Offered(i, a) - HeldBy(p, a)
  PROVE  LockedIsBacked'
<1> SUFFICES ASSUME NEW a \in Assets, a \notin raced'
             PROVE  row'[a].locked = Offers(a)' + Holdings(a)'
  BY DEF LockedIsBacked, Offers, Holdings
<1>1. row[a].locked = Offers(a) + Holdings(a)
  BY DEF LockedIsBacked, Offers, Holdings
<1>2. Offers(a)' = Offers(a) - Offered(i, a) + Offered(i, a)'
  BY OffersChange
<1>3. \A q \in Callers \ {p} : HeldBy(q, a)' = HeldBy(q, a)
  BY OtherHolds
<1>4. Holdings(a)' = Holdings(a) - HeldBy(p, a) + HeldBy(p, a)'
  BY <1>3, HoldingsChange
<1>5. /\ Offers(a) \in Int /\ Holdings(a) \in Int /\ row[a].locked \in Int /\ row'[a].locked \in Int
      /\ Offered(i, a) \in Int /\ HeldBy(p, a) \in Int
      /\ Offered(i, a)' \in Int /\ HeldBy(p, a)' \in Int
  BY HoldingsTypes DEF AmountsOK, Rows
<1>6. row'[a].locked - Offered(i, a)' - HeldBy(p, a)'
        = row[a].locked - Offered(i, a) - HeldBy(p, a)
  OBVIOUS
<1> HIDE SpotAssumption
<1> QED
  BY <1>1, <1>2, <1>4, <1>5, <1>6

\* A step that changes ledger and row by the same amount keeps them as far apart.
LEMMA DriftStep ==
  ASSUME IInv, IInv', RefundIsTheOnlyDrift, raced \subseteq raced', refunded' = refunded,
         \A a \in Assets \ raced' :
           ledger'[a] - row'[a].available - row'[a].locked
             = ledger[a] - row[a].available - row[a].locked
  PROVE  RefundIsTheOnlyDrift'
<1> SUFFICES ASSUME NEW a \in Assets, a \notin raced'
             PROVE  ledger'[a] = row'[a].available + row'[a].locked - Initial
                                 + (IF a = "quote" THEN refunded' ELSE 0)
  BY DEF RefundIsTheOnlyDrift
<1> DEFINE rest == IF a = "quote" THEN refunded ELSE 0
<1>1. ledger[a] = row[a].available + row[a].locked - Initial + rest
  BY DEF RefundIsTheOnlyDrift
<1>2. /\ row[a].available \in Int /\ row[a].locked \in Int /\ row'[a].available \in Int
      /\ row'[a].locked \in Int /\ ledger[a] \in Int /\ ledger'[a] \in Int
      /\ Initial \in Int /\ rest \in Int
  BY DEF IInv, TypeOK, Rows
<1>3. rest = IF a = "quote" THEN refunded' ELSE 0
  OBVIOUS
<1> HIDE DEF rest
<1> QED
  BY <1>1, <1>2, <1>3

\* OrderService.create and the job of the order.
LEMMA PlacementBacked ==
  ASSUME BInv, AmountsOK, AmountsOK', IInv', NEW o \in Orders,
         \/ Check(o) \/ ReadRow(o) \/ SaveLock(o) \/ Enqueue(o)
         \/ EnqueueFails(o) \/ StartJob(o) \/ AddOrder(o) \/ JobRepeated(o)
  PROVE  LockedIsBacked' /\ Placed' /\ RefundIsTheOnlyDrift'
<1> DEFINE i == <<o, 1>>
<1>0. /\ o \in Callers /\ o \notin Closers /\ o \notin Fills /\ Reserved(o) \in Assets
      /\ Size[o] \in Nat \ {0} /\ i \in Ids /\ row \in Rows /\ row' \in Rows
      /\ pc \in [Callers -> Steps] /\ stranded \in [Callers -> [Assets -> Nat]]
  BY ReservedIsAsset DEF Callers, Ids, BInv, IInv, TypeOK
<1>1. \A a \in Assets : /\ HeldBy(o, a) = (IF pc[o] \in {"locked", "queued", "running"} /\ Reserved(o) = a
                                           THEN Size[o] ELSE 0) + stranded[o][a]
                        /\ HeldBy(o, a)' = (IF pc'[o] \in {"locked", "queued", "running"} /\ Reserved(o) = a
                                           THEN Size[o] ELSE 0) + stranded'[o][a]
  BY DEF HeldBy, Due
<1>2. CASE Check(o) \/ ReadRow(o) \/ Enqueue(o) \/ StartJob(o)
  <2>1. /\ UNCHANGED <<row, ledger, open, at, writes, stranded, refunded, raced>>
        /\ \E step \in Steps : pc' = [pc EXCEPT ![o] = step]
        /\ pc[o] # "done"
        /\ \A a \in Assets : HeldBy(o, a)' = HeldBy(o, a)
    BY <1>0, <1>1, <1>2 DEF Check, ReadRow, Enqueue, StartJob, Goto, history, Steps
  <2>2. LockedIsBacked'
    BY <1>0, <2>1, OneMoves DEF BInv, Offered
  <2>3. Placed'
    BY <1>0, <2>1 DEF BInv, Placed, Works, IInv, TypeOK, Callers, Ids
  <2> QED
    BY <2>1, <2>2, <2>3 DEF BInv, RefundIsTheOnlyDrift
<1>3. CASE SaveLock(o)
  <2> DEFINE old == copy[o][Reserved(o)]
  <2>1. /\ pc[o] = "read" /\ pc' = [pc EXCEPT ![o] = "locked"]
        /\ row' = [row EXCEPT ![Reserved(o)] = [available |-> old.available - Size[o],
                                                locked |-> old.locked + Size[o]]]
        /\ raced' = raced \union Outdated(copy[o], {Reserved(o)})
        /\ UNCHANGED <<ledger, open, at, writes, stranded, refunded>>
    BY <1>3 DEF SaveLock, Goto
  <2>2. Reserved(o) \notin raced' => old = row[Reserved(o)]
    BY <2>1, <1>0 DEF Outdated
  <2>3. \A a \in Assets : HeldBy(o, a)' = HeldBy(o, a) + IF a = Reserved(o) THEN Size[o] ELSE 0
    BY <1>0, <1>1, <2>1 DEF AmountsOK
  <2>4. \A a \in Assets \ raced' :
          /\ row'[a].locked = row[a].locked + IF a = Reserved(o) THEN Size[o] ELSE 0
          /\ row'[a].available = row[a].available - IF a = Reserved(o) THEN Size[o] ELSE 0
    BY <1>0, <2>1, <2>2 DEF Rows
  <2>5. \A a \in Assets : Offered(i, a)' = Offered(i, a) /\ Offered(i, a) \in Int /\ HeldBy(o, a) \in Int
    BY <1>0, <2>1 DEF Offered, AmountsOK
  <2>6. LockedIsBacked'
    <3>1. \A a \in Assets \ raced' :
           row'[a].locked - Offered(i, a)' - HeldBy(o, a)'
             = row[a].locked - Offered(i, a) - HeldBy(o, a)
      <4> TAKE a \in Assets \ raced'
      <4>1. row[a].locked \in Int /\ row'[a].locked \in Int
        BY <1>0 DEF Rows
      <4> QED
        BY <1>0, <2>3, <2>4, <2>5, <4>1
    <3> QED
      BY <1>0, <2>1, <3>1, OneMoves DEF BInv
  <2>7. Placed'
    BY <1>0, <2>1 DEF BInv, Placed, Works, IInv, TypeOK, Callers, Ids, Steps
  <2>8. RefundIsTheOnlyDrift'
    <3> SUFFICES ASSUME NEW a \in Assets, a \notin raced'
                 PROVE  ledger'[a] = row'[a].available + row'[a].locked - Initial
                                     + (IF a = "quote" THEN refunded' ELSE 0)
      BY DEF RefundIsTheOnlyDrift
    <3>1. row[a].locked \in Int /\ row[a].available \in Int
      BY <1>0 DEF Rows
    <3>2. row'[a].available + row'[a].locked = row[a].available + row[a].locked
      BY <1>0, <2>4, <3>1
    <3>3. a \notin raced
      BY <2>1
    <3> DEFINE rest == IF a = "quote" THEN refunded ELSE 0
    <3>4. ledger[a] = row[a].available + row[a].locked - Initial + rest
      BY <3>3 DEF BInv, RefundIsTheOnlyDrift
    <3>5. ledger' = ledger /\ refunded' = refunded
      BY <2>1
    <3>6. row'[a].locked \in Int /\ row'[a].available \in Int /\ refunded \in Int /\ Initial \in Int
      BY <1>0 DEF Rows, BInv, IInv, TypeOK
    <3>7. rest \in Int /\ (IF a = "quote" THEN refunded' ELSE 0) = rest
      BY <3>5, <3>6
    <3> HIDE DEF rest
    <3> QED
      BY <3>1, <3>2, <3>4, <3>5, <3>6, <3>7
  <2> QED
    BY <2>6, <2>7, <2>8
<1>5. CASE EnqueueFails(o)
  <2>1. /\ pc[o] = "locked" /\ pc' = [pc EXCEPT ![o] = "done"]
        /\ stranded' = [stranded EXCEPT ![o][Reserved(o)] = @ + Size[o]]
        /\ UNCHANGED <<row, ledger, open, at, writes, refunded, raced>>
    BY <1>5 DEF EnqueueFails, Goto, Strand
  <2>2. \A a \in Assets : HeldBy(o, a)' = HeldBy(o, a)
    BY <1>0, <1>1, <2>1 DEF AmountsOK
  <2>3. LockedIsBacked'
    BY <1>0, <2>1, <2>2, OneMoves DEF BInv, Offered
  <2>4. Placed'
    BY <1>0, <2>1 DEF BInv, Placed, Works, IInv, TypeOK, Callers, Ids, Steps
  <2> QED
    BY <2>1, <2>3, <2>4 DEF BInv, RefundIsTheOnlyDrift
<1>6. CASE AddOrder(o)
  <2>1. /\ pc[o] = "running" /\ pc' = [pc EXCEPT ![o] = "done"]
        /\ open' = [open EXCEPT ![i] = Size[o]]
        /\ UNCHANGED <<row, ledger, at, writes, stranded, refunded, raced>>
    BY <1>6 DEF AddOrder, Goto, history
  <2>2. open[i] = None /\ i[1] = o /\ open'[i] = Size[o] /\ Size[o] # None
    BY <1>0, <2>1 DEF BInv, Placed, Works, IInv, TypeOK
  <2>3. \A a \in Assets : /\ HeldBy(o, a)' = HeldBy(o, a) - IF a = Reserved(o) THEN Size[o] ELSE 0
                          /\ HeldBy(o, a) \in Int
    BY <1>0, <1>1, <2>1 DEF AmountsOK
  <2>4. \A a \in Assets : /\ Offered(i, a) = 0
                          /\ Offered(i, a)' = IF a = Reserved(o) THEN Size[o] ELSE 0
    BY <2>2 DEF Offered
  <2>5. LockedIsBacked'
    <3>1. \A a \in Assets \ raced' :
           row'[a].locked - Offered(i, a)' - HeldBy(o, a)'
             = row[a].locked - Offered(i, a) - HeldBy(o, a)
      <4> TAKE a \in Assets \ raced'
      <4>1. row[a].locked \in Int /\ row'[a] = row[a]
        BY <1>0, <2>1 DEF Rows
      <4> DEFINE d == IF a = Reserved(o) THEN Size[o] ELSE 0
      <4>2. d \in Nat
        BY <1>0
      <4>3. Offered(i, a) = 0 /\ Offered(i, a)' = d
        BY <2>4
      <4>4. HeldBy(o, a)' = HeldBy(o, a) - d /\ HeldBy(o, a) \in Int
        BY <2>3
      <4> HIDE DEF d, i
      <4> QED
        BY <4>1, <4>2, <4>3, <4>4
    <3>2. \A k \in Ids \ {i} : open'[k] = open[k]
      BY <2>1
    <3> QED
      BY <1>0, <2>1, <3>1, <3>2, OneMoves DEF BInv
  <2>6. Placed'
    BY <1>0, <2>1, <2>2 DEF BInv, Placed, Works, IInv, TypeOK, Callers, Ids, Steps
  <2> QED
    BY <2>1, <2>5, <2>6 DEF BInv, RefundIsTheOnlyDrift
<1>7. CASE JobRepeated(o)
  <2> DEFINE k == <<o, 2>>
  <2>1. /\ pc[o] = "done" /\ open' = [open EXCEPT ![k] = Size[o]]
        /\ raced' = raced \union {Reserved(o)}
        /\ UNCHANGED <<row, ledger, pc, at, writes, stranded, refunded>>
    BY <1>7 DEF JobRepeated
  <2>2. k \in Ids /\ k[1] = o
    BY DEF Ids
  <2>3. \A a \in Assets \ raced' : Offered(k, a)' = 0 /\ Offered(k, a) = 0
    BY <2>1, <2>2 DEF Offered
  <2>4. \A a \in Assets : HeldBy(o, a)' = HeldBy(o, a)
    BY <1>1, <2>1
  <2>5. LockedIsBacked'
    <3>1. \A a \in Assets \ raced' :
           row'[a].locked - Offered(k, a)' - HeldBy(o, a)'
             = row[a].locked - Offered(k, a) - HeldBy(o, a)
      BY <2>1, <2>3, <2>4
    <3>2. \A l \in Ids \ {k} : open'[l] = open[l]
      BY <2>1
    <3> HIDE DEF k
    <3> QED
      BY <1>0, <2>1, <2>2, <3>1, <3>2, OneMoves DEF BInv
  <2>6. Placed'
    BY <1>0, <2>1, <2>2 DEF BInv, Placed, Works, IInv, TypeOK, Ids
  <2> QED
    BY <2>1, <2>5, <2>6 DEF BInv, RefundIsTheOnlyDrift
<1> QED
  BY <1>2, <1>3, <1>5, <1>6, <1>7

\* A fill.
LEMMA FillBacked ==
  ASSUME BInv, AmountsOK, AmountsOK', IInv', NEW f \in Fills,
         ReadBook(f) \/ Take(f) \/ ReadRows(f) \/ WriteToDB(f)
  PROVE  LockedIsBacked' /\ Placed' /\ RefundIsTheOnlyDrift'
<1>0. /\ f \in Callers /\ f \notin Closers /\ f \notin Orders /\ row \in Rows /\ row' \in Rows
      /\ pc \in [Callers -> Steps] /\ at \in [Closers \union Fills -> Work \union {None}]
      /\ open \in [Ids -> (Nat \ {0}) \union {None}]
  BY DEF Callers, BInv, IInv, TypeOK
<1>1. \A a \in Assets : /\ HeldBy(f, a) = (IF pc[f] \in {"deleted", "rows"} /\ Reserved(at[f].id[1]) = a
                                           THEN at[f].amount ELSE 0) + stranded[f][a]
                        /\ HeldBy(f, a)' = (IF pc'[f] \in {"deleted", "rows"} /\ Reserved(at'[f].id[1]) = a
                                           THEN at'[f].amount ELSE 0) + stranded'[f][a]
  BY <1>0 DEF HeldBy, Due
<1>2. CASE ReadBook(f)
  <2>1. PICK i \in Ids : \E n \in 1 .. (IF open[i] = None THEN 0 ELSE open[i]) :
          at' = [at EXCEPT ![f] = [id |-> i, rest |-> open[i], amount |-> n]]
    BY <1>2 DEF ReadBook
  <2>2. /\ pc[f] = "new" /\ pc' = [pc EXCEPT ![f] = "fetched"]
        /\ UNCHANGED <<row, ledger, open, writes, stranded, refunded, raced>>
    BY <1>2 DEF ReadBook, Goto, history
  <2>3. at'[f].id = i /\ open[i] # None
    BY <1>0, <2>1
  <2>4. \A a \in Assets : HeldBy(f, a)' = HeldBy(f, a)
    BY <1>0, <1>1, <2>2
  <2>5. LockedIsBacked'
    <3>1. \A q \in Callers \ {f} : q \notin Orders => at'[q] = at[q]
      BY <2>1
    <3> QED
      BY <1>0, <2>2, <2>4, <3>1, OneMoves DEF BInv, Offered
  <2>6. Placed'
    BY <1>0, <2>1, <2>2, <2>3 DEF BInv, Placed, Works, Callers, Ids
  <2> QED
    BY <2>2, <2>5, <2>6 DEF BInv, RefundIsTheOnlyDrift
<1>3. CASE Take(f)
  <2>2. /\ pc[f] = "fetched" /\ at[f] \in Work /\ at[f].amount <= at[f].rest
        /\ pc[at[f].id[1]] = "done"
    BY <1>0, <1>3 DEF Take, BInv, IInv, Filling, Placed, Works
  <2>a. PICK i \in Ids, n \in Nat \ {0}, m \in Nat \ {0} :
          i = at[f].id /\ n = at[f].amount /\ m = at[f].rest
    BY <2>2 DEF Work
  <2>b. i[1] \in Orders /\ n <= m
    BY <2>2, <2>a DEF Ids
  <2>1. /\ pc' = [pc EXCEPT ![f] = "deleted"]
        /\ open' = [open EXCEPT ![i] = IF n = m THEN None ELSE m - n]
        /\ raced' = IF open[i] = m THEN raced ELSE Assets
        /\ UNCHANGED <<row, ledger, at, writes, stranded, refunded>>
    BY <1>3, <2>a DEF Take, Goto
  <2> DEFINE gained(a) == IF Reserved(i[1]) = a THEN n ELSE 0
  <2>3. raced \subseteq raced'
    BY <2>1 DEF BInv, IInv, TypeOK
  <2>4. \A a \in Assets : /\ HeldBy(f, a)' = HeldBy(f, a) + gained(a)
                          /\ HeldBy(f, a) \in Int /\ gained(a) \in Int
    BY <1>0, <1>1, <2>1, <2>2, <2>a DEF AmountsOK
  <2>5. \A a \in Assets \ raced' : /\ Offered(i, a)' = Offered(i, a) - gained(a)
                                   /\ Offered(i, a) \in Int
    <3> TAKE a \in Assets \ raced'
    <3>1. open[i] = m
      BY <2>1
    <3>2. open'[i] = IF n = m THEN None ELSE m - n
      BY <1>0, <2>1, <2>2
    <3>3. m # None /\ (n # m => m - n # None)
      BY <2>b
    <3> QED
      BY <2>b, <3>1, <3>2, <3>3 DEF Offered
  <2>6. LockedIsBacked'
    <3>1. \A a \in Assets \ raced' :
           row'[a].locked - Offered(i, a)' - HeldBy(f, a)'
             = row[a].locked - Offered(i, a) - HeldBy(f, a)
      <4> TAKE a \in Assets \ raced'
      <4>1. row[a].locked \in Int /\ row'[a] = row[a]
        BY <1>0, <2>1 DEF Rows
      <4> HIDE DEF gained
      <4> QED
        BY <2>4, <2>5, <4>1
    <3>2. \A k \in Ids \ {i} : open'[k] = open[k]
      BY <2>1
    <3> QED
      BY <1>0, <2>1, <2>3, <3>1, <3>2, OneMoves DEF BInv
  <2>7. Placed'
    <3>1. \A k \in Ids : pc'[k[1]] = pc[k[1]] /\ (open'[k] # None => open[k] # None \/ k = i)
      BY <1>0, <2>1 DEF Ids, Callers
    <3>2. \A p \in Closers \union Fills : pc'[p] = pc[p] \/ p = f
      BY <2>1
    <3>3. \A p \in Closers \union Fills : Works(p) => at[p].id \in Ids
      BY DEF BInv, IInv, Filling, Closing, Work, Works
    <3> QED
      BY <1>0, <2>1, <2>2, <2>a, <3>1, <3>2, <3>3 DEF BInv, Placed, Works
  <2>8. RefundIsTheOnlyDrift'
    BY <2>1, <2>3 DEF BInv, RefundIsTheOnlyDrift
  <2> QED
    BY <2>6, <2>7, <2>8

<1>4. CASE ReadRows(f)
  <2>1. /\ pc[f] = "deleted" /\ pc' = [pc EXCEPT ![f] = "rows"]
        /\ UNCHANGED <<row, ledger, open, at, writes, stranded, refunded, raced>>
    BY <1>4 DEF ReadRows, Goto, history
  <2>2. \A a \in Assets : HeldBy(f, a)' = HeldBy(f, a)
    BY <1>0, <1>1, <2>1
  <2>3. PICK i \in Ids : i = at[f].id
    BY <2>1 DEF BInv, IInv, Filling, Work
  <2>4. LockedIsBacked'
    BY <1>0, <2>1, <2>2, <2>3, OneMoves DEF BInv, Offered
  <2>5. Placed'
    BY <1>0, <2>1 DEF BInv, Placed, Works, Callers, Ids
  <2> QED
    BY <2>1, <2>4, <2>5 DEF BInv, RefundIsTheOnlyDrift
<1>5. CASE WriteToDB(f)
  <2>1. pc[f] = "rows" /\ at[f] \in Work /\ copy[f] \in Rows
    BY <1>5 DEF WriteToDB, BInv, IInv, Filling
  <2>2. PICK i \in Ids, n \in Nat \ {0} : i = at[f].id /\ n = at[f].amount
    BY <2>1 DEF Work
  <2>3. PICK old \in Rows : old = copy[f]
    BY <2>1
  <2> DEFINE o == i[1]
             d(a) == IF a = Reserved(o) THEN n ELSE 0
             e(a) == IF a = Received(o) THEN n ELSE 0
  <2>4. o \in Orders /\ Reserved(o) \in Assets /\ Received(o) \in Assets /\ Reserved(o) # Received(o)
    BY ReservedIsAsset DEF Ids, Reserved, Received
  <2>5. /\ pc' = [pc EXCEPT ![f] = "done"]
        /\ row' = [a \in Assets |->
                     IF a = Reserved(o) THEN [old[a] EXCEPT !.locked = @ - n]
                                        ELSE [old[a] EXCEPT !.available = @ + n]]
        /\ ledger' = AddTo(AddTo(ledger, Reserved(o), -n), Received(o), n)
        /\ raced' = raced \union Outdated(old, Assets)
        /\ at' = [at EXCEPT ![f] = None]
        /\ UNCHANGED <<open, writes, stranded, refunded>>
    BY <1>5, <2>2, <2>3 DEF WriteToDB, Goto
  <2>6. \A a \in Assets \ raced' : old[a] = row[a] /\ a \notin raced
    BY <2>5 DEF Outdated
  <2>7. \A a \in Assets : a = Reserved(o) \/ a = Received(o)
    BY <2>4 DEF Assets, Reserved, Received
  <2>8. \A a \in Assets \ raced' : /\ row'[a].locked = row[a].locked - d(a)
                                   /\ row'[a].available = row[a].available + e(a)
                                   /\ row[a].locked \in Int /\ row[a].available \in Int
    <3> TAKE a \in Assets \ raced'
    <3>1. row[a] \in [available : Nat, locked : Int]
      BY <1>0 DEF Rows
    <3>2. row'[a] = IF a = Reserved(o) THEN [row[a] EXCEPT !.locked = @ - n]
                                       ELSE [row[a] EXCEPT !.available = @ + n]
      BY <2>5, <2>6
    <3> QED
      BY <2>4, <2>7, <3>1, <3>2
  <2>9. \A a \in Assets : /\ ledger'[a] = ledger[a] - d(a) + e(a) /\ ledger[a] \in Int
                          /\ d(a) \in Int /\ e(a) \in Int
    BY <2>4, <2>5, <2>7 DEF AddTo, BInv, IInv, TypeOK
  <2>10. \A a \in Assets : /\ HeldBy(f, a)' = HeldBy(f, a) - d(a)
                           /\ HeldBy(f, a) \in Int
    <3>1. pc'[f] = "done" /\ stranded' = stranded
      BY <1>0, <2>5
    <3> TAKE a \in Assets
    <3>2. HeldBy(f, a) = d(a) + stranded[f][a] /\ HeldBy(f, a)' = stranded[f][a]
      <4>1. /\ HeldBy(f, a) = (IF Reserved(o) = a THEN n ELSE 0) + stranded[f][a]
            /\ HeldBy(f, a)' = 0 + stranded[f][a]
        BY <1>1, <2>1, <2>2, <3>1
      <4>2. stranded[f][a] \in Nat
        BY <1>0 DEF AmountsOK
      <4> QED
        BY <4>1, <4>2
    <3>3. stranded[f][a] \in Nat /\ d(a) \in Nat
      BY <1>0, <2>2 DEF AmountsOK
    <3> HIDE DEF d
    <3> QED
      BY <3>2, <3>3
  <2> HIDE DEF d, e
  <2>11. LockedIsBacked'
    <3>1. \A a \in Assets \ raced' :
           row'[a].locked - Offered(i, a)' - HeldBy(f, a)'
             = row[a].locked - Offered(i, a) - HeldBy(f, a)
      <4> TAKE a \in Assets \ raced'
      <4>1. Offered(i, a)' = Offered(i, a) /\ Offered(i, a) \in Int
        BY <2>5 DEF Offered, AmountsOK
      <4> QED
        BY <2>8, <2>9, <2>10, <4>1
    <3>2. \A q \in Callers \ {f} : q \notin Orders => at'[q] = at[q]
      BY <2>5
    <3> QED
      BY <1>0, <2>5, <3>1, <3>2, OneMoves DEF BInv
  <2>12. Placed'
    BY <1>0, <2>5 DEF BInv, Placed, Works, Callers, Ids
  <2>13. RefundIsTheOnlyDrift'
    BY <2>5, <2>6, <2>8, <2>9, DriftStep DEF BInv
  <2> QED
    BY <2>11, <2>12, <2>13
<1> QED
  BY <1>2, <1>3, <1>4, <1>5

\* The end of one save of a close request that held the amount m of asset b.
LEMMA CloserHolds ==
  ASSUME IInv, NEW c \in Closers, NEW a \in Assets
  PROVE  /\ HeldBy(c, a) = (IF /\ pc[c] = "deleted" \/ (pc[c] = "saving" /\ "row" \in writes[c])
                               /\ Reserved(at[c].id[1]) = a
                            THEN at[c].rest ELSE 0) + stranded[c][a]
         /\ HeldBy(c, a)' = (IF /\ pc'[c] = "deleted" \/ (pc'[c] = "saving" /\ "row" \in writes'[c])
                                /\ Reserved(at'[c].id[1]) = a
                             THEN at'[c].rest ELSE 0) + stranded'[c][a]
  BY DEF HeldBy, Due

\* What the end of a save leaves of the program point of a close request.
LEMMA EndedKeeps ==
  ASSUME IInv, NEW c \in Closers, NEW w \in writes[c], Ended(c, w)
  PROVE  /\ pc[c] = "saving" /\ at[c] \in Work
         /\ \A q \in Callers \ {c} : pc'[q] = pc[q] /\ (q \notin Orders => at'[q] = at[q])
         /\ \A q \in Closers \ {c} : writes'[q] = writes[q]
         /\ writes'[c] = writes[c] \ {w}
         /\ pc'[c] = "done" \/ (pc'[c] = "saving" /\ at'[c] = at[c] /\ writes[c] # {w})
         /\ pc'[c] = "done" => writes[c] = {w}
<1>1. pc[c] = "saving" /\ at[c] \in Work /\ c \in Callers
  BY DEF IInv, Closing, Callers
<1>2. CASE writes[c] = {w}
  <2>1. /\ writes' = [writes EXCEPT ![c] = @ \ {w}] /\ pc' = [pc EXCEPT ![c] = "done"]
        /\ at' = [at EXCEPT ![c] = None]
    BY <1>2 DEF Ended, Goto
  <2>2. /\ writes \in [Closers -> SUBSET {"row", "ledger"}] /\ pc \in [Callers -> Steps]
        /\ at \in [Closers \union Fills -> Work \union {None}]
    BY DEF IInv, TypeOK
  <2>3. \A q \in Callers : q \notin Orders => q \in Closers \union Fills
    BY DEF Callers
  <2> QED
    BY <1>1, <1>2, <2>1, <2>2, <2>3
<1>3. CASE writes[c] # {w}
  BY <1>1, <1>3 DEF Ended, Goto, IInv, TypeOK
<1> QED
  BY <1>1, <1>2, <1>3

\* After the end of a save the order of the close request is where it was.
LEMMA EndedPlaced ==
  ASSUME IInv, Placed, NEW c \in Closers, NEW w \in writes[c], Ended(c, w), UNCHANGED open
  PROVE  Placed'
<1>0. c \in Callers /\ c \notin Orders
  BY DEF Callers
<1>1. \A k \in Ids : pc'[k[1]] = pc[k[1]]
  BY <1>0, EndedKeeps DEF Ids, Callers
<1>2. \A p \in Closers \union Fills : Works(p)' => Works(p) /\ at'[p] = at[p] /\ at[p].id \in Ids
  <2> SUFFICES ASSUME NEW p \in Closers \union Fills, Works(p)'
               PROVE  Works(p) /\ at'[p] = at[p] /\ at[p].id \in Ids
    OBVIOUS
  <2>1. Works(p) => at[p].id \in Ids
    BY DEF Works, IInv, Filling, Closing, Work
  <2>2. CASE p = c
    BY <1>0, <2>1, <2>2, EndedKeeps DEF Works
  <2>3. CASE p # c
    BY <2>1, <2>3, EndedKeeps DEF Works, Callers
  <2> QED
    BY <2>2, <2>3
<1> QED
  BY <1>1, <1>2 DEF Placed

\* OrderService.closeOrder.
LEMMA CloseBacked ==
  ASSUME BInv, AmountsOK, AmountsOK', IInv', NEW c \in Closers,
         \/ Fetch(c) \/ Delete(c) \/ ReadForRefund(c)
         \/ SaveRefund(c) \/ RefundLedger(c) \/ CloseFails(c)
  PROVE  LockedIsBacked' /\ Placed' /\ RefundIsTheOnlyDrift'
<1>0. /\ c \in Callers /\ c \notin Fills /\ c \notin Orders /\ row \in Rows /\ row' \in Rows
      /\ pc \in [Callers -> Steps] /\ at \in [Closers \union Fills -> Work \union {None}]
      /\ open \in [Ids -> (Nat \ {0}) \union {None}] /\ stranded \in [Callers -> [Assets -> Nat]]
      /\ writes \in [Closers -> SUBSET {"row", "ledger"}] /\ IInv
  BY DEF Callers, BInv, IInv, TypeOK
<1>1. \A a \in Assets :
        /\ HeldBy(c, a) = (IF /\ pc[c] = "deleted" \/ (pc[c] = "saving" /\ "row" \in writes[c])
                              /\ Reserved(at[c].id[1]) = a
                           THEN at[c].rest ELSE 0) + stranded[c][a]
        /\ HeldBy(c, a)' = (IF /\ pc'[c] = "deleted" \/ (pc'[c] = "saving" /\ "row" \in writes'[c])
                               /\ Reserved(at'[c].id[1]) = a
                            THEN at'[c].rest ELSE 0) + stranded'[c][a]
  BY <1>0, CloserHolds
<1>2. CASE Fetch(c)
  <2>1. PICK i \in Ids : open[i] # None /\
          at' = [at EXCEPT ![c] = [id |-> i, rest |-> open[i], amount |-> open[i]]]
    BY <1>2 DEF Fetch
  <2>2. /\ pc[c] = "new" /\ pc' = [pc EXCEPT ![c] = "fetched"]
        /\ UNCHANGED <<row, ledger, open, writes, stranded, refunded, raced>>
    BY <1>2 DEF Fetch, Goto, history
  <2>3. at'[c].id = i
    BY <1>0, <2>1
  <2>4. \A a \in Assets : HeldBy(c, a)' = HeldBy(c, a)
    BY <1>0, <1>1, <2>2
  <2>5. LockedIsBacked'
    <3>1. \A q \in Callers \ {c} : q \notin Orders => at'[q] = at[q]
      BY <2>1
    <3> QED
      BY <1>0, <2>2, <2>4, <3>1, OneMoves DEF BInv, Offered
  <2>6. Placed'
    BY <1>0, <2>1, <2>2, <2>3 DEF BInv, Placed, Works, Callers, Ids
  <2> QED
    BY <2>2, <2>5, <2>6 DEF BInv, RefundIsTheOnlyDrift
<1>3. CASE Delete(c)
  <2>1. pc[c] = "fetched" /\ at[c] \in Work /\ pc[at[c].id[1]] = "done"
    BY <1>0, <1>3 DEF Delete, BInv, IInv, Closing, Placed, Works
  <2>2. PICK i \in Ids, m \in Nat \ {0} : i = at[c].id /\ m = at[c].rest
    BY <2>1 DEF Work
  <2>3. /\ pc' = [pc EXCEPT ![c] = "deleted"]
        /\ open' = [open EXCEPT ![i] = None]
        /\ raced' = IF open[i] = m THEN raced ELSE Assets
        /\ UNCHANGED <<row, ledger, at, writes, stranded, refunded>>
    BY <1>3, <2>2 DEF Delete, Goto
  <2>4. raced \subseteq raced'
    BY <2>3 DEF BInv, IInv, TypeOK
  <2> DEFINE gained(a) == IF Reserved(i[1]) = a THEN m ELSE 0
  <2>5. \A a \in Assets : /\ HeldBy(c, a)' = HeldBy(c, a) + gained(a)
                          /\ HeldBy(c, a) \in Int /\ gained(a) \in Int
    <3> TAKE a \in Assets
    <3>1. HeldBy(c, a) = 0 + stranded[c][a] /\ HeldBy(c, a)' = gained(a) + stranded[c][a]
      BY <1>0, <1>1, <2>1, <2>2, <2>3
    <3>2. stranded[c][a] \in Nat /\ gained(a) \in Nat
      BY <1>0, <2>2
    <3> HIDE DEF gained
    <3> QED
      BY <3>1, <3>2
  <2>6. \A a \in Assets \ raced' : Offered(i, a)' = 0 /\ Offered(i, a) = gained(a)
    BY <1>0, <2>2, <2>3 DEF Offered
  <2>7. LockedIsBacked'
    <3>1. \A a \in Assets \ raced' :
           row'[a].locked - Offered(i, a)' - HeldBy(c, a)'
             = row[a].locked - Offered(i, a) - HeldBy(c, a)
      <4> TAKE a \in Assets \ raced'
      <4>1. row[a].locked \in Int /\ row'[a] = row[a]
        BY <1>0, <2>3 DEF Rows
      <4> HIDE DEF gained
      <4> QED
        BY <2>5, <2>6, <4>1
    <3>2. \A k \in Ids \ {i} : open'[k] = open[k]
      BY <2>3
    <3> QED
      BY <1>0, <2>3, <2>4, <3>1, <3>2, OneMoves DEF BInv
  <2>8. Placed'
    <3>1. \A k \in Ids : pc'[k[1]] = pc[k[1]] /\ (open'[k] # None => open[k] # None)
      BY <1>0, <2>3 DEF Ids, Callers
    <3>2. \A p \in Closers \union Fills : pc'[p] = pc[p] \/ p = c
      BY <2>3
    <3>3. \A p \in Closers \union Fills : Works(p) => at[p].id \in Ids
      BY DEF BInv, IInv, Filling, Closing, Work, Works
    <3> QED
      BY <1>0, <2>1, <2>2, <2>3, <3>1, <3>2, <3>3 DEF BInv, Placed, Works
  <2>9. RefundIsTheOnlyDrift'
    BY <2>3, <2>4 DEF BInv, RefundIsTheOnlyDrift
  <2> QED
    BY <2>7, <2>8, <2>9
<1>4. CASE ReadForRefund(c)
  <2>1. /\ pc[c] = "deleted" /\ pc' = [pc EXCEPT ![c] = "saving"]
        /\ writes' = [writes EXCEPT ![c] = {"row", "ledger"}]
        /\ UNCHANGED <<row, ledger, open, at, stranded, refunded, raced>>
    BY <1>4 DEF ReadForRefund, Goto, history
  <2>2. \A a \in Assets : HeldBy(c, a)' = HeldBy(c, a)
    BY <1>0, <1>1, <2>1
  <2>3. PICK i \in Ids : i = at[c].id
    BY <2>1 DEF BInv, IInv, Closing, Work
  <2>4. LockedIsBacked'
    BY <1>0, <2>1, <2>2, <2>3, OneMoves DEF BInv, Offered
  <2>5. Placed'
    BY <1>0, <2>1 DEF BInv, Placed, Works, Callers, Ids
  <2> QED
    BY <2>1, <2>4, <2>5 DEF BInv, RefundIsTheOnlyDrift
<1>5. CASE SaveRefund(c)
  <2>1. "row" \in writes[c] /\ Ended(c, "row") /\ UNCHANGED <<ledger, open, stranded, refunded>>
    BY <1>5 DEF SaveRefund
  <2>2. pc[c] = "saving" /\ at[c] \in Work /\ copy[c] \in Rows
    BY <2>1 DEF BInv, IInv, Closing
  <2>3. PICK i \in Ids, m \in Nat \ {0}, old \in Rows :
          i = at[c].id /\ m = at[c].rest /\ old = copy[c]
    BY <2>2 DEF Work
  <2> DEFINE b == Reserved(i[1])
             d(a) == IF a = b THEN m ELSE 0
  <2>4. b \in Assets
    BY ReservedIsAsset DEF Ids
  <2>5. /\ row' = [row EXCEPT ![b] = [available |-> old[b].available + m,
                                      locked |-> old[b].locked - m]]
        /\ raced' = raced \union Outdated(old, {b})
    BY <1>5, <2>3 DEF SaveRefund
  <2>6. \A a \in Assets \ raced' : /\ row'[a].locked = row[a].locked - d(a)
                                   /\ row'[a].available = row[a].available + d(a)
                                   /\ row[a].locked \in Int /\ row[a].available \in Int
                                   /\ d(a) \in Int
    <3> TAKE a \in Assets \ raced'
    <3>1. row[a] \in [available : Nat, locked : Int]
      BY <1>0 DEF Rows
    <3>2. a = b => old[b] = row[a]
      BY <2>5 DEF Outdated
    <3>3. CASE a = b
      <4>1. row'[a] = [available |-> row[a].available + m, locked |-> row[a].locked - m]
        BY <1>0, <2>4, <2>5, <3>2, <3>3 DEF Rows
      <4> QED
        BY <3>1, <3>3, <4>1
    <3>4. CASE a # b
      <4>1. row'[a] = row[a]
        BY <1>0, <2>5, <3>4 DEF Rows
      <4> QED
        BY <3>1, <3>4, <4>1
    <3> QED
      BY <3>3, <3>4
  <2>7. /\ \A q \in Callers \ {c} : pc'[q] = pc[q] /\ (q \notin Orders => at'[q] = at[q])
        /\ \A q \in Closers \ {c} : writes'[q] = writes[q]
        /\ writes'[c] = writes[c] \ {"row"}
        /\ pc'[c] = "done" \/ pc'[c] = "saving"
    BY <1>0, <2>1, EndedKeeps
  <2>8. \A a \in Assets : /\ HeldBy(c, a)' = HeldBy(c, a) - d(a)
                          /\ HeldBy(c, a) \in Int
    <3> TAKE a \in Assets
    <3>1. HeldBy(c, a) = d(a) + stranded[c][a]
      BY <1>1, <2>1, <2>2, <2>3
    <3>2. HeldBy(c, a)' = 0 + stranded[c][a]
      BY <1>1, <2>1, <2>7
    <3>3. stranded[c][a] \in Nat /\ d(a) \in Nat
      BY <1>0, <2>3
    <3> HIDE DEF d
    <3> QED
      BY <3>1, <3>2, <3>3
  <2> HIDE DEF d
  <2>9. LockedIsBacked'
    <3>1. \A a \in Assets \ raced' :
           row'[a].locked - Offered(i, a)' - HeldBy(c, a)'
             = row[a].locked - Offered(i, a) - HeldBy(c, a)
      <4> TAKE a \in Assets \ raced'
      <4>1. Offered(i, a)' = Offered(i, a) /\ Offered(i, a) \in Int
        BY <2>1 DEF Offered, AmountsOK
      <4> QED
        BY <2>6, <2>8, <4>1
    <3>2. /\ \A q \in Callers \ {c} : stranded'[q] = stranded[q] /\ (q \notin Orders => at'[q] = at[q])
          /\ \A q \in Callers \ {c} : pc'[q] = pc[q] /\ (q \in Closers => writes'[q] = writes[q])
      BY <2>1, <2>7
    <3>3. raced \subseteq raced' /\ open' = open /\ LockedIsBacked
      BY <2>1, <2>5 DEF BInv
    <3>4. row \in Rows /\ row' \in Rows /\ c \in Callers /\ i \in Ids
      BY <1>0, <2>3
    <3> HIDE SpotAssumption
    <3> QED
      BY <3>1, <3>2, <3>3, <3>4, OneMoves
  <2>10. Placed'
    BY <2>1, EndedPlaced DEF BInv
  <2>11. RefundIsTheOnlyDrift'
    <3>1. \A a \in Assets \ raced' :
           ledger'[a] - row'[a].available - row'[a].locked
             = ledger[a] - row[a].available - row[a].locked
      <4> TAKE a \in Assets \ raced'
      <4>1. ledger'[a] = ledger[a] /\ ledger[a] \in Int
        BY <2>1 DEF BInv, IInv, TypeOK
      <4> QED
        BY <2>6, <4>1
    <3> QED
      BY <2>1, <2>5, <3>1, DriftStep DEF BInv
  <2> QED
    BY <2>9, <2>10, <2>11
<1>6. CASE RefundLedger(c)
  <2>1. "ledger" \in writes[c] /\ Ended(c, "ledger") /\ UNCHANGED <<row, open, stranded, raced>>
    BY <1>6 DEF RefundLedger
  <2>2. pc[c] = "saving" /\ at[c] \in Work
    BY <2>1 DEF BInv, IInv, Closing
  <2>3. PICK m \in Nat \ {0}, i \in Ids : m = at[c].rest /\ i = at[c].id
    BY <2>2 DEF Work
  <2>4. ledger' = [ledger EXCEPT !["quote"] = @ + m] /\ refunded' = refunded + m
    BY <1>6, <2>3 DEF RefundLedger, AddTo
  <2>5. /\ \A q \in Callers \ {c} : pc'[q] = pc[q] /\ (q \notin Orders => at'[q] = at[q])
        /\ \A q \in Closers \ {c} : writes'[q] = writes[q]
        /\ writes'[c] = writes[c] \ {"ledger"}
        /\ \/ pc'[c] = "done" /\ writes[c] = {"ledger"}
           \/ pc'[c] = "saving" /\ at'[c] = at[c]
    BY <1>0, <2>1, EndedKeeps
  <2>6. \A a \in Assets : HeldBy(c, a)' = HeldBy(c, a)
    BY <1>1, <2>1, <2>2, <2>5
  <2>7. LockedIsBacked'
    BY <1>0, <2>1, <2>3, <2>5, <2>6, OneMoves DEF BInv, Offered
  <2>8. Placed'
    BY <2>1, EndedPlaced DEF BInv
  <2>9. RefundIsTheOnlyDrift'
    <3> SUFFICES ASSUME NEW a \in Assets, a \notin raced'
                 PROVE  ledger'[a] = row'[a].available + row'[a].locked - Initial
                                     + (IF a = "quote" THEN refunded' ELSE 0)
      BY DEF RefundIsTheOnlyDrift
    <3>1. ledger[a] = row[a].available + row[a].locked - Initial
                      + (IF a = "quote" THEN refunded ELSE 0)
      BY <2>1 DEF BInv, RefundIsTheOnlyDrift
    <3>2. /\ row[a].available \in Int /\ row[a].locked \in Int /\ Initial \in Int
          /\ refunded \in Int /\ ledger \in [Assets -> Int]
      BY DEF BInv, IInv, TypeOK, Rows
    <3>3. row' = row
      BY <2>1
    <3>4. CASE a = "quote"
      <4>1. ledger'[a] = ledger[a] + m
        BY <2>4, <3>2, <3>4
      <4> QED
        BY <2>4, <3>1, <3>2, <3>3, <3>4, <4>1
    <3>5. CASE a # "quote"
      <4>1. ledger'[a] = ledger[a]
        BY <2>4, <3>2, <3>5
      <4> QED
        BY <3>1, <3>2, <3>3, <3>5, <4>1
    <3> QED
      BY <3>4, <3>5
  <2> QED
    BY <2>7, <2>8, <2>9
<1>7. CASE CloseFails(c)
  <2>1. /\ pc[c] \in {"deleted", "saving"} /\ pc' = [pc EXCEPT ![c] = "done"]
        /\ writes' = [writes EXCEPT ![c] = {}] /\ at' = [at EXCEPT ![c] = None]
        /\ UNCHANGED <<row, ledger, open, refunded, raced>>
    BY <1>7 DEF CloseFails, Goto
  <2>2. at[c] \in Work
    BY <2>1 DEF BInv, IInv, Closing
  <2>3. PICK m \in Nat \ {0}, i \in Ids : m = at[c].rest /\ i = at[c].id
    BY <2>2 DEF Work
  <2> DEFINE b == Reserved(i[1])
  <2>4. b \in Assets
    BY ReservedIsAsset DEF Ids
  <2>5. IF pc[c] = "deleted" \/ "row" \in writes[c]
        THEN stranded' = [stranded EXCEPT ![c][b] = @ + m]
        ELSE stranded' = stranded
    BY <1>7, <2>3 DEF CloseFails, Strand
  <2>6. \A a \in Assets : HeldBy(c, a)' = HeldBy(c, a)
    <3> TAKE a \in Assets
    <3>1. HeldBy(c, a)' = 0 + stranded'[c][a]
      BY <1>0, <1>1, <2>1
    <3>2. HeldBy(c, a) = (IF (pc[c] = "deleted" \/ "row" \in writes[c]) /\ b = a THEN m ELSE 0)
                         + stranded[c][a]
      BY <1>0, <1>1, <2>1, <2>3
    <3>3. stranded[c][a] \in Nat
      BY <1>0
    <3>4. stranded'[c][a] = IF (pc[c] = "deleted" \/ "row" \in writes[c]) /\ b = a
                            THEN stranded[c][a] + m ELSE stranded[c][a]
      BY <1>0, <2>4, <2>5
    <3> QED
      BY <3>1, <3>2, <3>3, <3>4
  <2>7. LockedIsBacked'
    <3>1. \A q \in Callers \ {c} : stranded'[q] = stranded[q] /\ (q \notin Orders => at'[q] = at[q])
      <4>1. stranded' = stranded \/ stranded' = [stranded EXCEPT ![c][b] = @ + m]
        BY <2>5
      <4>2. \A q \in Callers \ {c} : stranded'[q] = stranded[q]
        BY <1>0, <4>1
      <4> QED
        BY <2>1, <4>2
    <3>2. \A q \in Callers \ {c} : pc'[q] = pc[q] /\ (q \in Closers => writes'[q] = writes[q])
      BY <2>1
    <3>3. \A a \in Assets : Offered(i, a)' = Offered(i, a)
      BY <2>1 DEF Offered
    <3>4. \A a \in Assets \ raced' :
           row'[a].locked - Offered(i, a)' - HeldBy(c, a)'
             = row[a].locked - Offered(i, a) - HeldBy(c, a)
      BY <2>1, <2>6, <3>3
    <3>5. raced \subseteq raced' /\ open' = open /\ LockedIsBacked
      BY <2>1 DEF BInv
    <3> QED
      BY <1>0, <3>1, <3>2, <3>4, <3>5, OneMoves
  <2>8. Placed'
    BY <1>0, <2>1 DEF BInv, Placed, Works, Callers, Ids
  <2> QED
    BY <2>1, <2>7, <2>8 DEF BInv, RefundIsTheOnlyDrift
<1> QED
  BY <1>2, <1>3, <1>4, <1>5, <1>6, <1>7

\* A credit adds to the available amount and to the ledger.
LEMMA CreditBacked ==
  ASSUME BInv, AmountsOK, AmountsOK', IInv', NEW b \in Assets, Credit(b)
  PROVE  LockedIsBacked' /\ Placed' /\ RefundIsTheOnlyDrift'
<1>1. /\ row' = [row EXCEPT ![b].available = @ + 1] /\ ledger' = [ledger EXCEPT ![b] = @ + 1]
      /\ UNCHANGED <<open, pc, at, writes, stranded, refunded, raced>>
  BY DEF Credit, AddTo, history
<1>2. row \in Rows /\ ledger \in [Assets -> Int]
  BY DEF BInv, IInv, TypeOK
<1>3. \A a \in Assets : /\ row'[a].locked = row[a].locked
                        /\ row'[a].available = row[a].available + IF a = b THEN 1 ELSE 0
                        /\ ledger'[a] = ledger[a] + IF a = b THEN 1 ELSE 0
                        /\ row[a].available \in Int /\ row[a].locked \in Int /\ ledger[a] \in Int
  BY <1>1, <1>2 DEF Rows
<1>4. LockedIsBacked'
  <2>1. \A a \in Assets : Offers(a)' = Offers(a)
    BY <1>1, OffersSame
  <2>2. \A a \in Assets, q \in Callers : HeldBy(q, a)' = HeldBy(q, a)
    BY <1>1, OtherHolds
  <2>3. \A a \in Assets : Holdings(a)' = Holdings(a)
    BY <2>2, HoldingsSame
  <2> QED
    BY <1>1, <1>3, <2>1, <2>3 DEF BInv, LockedIsBacked, Offers, Holdings
<1>5. Placed'
  BY <1>1 DEF BInv, Placed, Works
<1>6. RefundIsTheOnlyDrift'
  BY <1>1, <1>3, DriftStep DEF BInv
<1> QED
  BY <1>4, <1>5, <1>6

\* What the dead handlers stood for is stranded, amount by amount.
LEMMA DeathBacked ==
  ASSUME BInv, AmountsOK, AmountsOK', IInv', WorkerDies
  PROVE  LockedIsBacked' /\ Placed' /\ RefundIsTheOnlyDrift'
<1> DEFINE dead == {p \in Callers : InWorker(p)}
<1>1. /\ pc' = [p \in Callers |-> IF p \in dead THEN "done" ELSE pc[p]]
      /\ at' = [p \in Closers \union Fills |-> IF p \in dead THEN None ELSE at[p]]
      /\ stranded' = [p \in Callers |-> [a \in Assets |->
                        stranded[p][a] + IF p \in dead THEN Due(p, a) ELSE 0]]
      /\ UNCHANGED <<row, ledger, open, writes, refunded, raced>>
  BY DEF WorkerDies
<1>2. /\ dead \subseteq Orders \union Fills
      /\ \A p \in dead : (p \in Orders /\ pc[p] = "running") \/ (p \in Fills /\ pc[p] # "new")
  BY DEF InWorker
<1>3. stranded \in [Callers -> [Assets -> Nat]] /\ pc \in [Callers -> Steps]
      /\ at \in [Closers \union Fills -> Work \union {None}]
  BY DEF BInv, IInv, TypeOK
<1> HIDE DEF dead
<1>4. \A a \in Assets, p \in Callers : HeldBy(p, a)' = HeldBy(p, a)
  <2> SUFFICES ASSUME NEW a \in Assets, NEW p \in Callers PROVE HeldBy(p, a)' = HeldBy(p, a)
    OBVIOUS
  <2>1. Due(p, a) \in Nat /\ stranded[p][a] \in Nat
    BY DEF AmountsOK
  <2>2. CASE p \in dead
    <3>1. pc'[p] = "done" /\ p \in Orders \union Fills
      BY <1>1, <1>2, <2>2
    <3>2. Due(p, a)' = 0
      BY <3>1 DEF Due
    <3>3. stranded'[p][a] = stranded[p][a] + Due(p, a)
      BY <1>1, <2>2
    <3> QED
      BY <2>1, <3>2, <3>3 DEF HeldBy
  <2>3. CASE p \notin dead
    <3>1. pc'[p] = pc[p] /\ (p \notin Orders => at'[p] = at[p]) /\ writes' = writes
      BY <1>1, <2>3 DEF Callers
    <3>2. stranded'[p][a] = stranded[p][a]
      BY <1>1, <2>1, <2>3
    <3>3. Due(p, a)' = Due(p, a)
      BY <3>1 DEF Due, Callers
    <3> QED
      BY <3>2, <3>3 DEF HeldBy
  <2> QED
    BY <2>2, <2>3
<1>5. LockedIsBacked'
  <2>1. \A a \in Assets : Offers(a)' = Offers(a)
    BY <1>1, OffersSame
  <2>2. \A a \in Assets : Holdings(a)' = Holdings(a)
    BY <1>4, HoldingsSame
  <2> QED
    BY <1>1, <2>1, <2>2 DEF BInv, LockedIsBacked, Offers, Holdings
<1>6. Placed'
  <2>1. \A o \in Orders : pc[o] = "done" => pc'[o] = "done"
    BY <1>1, <1>2 DEF Callers
  <2>2. \A i \in Ids : i[1] \in Orders
    BY DEF Ids
  <2>3. \A p \in Closers \union Fills : Works(p)' => Works(p) /\ at'[p] = at[p]
    BY <1>1 DEF Works, Callers
  <2>4. \A p \in Closers \union Fills : Works(p) => at[p].id \in Ids
    BY DEF BInv, IInv, Filling, Closing, Work, Works
  <2>5. \A i \in Ids : open'[i] # None => pc'[i[1]] = "done"
    BY <1>1, <2>1, <2>2 DEF BInv, Placed
  <2>6. \A p \in Closers \union Fills : Works(p)' => pc'[at'[p].id[1]] = "done"
    <3> SUFFICES ASSUME NEW p \in Closers \union Fills, Works(p)'
                 PROVE  pc'[at'[p].id[1]] = "done"
      OBVIOUS
    <3>1. Works(p) /\ at'[p] = at[p] /\ at[p].id \in Ids
      BY <2>3, <2>4
    <3>2. pc[at[p].id[1]] = "done" /\ at[p].id[1] \in Orders
      BY <2>2, <3>1 DEF BInv, Placed
    <3> QED
      BY <2>1, <3>1, <3>2
  <2> QED
    BY <2>5, <2>6 DEF Placed
<1>7. RefundIsTheOnlyDrift'
  BY <1>1 DEF BInv, RefundIsTheOnlyDrift
<1> QED
  BY <1>5, <1>6, <1>7

-----------------------------------------------------------------------------
LEMMA InitiallyBacked == Init => BInv
<1> SUFFICES ASSUME Init PROVE BInv
  OBVIOUS
<1>1. IInv
  BY InitialStates
<1>2. Placed
  BY DEF Init, Placed, Works, Callers
<1>3. LockedIsBacked
  <2> SUFFICES ASSUME NEW a \in Assets PROVE row[a].locked = Offers(a) + Holdings(a)
    BY DEF LockedIsBacked, Offers, Holdings
  <2> DEFINE f == [p \in Callers |-> HeldBy(p, a)]
             g == [i \in Ids |-> Offered(i, a)]
  <2>1. (\A p \in Callers : f[p] = 0) /\ (\A i \in Ids : g[i] = 0)
    BY DEF Init, HeldBy, Due, Offered, Callers
  <2> HIDE DEF f, g
  <2>2. SumFunctionOnSet(f, Callers) = 0 /\ SumFunctionOnSet(g, Ids) = 0
    BY <2>1, FiniteIndices, SumEmpty, SumZeros
  <2>3. Offers(a) = 0 /\ Holdings(a) = 0
    BY <2>2 DEF f, g, Offers, Holdings
  <2> QED
    BY <2>3 DEF Init
<1>4. RefundIsTheOnlyDrift
  BY DEF Init, RefundIsTheOnlyDrift
<1> QED
  BY <1>1, <1>2, <1>3, <1>4 DEF BInv

LEMMA BackedStep == BInv /\ AmountsOK /\ AmountsOK' /\ IInv' /\ [Next]_vars => BInv'
<1> SUFFICES ASSUME BInv, AmountsOK, AmountsOK', IInv', [Next]_vars
             PROVE  LockedIsBacked' /\ Placed' /\ RefundIsTheOnlyDrift'
  BY DEF BInv
<1>1. CASE UNCHANGED vars
  <2>1. LockedIsBacked'
    BY <1>1 DEF vars, BInv, LockedIsBacked, Offered, HeldBy, Due
  <2>2. Placed' /\ RefundIsTheOnlyDrift'
    BY <1>1 DEF vars, BInv, Placed, Works, RefundIsTheOnlyDrift
  <2> QED
    BY <2>1, <2>2
<1>2. CASE Terminated
  BY <1>1, <1>2 DEF Terminated
<1> QED
  BY <1>1, <1>2, PlacementBacked, FillBacked, CloseBacked, CreditBacked, DeathBacked DEF Next

\* The amounts are in their places in every behaviour of the exchange.
LEMMA Backing == Spec => []BInv
<1>1. BInv => IInv
  BY DEF BInv
<1> QED
  BY <1>1, InitiallyBacked, BackedStep, Step, HeldTypes, PTL DEF Spec

\* What is locked is exactly what the open orders, the callers on their way and
\* the named faults account for, unless a row was saved from an outdated copy.
THEOREM LockIsBacked == Spec => []LockedIsBacked
<1>1. BInv => LockedIsBacked
  BY DEF BInv
<1> QED
  BY <1>1, Backing, PTL

\* Rows and ledger are apart by the refunds of closed orders only, all on the
\* quote asset (order.service.ts:156-163, 189-196).
THEOREM DriftIsRefunds == Spec => []RefundIsTheOnlyDrift
<1>1. BInv => RefundIsTheOnlyDrift
  BY DEF BInv
<1> QED
  BY <1>1, Backing, PTL
=============================================================================
