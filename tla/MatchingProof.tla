---------------------------- MODULE MatchingProof ----------------------------
(***************************************************************************)
(* The matching engine, for any users, makers, market orders and crashes.  *)
(* The invariants come in layers, each resting on those before it:         *)
(*   - no order is filled twice over, as its taker counts (IInv);          *)
(*   - what rounding has cost a maker is bounded by his visitors (Rounding); *)
(*   - one handler at a time has the arrays to itself, and its copy of the *)
(*     book is the book (Single): price priority;                          *)
(*   - the row a user will have is his balance and his entries (Explaining), *)
(*     locks what his orders reserve (Locking), and the entries of all     *)
(*     users cancel out against what the taker is still to be booked for   *)
(*     (Conserving).                                                       *)
(***************************************************************************)
EXTENDS Matching, SumTheorems

USE MatchingAssumption

Order == [user : Users, side : Sides, price : Nat \ {0}, base : Nat \ {0}, quote : Nat \ {0}]
Taking == [user : Users, side : Sides, amount : Nat \ {0}]
Copy == [id : Makers, base : Nat, quote : Nat, place : Nat]
Row == [Columns -> Int]

\* What a taker of this side counts in, and what a maker of this side gives.
Counted(side, x) == IF side = "BUY" THEN x.quote ELSE x.base
Given(side, x) == IF side = "BUY" THEN x.quote ELSE x.base

\* A maker, or a copy of it, is not filled twice over, as its takers count.
Within(m, x) == Counted(Opposite(maker[m].side), x) <= Counted(Opposite(maker[m].side), maker[m])

Bounded ==
  /\ \A m \in Makers : Within(m, book[m])
  /\ \A j \in Jobs : Remaining(j) >= 0
  /\ \A j \in Jobs : \A s \in snap[j] :
       /\ maker[s.id].side = Opposite(taker[j].side) /\ maker[s.id].user # taker[j].user
       /\ Within(s.id, s)
       /\ \A r \in snap[j] : r.id = s.id => r = s

\* A job that settles a fill has one.
Settling ==
  \A j \in Jobs : pc[j] \in {"read", "settle"} =>
    fill[j].id \in Makers /\ maker[fill[j].id].side = Opposite(taker[j].side)

\* The cached place is one of the user's rows.
Cached == cache.user \in Users => cache.at \in 1 .. Len(rows[cache.user])

\* A job that has pushed nothing for its taker yet is not short of anything.
Unpushed == PcValues \ {"write", "reset", "done", "lost"}
Fresh == \A j \in Jobs : pc[j] \in Unpushed => short[j] = NotShort

IInv == TypeOK /\ Bounded /\ Settling /\ Cached /\ Fresh

\* What the history of rounding may be, the rest of the state aside.
Shortage == [free : -1 .. 1, locked : -1 .. 1]
ShortOK ==
  /\ short \in [Jobs -> Shortage]
  /\ \A j \in Jobs : short[j].free + short[j].locked \in -1 .. 1
  /\ Fresh

-----------------------------------------------------------------------------
(***************************************************************************)
(* Numbers.                                                                *)
(***************************************************************************)

\* Integer division rounds down, by less than the divisor.
LEMMA Division ==
  ASSUME NEW a \in Nat, NEW b \in Nat \ {0}
  PROVE  a \div b \in Nat /\ (a \div b) * b <= a /\ a < (a \div b) * b + b
  OBVIOUS

LEMMA Product == ASSUME NEW a \in Nat, NEW b \in Nat PROVE a * b \in Nat
  OBVIOUS

LEMMA MinOfTwo ==
  ASSUME NEW a \in Int, NEW b \in Int
  PROVE  /\ Min({a, b}) \in {a, b} /\ Min({a, b}) <= a /\ Min({a, b}) <= b
<1>1. \E x \in {a, b} : \A y \in {a, b} : x <= y
  OBVIOUS
<1>2. Min({a, b}) \in {a, b} /\ \A y \in {a, b} : Min({a, b}) <= y
  BY <1>1 DEF Min
<1> QED
  BY <1>2

\* The last of some places of an array.
LEMMA MaxOfSome ==
  ASSUME NEW n \in Nat, NEW S \in SUBSET (1 .. n), S # {}
  PROVE  Max(S) \in S
<1> DEFINE Above == {k \in Nat : \A y \in S : y <= k}
<1>1. n \in Above
  OBVIOUS
<1>2. PICK k \in Above : \A l \in Above : k <= l
  BY <1>1, Smallest
<1>3. k \in S
  <2> SUFFICES ASSUME k \notin S PROVE FALSE
    OBVIOUS
  <2>1. \A y \in S : y <= k - 1 /\ y >= 1
    BY <1>2
  <2>2. k - 1 \in Above
    <3>1. PICK y \in S : TRUE
      OBVIOUS
    <3>2. k - 1 \in Nat
      BY <2>1, <3>1
    <3> QED
      BY <2>1, <3>2
  <2> QED
    BY <1>2, <2>2
<1>4. \A y \in S : k >= y
  BY <1>2
<1> QED
  BY <1>3, <1>4 DEF Max

-----------------------------------------------------------------------------
(***************************************************************************)
(* Types of orders, fills and rows.                                        *)
(***************************************************************************)
LEMMA OrderTypes ==
  ASSUME \A m \in Makers : maker[m] \in MakerOrders[m], \A j \in Jobs : taker[j] \in JobOrders[j]
  PROVE  /\ \A m \in Makers : maker[m] \in Order
         /\ \A j \in Jobs : taker[j] \in Taking
  BY DEF Order, Taking

\* A fill takes no more than the taker may spend and the maker has left.
LEMMA Fill ==
  ASSUME IInv, NEW j \in Jobs, NEW s \in snap[j]
  PROVE  /\ FillOf(j, s) \in [id : {s.id}, base : Nat, quote : Nat]
         /\ Counted(taker[j].side, FillOf(j, s)) <= Remaining(j)
         /\ Counted(taker[j].side, FillOf(j, s))
              <= Counted(taker[j].side, maker[s.id]) - Counted(taker[j].side, s)
         /\ \/ Counted(taker[j].side, FillOf(j, s)) = Remaining(j)
            \/ Counted(taker[j].side, FillOf(j, s))
                 = Counted(taker[j].side, maker[s.id]) - Counted(taker[j].side, s)
         /\ Remaining(j) \in Nat /\ s \in Copy
<1>1. /\ s \in Copy /\ maker[s.id] \in Order /\ taker[j] \in Taking
      /\ filled[j] \in [base : Nat, quote : Nat]
      /\ maker[s.id].side = Opposite(taker[j].side) /\ Within(s.id, s)
  BY OrderTypes DEF IInv, TypeOK, Bounded, Copy, Amounts
<1>2. Remaining(j) \in Nat
  <2>1. Remaining(j) \in Int
    BY <1>1 DEF Remaining, Taking
  <2>2. Remaining(j) >= 0
    BY DEF IInv, Bounded
  <2> QED
    BY <2>1, <2>2
<1> DEFINE m == maker[s.id]
<1>3. CASE taker[j].side = "BUY"
  <2> DEFINE q == Min({Remaining(j), m.quote - s.quote})
  <2>1. s.quote <= m.quote
    BY <1>1, <1>3 DEF Within, Counted, Opposite
  <2>2. m.quote - s.quote \in Nat
    BY <1>1, <2>1 DEF Order, Copy
  <2>3. q \in Nat /\ q <= Remaining(j) /\ q <= m.quote - s.quote
        /\ q \in {Remaining(j), m.quote - s.quote}
    <3>1. PICK k \in Nat, d \in Nat : k = Remaining(j) /\ d = m.quote - s.quote
      BY <1>2, <2>2
    <3>2. k \in Int /\ d \in Int
      BY <3>1
    <3>3. Min({k, d}) \in {k, d} /\ Min({k, d}) <= k /\ Min({k, d}) <= d
      BY <3>2, MinOfTwo
    <3> QED
      BY <3>1, <3>3
  <2> HIDE DEF q
  <2>4. BaseFor(q, m.price) \in Nat
    <3>1. q * Scale \in Nat
      BY <2>3, Product
    <3> QED
      BY <1>1, <3>1, Division DEF BaseFor, Order
  <2>5. FillOf(j, s) = [id |-> s.id, base |-> BaseFor(q, m.price), quote |-> q]
    BY <1>3 DEF FillOf, q
  <2> QED
    BY <1>1, <1>2, <1>3, <2>3, <2>4, <2>5 DEF Counted
<1>4. CASE taker[j].side # "BUY"
  <2> DEFINE b == Min({Remaining(j), m.base - s.base})
  <2>1. s.base <= m.base
    BY <1>1, <1>4 DEF Within, Counted, Opposite, Taking, Sides
  <2>2. m.base - s.base \in Nat
    BY <1>1, <2>1 DEF Order, Copy
  <2>3. b \in Nat /\ b <= Remaining(j) /\ b <= m.base - s.base
        /\ b \in {Remaining(j), m.base - s.base}
    <3>1. PICK k \in Nat, d \in Nat : k = Remaining(j) /\ d = m.base - s.base
      BY <1>2, <2>2
    <3>2. k \in Int /\ d \in Int
      BY <3>1
    <3>3. Min({k, d}) \in {k, d} /\ Min({k, d}) <= k /\ Min({k, d}) <= d
      BY <3>2, MinOfTwo
    <3> QED
      BY <3>1, <3>3
  <2> HIDE DEF b
  <2>4. QuoteFor(b, m.price) \in Nat
    <3>1. b * m.price \in Nat
      BY <1>1, <2>3, Product DEF Order
    <3> QED
      BY <3>1, Division DEF QuoteFor
  <2>5. FillOf(j, s) = [id |-> s.id, base |-> b, quote |-> QuoteFor(b, m.price)]
    BY <1>4 DEF FillOf, b
  <2> QED
    BY <1>1, <1>2, <1>4, <2>3, <2>4, <2>5 DEF Counted
<1> QED
  BY <1>3, <1>4

LEMMA RowTypes ==
  ASSUME NEW r \in Row, NEW side \in Sides, NEW b \in Int, NEW q \in Int
  PROVE  Traded(r, side, b, q) \in Row
  BY DEF Row, Traded, Columns

LEMMA EntryTypes ==
  ASSUME NEW e \in [base : Int, quote : Int], NEW side \in Sides, NEW b \in Int, NEW q \in Int
  PROVE  Entry(e, side, b, q) \in [base : Int, quote : Int]
  BY DEF Entry

\* A row object taken out of the array.
LEMMA Removed ==
  ASSUME NEW q \in Seq(Row), NEW k \in 1 .. Len(q)
  PROVE  LET rest == [i \in 1 .. Len(q) - 1 |-> q[IF i < k THEN i ELSE i + 1]]
         IN  rest \in Seq(Row) /\ Len(rest) = Len(q) - 1
<1> DEFINE rest == [i \in 1 .. Len(q) - 1 |-> q[IF i < k THEN i ELSE i + 1]]
<1>1. Len(q) - 1 \in Nat
  OBVIOUS
<1>2. \A i \in 1 .. Len(q) - 1 : q[IF i < k THEN i ELSE i + 1] \in Row
  OBVIOUS
<1>3. rest \in [1 .. Len(q) - 1 -> Row]
  BY <1>2
<1> QED
  BY <1>1, <1>3

-----------------------------------------------------------------------------
\* What the sums of Reserve add up.
LEMMA ReserveTypes ==
  ASSUME \A m \in Makers : maker[m] \in Order, \A j \in Jobs : taker[j] \in Taking,
         NEW u, NEW side
  PROVE  Reserve(u, side) \in Nat
<1> DEFINE f == [m \in Makers |-> MakerLock(m, u, side)]
           g == [j \in Jobs |-> TakerLock(j, u, side)]
<1>1. (\A m \in Makers : f[m] \in Nat) /\ (\A j \in Jobs : g[j] \in Nat)
  BY DEF MakerLock, TakerLock, Order, Taking
<1> HIDE DEF f, g
<1>2. SumFunctionOnSet(f, Makers) \in Nat /\ SumFunctionOnSet(g, Jobs) \in Nat
  BY <1>1, SumNat
<1> QED
  BY <1>2 DEF f, g, Reserve

LEMMA InitialStates == Init => IInv
<1> SUFFICES ASSUME Init PROVE IInv
  OBVIOUS
<1>1. (\A m \in Makers : maker[m] \in MakerOrders[m]) /\ (\A j \in Jobs : taker[j] \in JobOrders[j])
  BY DEF Init
<1>2. (\A m \in Makers : maker[m] \in Order) /\ (\A j \in Jobs : taker[j] \in Taking)
  BY <1>1, OrderTypes
<1>3. PICK place \in [Makers -> 1 .. Cardinality(Makers)] :
        book = [m \in Makers |-> [base |-> 0, quote |-> 0, place |-> place[m]]]
  BY DEF Init
<1>4. Cardinality(Makers) \in Nat
  BY FS_CardinalityType
<1>5. book \in [Makers -> [base : Nat, quote : Nat, place : Nat]] /\ tail \in Nat
  BY <1>3, <1>4 DEF Init
<1>6. balance \in [Users -> Row]
  <2>1. \A u \in Users : Reserve(u, "SELL") \in Int /\ Reserve(u, "BUY") \in Int
    BY <1>2, ReserveTypes
  <2> QED
    BY <2>1 DEF Init, Row, Columns, EmptyRow
<1>7. TypeOK
  BY <1>1, <1>5, <1>6 DEF Init, TypeOK, Row, Columns, EmptyRow, Amounts, Nothing, NoFill, NoCache,
       PcValues, Anomalies, NotShort
<1>8. Bounded
  <2>1. \A m \in Makers : Within(m, book[m])
    BY <1>2, <1>3 DEF Within, Counted, Order
  <2>2. \A j \in Jobs : Remaining(j) >= 0
    BY <1>2 DEF Init, Remaining, Nothing, Taking
  <2> QED
    BY <2>1, <2>2 DEF Init, Bounded
<1> QED
  BY <1>7, <1>8 DEF Init, IInv, Settling, Cached, NoCache, Fresh

-----------------------------------------------------------------------------
(***************************************************************************)
(* The arrays of the engine.                                               *)
(***************************************************************************)
ArraysOK ==
  /\ rows \in [Users -> Seq(Row)]
  /\ cache \in [user : Users \union {NoUser}, at : Nat]
  /\ entries \in [Users -> [base : Int, quote : Int]]
  /\ anomaly \subseteq Anomalies
  /\ Cached

LEMMA PushTradeTypes ==
  ASSUME ArraysOK, NEW u \in Users, NEW side \in Sides, NEW row \in Row,
         NEW base \in Nat, NEW quote \in Nat, PushTrade(u, side, row, base, quote)
  PROVE  ArraysOK'
<1> DEFINE hit == cache.user = u
           old == IF hit THEN rows[u][cache.at] ELSE row
           rest == IF hit THEN [i \in 1 .. Len(rows[u]) - 1 |->
                                  rows[u][IF i < cache.at THEN i ELSE i + 1]]
                          ELSE rows[u]
           new == Traded(old, side, base, quote)
<1>1. /\ rows' = [rows EXCEPT ![u] = Append(rest, new)]
      /\ cache' = [user |-> u, at |-> Len(rest) + 1]
      /\ entries' = [entries EXCEPT ![u] = Entry(@, side, base, quote)]
      /\ anomaly' = IF ~hit /\ rows[u] # <<>> THEN anomaly \union {"reread"} ELSE anomaly
  BY DEF PushTrade
<1>2. rows[u] \in Seq(Row)
  BY DEF ArraysOK
<1>3. hit => cache.at \in 1 .. Len(rows[u])
  BY DEF ArraysOK, Cached
<1>4. old \in Row /\ rest \in Seq(Row)
  <2>1. CASE hit
    BY <1>2, <1>3, <2>1, Removed
  <2>2. CASE ~hit
    BY <1>2, <2>2
  <2> QED
    BY <2>1, <2>2
<1>5. new \in Row
  BY <1>4, RowTypes
<1> HIDE DEF old, rest, new
<1>6. Append(rest, new) \in Seq(Row) /\ Len(rest) + 1 \in 1 .. Len(Append(rest, new))
  BY <1>4, <1>5
<1>7. rows' \in [Users -> Seq(Row)]
  BY <1>1, <1>6 DEF ArraysOK
<1>8. Entry(entries[u], side, base, quote) \in [base : Int, quote : Int]
  BY EntryTypes DEF ArraysOK
<1>9. entries' \in [Users -> [base : Int, quote : Int]]
  BY <1>1, <1>8 DEF ArraysOK
<1>10. cache' \in [user : Users \union {NoUser}, at : Nat]
  BY <1>1, <1>6
<1>11. Cached'
  BY <1>1, <1>6 DEF Cached, ArraysOK
<1>12. anomaly' \subseteq Anomalies
  BY <1>1 DEF ArraysOK, Anomalies
<1> QED
  BY <1>7, <1>9, <1>10, <1>11, <1>12 DEF ArraysOK

\* The row of a taker that gets back what he has not spent, and what rounding
\* keeps of it.
Released(row, side, rest) ==
  [row EXCEPT ![FreeOf(side)] = @ + rest, ![LockedOf(side)] = @ - rest]
Lacking(exact, held, side) ==
  [free |-> exact[FreeOf(side)] - held[FreeOf(side)],
   locked |-> exact[LockedOf(side)] - held[LockedOf(side)]]

LEMMA ReleasedTypes ==
  ASSUME NEW row \in Row, NEW side, NEW rest \in Nat
  PROVE  Released(row, side, rest) \in Row
  BY DEF Released, FreeOf, LockedOf, Row, Columns

\* Rounding moves a column by one unit at most, away from the sign of the error.
LEMMA Truncation ==
  ASSUME NEW x \in Int, NEW e \in -1 .. 1
  PROVE  /\ Truncated(x, e) \in Int /\ x - Truncated(x, e) \in {0, -e}
  BY DEF Truncated

LEMMA RoundedTypes ==
  ASSUME NEW row \in Row, NEW side, NEW e \in FloatErrors
  PROVE  LET held == RoundedDown(row, side, e)
             lacking == Lacking(row, held, side)
         IN  /\ held \in Row
             /\ lacking \in Shortage /\ lacking.free + lacking.locked \in -1 .. 1
             /\ \A c \in Columns \ {FreeOf(side), LockedOf(side)} : held[c] = row[c]
             /\ e = NoError => held = row /\ lacking = NotShort
<1> DEFINE free == FreeOf(side)
           locked == LockedOf(side)
           held == RoundedDown(row, side, e)
           lacking == Lacking(row, held, side)
<1>1. free \in Columns /\ locked \in Columns /\ free # locked
  BY DEF FreeOf, LockedOf, Columns
<1>2. row[free] \in Int /\ row[locked] \in Int /\ \A c \in Columns : row[c] \in Int
  BY <1>1 DEF Row
<1>3. e.free \in -1 .. 1 /\ e.locked \in -1 .. 1 /\ e.free * e.locked <= 0
  BY DEF FloatErrors
<1>4. /\ Truncated(row[free], e.free) \in Int /\ row[free] - Truncated(row[free], e.free) \in {0, -e.free}
      /\ Truncated(row[locked], e.locked) \in Int
      /\ row[locked] - Truncated(row[locked], e.locked) \in {0, -e.locked}
  BY <1>2, <1>3, Truncation
<1>5. held = [row EXCEPT ![free] = Truncated(row[free], e.free),
                         ![locked] = Truncated(row[locked], e.locked)]
  BY <1>1 DEF RoundedDown, Row
<1> HIDE DEF held, free, locked
<1>6. /\ held \in Row /\ held[free] = Truncated(row[free], e.free)
      /\ held[locked] = Truncated(row[locked], e.locked)
      /\ \A c \in Columns \ {free, locked} : held[c] = row[c]
  BY <1>1, <1>4, <1>5 DEF Row
<1>7. lacking.free \in {0, -e.free} /\ lacking.locked \in {0, -e.locked}
      /\ lacking = [free |-> lacking.free, locked |-> lacking.locked]
  BY <1>4, <1>6 DEF Lacking, free, locked
<1> HIDE DEF lacking
<1>8. \A a, b \in -1 .. 1 : \A x \in {0, -a} : \A y \in {0, -b} :
        a * b <= 0 => x \in -1 .. 1 /\ y \in -1 .. 1 /\ x + y \in -1 .. 1
  <2> SUFFICES ASSUME NEW a \in {-1, 0, 1}, NEW b \in {-1, 0, 1}, NEW x \in {0, -a}, NEW y \in {0, -b},
                      a * b <= 0
               PROVE  x \in -1 .. 1 /\ y \in -1 .. 1 /\ x + y \in -1 .. 1
    OBVIOUS
  <2>1. CASE a = -1
    BY <2>1
  <2>2. CASE a = 0
    BY <2>2
  <2>3. CASE a = 1
    BY <2>3
  <2> QED
    BY <2>1, <2>2, <2>3
<1>9. /\ lacking.free \in -1 .. 1 /\ lacking.locked \in -1 .. 1
      /\ lacking.free + lacking.locked \in -1 .. 1
  BY <1>3, <1>7, <1>8
<1>10. lacking \in Shortage
  BY <1>7, <1>9 DEF Shortage
<1>11. e = NoError => held = row /\ lacking = NotShort
  <2> SUFFICES ASSUME e = NoError PROVE held = row /\ lacking = NotShort
    OBVIOUS
  <2>1. e.free = 0 /\ e.locked = 0
    BY DEF NoError
  <2>2. Truncated(row[free], e.free) = row[free] /\ Truncated(row[locked], e.locked) = row[locked]
    BY <2>1 DEF Truncated
  <2>3. \A c \in Columns : held[c] = row[c]
    BY <1>6, <2>2
  <2>4. held = row
    BY <1>6, <2>3 DEF Row
  <2>5. lacking.free = 0 /\ lacking.locked = 0
    BY <1>7, <2>1
  <2> QED
    BY <1>7, <2>4, <2>5 DEF NotShort
<1> QED
  BY <1>6, <1>9, <1>10, <1>11 DEF free, locked, held, lacking

\* The two ways of a release, in these terms.
LEMMA ReleaseIs ==
  ASSUME NEW j \in Jobs, NEW base, NEW quote, NEW errors, NEW noted,
         PushRelease(j, base, quote, errors, noted)
  PROVE  LET u == taker[j].user
             side == taker[j].side
             exact == Traded(Released(read[j], side, Remaining(j)), side, base, quote)
             again == IF rows[u] = <<>> THEN {} ELSE {"reread"}
         IN
         /\ \/ /\ read[j][LockedOf(side)] > 0
               /\ \E e \in errors :
                    LET held == RoundedDown(exact, side, e)
                    IN  /\ rows' = [rows EXCEPT ![u] = Append(@, held)]
                        /\ short' = [short EXCEPT ![j] = Lacking(exact, held, side)]
               /\ entries' = [entries EXCEPT ![u] = Entry(@, side, base, quote)]
               /\ anomaly' = anomaly \union again \union noted
            \/ /\ read[j][LockedOf(side)] <= 0
               /\ rows' = [rows EXCEPT ![u] = Append(@, read[j])]
               /\ anomaly' = anomaly \union again \union noted \union {"notReleased"}
               /\ entries' = entries /\ short' = short
         /\ cache' = cache
  BY DEF PushRelease, Released, Lacking

LEMMA PushReleaseTypes ==
  ASSUME ArraysOK, short \in [Jobs -> Shortage], \A j \in Jobs : short[j].free + short[j].locked \in -1 .. 1,
         NEW j \in Jobs, taker[j].user \in Users, taker[j].side \in Sides,
         read[j] \in Row, Remaining(j) \in Nat, NEW base \in Nat, NEW quote \in Nat,
         NEW errors \in SUBSET FloatErrors, NEW noted \in SUBSET Anomalies,
         PushRelease(j, base, quote, errors, noted)
  PROVE  /\ ArraysOK'
         /\ short' \in [Jobs -> Shortage] /\ \A i \in Jobs \ {j} : short'[i] = short[i]
         /\ short'[j].free + short'[j].locked \in -1 .. 1
<1> DEFINE u == taker[j].user
           side == taker[j].side
           exact == Traded(Released(read[j], side, Remaining(j)), side, base, quote)
           again == IF rows[u] = <<>> THEN {} ELSE {"reread"}
<1>1. exact \in Row
  BY ReleasedTypes, RowTypes
<1> HIDE DEF exact
<1>2. \A e \in errors : /\ RoundedDown(exact, side, e) \in Row
                        /\ Lacking(exact, RoundedDown(exact, side, e), side) \in Shortage
                        /\ Lacking(exact, RoundedDown(exact, side, e), side).free
                           + Lacking(exact, RoundedDown(exact, side, e), side).locked \in -1 .. 1
  BY <1>1, RoundedTypes
<1>3. /\ \E new \in Row : rows' = [rows EXCEPT ![u] = Append(@, new)]
      /\ entries' = entries \/ entries' = [entries EXCEPT ![u] = Entry(@, side, base, quote)]
      /\ anomaly' = anomaly \union again \union noted
         \/ anomaly' = anomaly \union again \union noted \union {"notReleased"}
      /\ cache' = cache
      /\ \/ short' = short
         \/ \E lack \in Shortage : /\ short' = [short EXCEPT ![j] = lack]
                                   /\ lack.free + lack.locked \in -1 .. 1
  BY <1>2, ReleaseIs DEF exact
<1>4. PICK new \in Row : rows' = [rows EXCEPT ![u] = Append(@, new)]
  BY <1>3
<1>5. rows[u] \in Seq(Row)
  BY DEF ArraysOK
<1>6. Append(rows[u], new) \in Seq(Row) /\ Len(Append(rows[u], new)) = Len(rows[u]) + 1
  BY <1>4, <1>5
<1>7. rows' \in [Users -> Seq(Row)]
  BY <1>4, <1>6 DEF ArraysOK
<1>8. Entry(entries[u], side, base, quote) \in [base : Int, quote : Int]
  BY EntryTypes DEF ArraysOK
<1>9. entries' \in [Users -> [base : Int, quote : Int]]
  BY <1>3, <1>8 DEF ArraysOK
<1>10. anomaly' \subseteq Anomalies
  <2>1. again \subseteq Anomalies /\ {"notReleased"} \subseteq Anomalies
    BY DEF Anomalies
  <2> QED
    BY <1>3, <2>1 DEF ArraysOK
<1>11. Cached'
  <2> SUFFICES ASSUME cache.user \in Users PROVE cache.at \in 1 .. Len(rows'[cache.user])
    BY <1>3 DEF Cached
  <2>1. cache.at \in 1 .. Len(rows[cache.user])
    BY DEF ArraysOK, Cached
  <2>2. rows'[cache.user] = rows[cache.user] \/ (cache.user = u /\ rows'[u] = Append(rows[u], new))
    BY <1>4 DEF ArraysOK
  <2> QED
    BY <1>5, <1>6, <2>1, <2>2
<1>12. ArraysOK'
  BY <1>3, <1>7, <1>9, <1>10, <1>11 DEF ArraysOK
<1> QED
  BY <1>3, <1>12

\* What is saved of a user's rows.
LEMMA SavedTypes == ASSUME TypeOK, NEW u \in Users PROVE Saved(u) \in Row
<1>1. rows[u] \in Seq(Row) /\ balance[u] \in Row
  BY DEF TypeOK, Row
<1>2. ASSUME NEW c \in Columns
      PROVE  LET changed == {i \in DOMAIN rows[u] : rows[u][i][c] # balance[u][c]}
             IN  (IF changed = {} THEN balance[u][c] ELSE rows[u][Max(changed)][c]) \in Int
  <2> DEFINE changed == {i \in DOMAIN rows[u] : rows[u][i][c] # balance[u][c]}
  <2>1. CASE changed = {}
    BY <1>1, <2>1 DEF Row
  <2>2. CASE changed # {}
    <3>1. Len(rows[u]) \in Nat /\ changed \in SUBSET (1 .. Len(rows[u]))
      BY <1>1
    <3> HIDE DEF changed
    <3>2. Max(changed) \in 1 .. Len(rows[u])
      BY <2>2, <3>1, MaxOfSome
    <3>3. rows[u][Max(changed)] \in Row
      BY <1>1, <3>2
    <3> QED
      BY <2>2, <3>3 DEF Row, changed
  <2> QED
    BY <2>1, <2>2
<1> QED
  BY <1>2 DEF Saved, Row

-----------------------------------------------------------------------------
(***************************************************************************)
(* The steps of a job keep the types and the bounds.                       *)
(***************************************************************************)
LEMMA StartStep == ASSUME IInv, NEW j \in Jobs, Start(j) PROVE IInv'
<1> USE DEF IInv
<1>1. /\ pc[j] = "queued" /\ pc' = [pc EXCEPT ![j] = pc'[j]] /\ pc'[j] \in PcValues
      /\ pc'[j] \notin {"read", "settle"}
      /\ UNCHANGED <<maker, taker, book, tail, balance, ledger, rows, cache, entries,
                     filled, fill, read, faults, short>>
  BY DEF Start, Goto, TypeOK, PcValues, orders, redis, postgres, engine
<1> DEFINE copies(others) == {[id |-> m, base |-> book[m].base, quote |-> book[m].quote,
                               place |-> book[m].place] : m \in others}
<1>2. \/ snap' = snap /\ anomaly' = anomaly
      \/ /\ \E others \in SUBSET {m \in Makers : maker[m].side = Opposite(taker[j].side)
                                                /\ maker[m].user # taker[j].user} :
              snap' = [snap EXCEPT ![j] = copies(others)]
         /\ anomaly' = anomaly \/ anomaly' = anomaly \union {"overlap"}
  BY DEF Start
<1>3. TypeOK'
  <2>1. \A others \in SUBSET Makers :
          copies(others) \subseteq [id : Makers, base : Nat, quote : Nat, place : Nat]
    BY DEF TypeOK
  <2>2. snap' \in [Jobs -> SUBSET [id : Makers, base : Nat, quote : Nat, place : Nat]]
    <3> DEFINE Copies == [id : Makers, base : Nat, quote : Nat, place : Nat]
    <3>1. snap' = snap \/ \E others \in SUBSET Makers : snap' = [snap EXCEPT ![j] = copies(others)]
      BY <1>2
    <3>2. snap' = snap \/ \E new \in SUBSET Copies : snap' = [snap EXCEPT ![j] = new]
      BY <2>1, <3>1
    <3>3. snap \in [Jobs -> SUBSET Copies]
      BY DEF TypeOK
    <3> HIDE DEF Copies
    <3>4. snap' \in [Jobs -> SUBSET Copies]
      BY <3>2, <3>3
    <3> QED
      BY <3>4 DEF Copies
  <2>3. anomaly' \subseteq Anomalies
    BY <1>2 DEF TypeOK, Anomalies
  <2>4. pc' \in [Jobs -> PcValues]
    BY <1>1 DEF TypeOK
  <2> HIDE DEF copies
  <2> QED
    BY <1>1, <2>2, <2>3, <2>4 DEF TypeOK
<1>4. Bounded'
  <2> SUFFICES ASSUME NEW i \in Jobs, NEW s \in snap'[i]
               PROVE  /\ maker[s.id].side = Opposite(taker[i].side)
                      /\ maker[s.id].user # taker[i].user /\ Within(s.id, s)
                      /\ \A r \in snap'[i] : r.id = s.id => r = s
    BY <1>1 DEF Bounded, Within, Remaining
  <2>1. CASE s \in snap[i] /\ snap'[i] = snap[i]
    BY <2>1 DEF Bounded
  <2>2. CASE ~(s \in snap[i] /\ snap'[i] = snap[i])
    <3>1. PICK others \in SUBSET {m \in Makers : maker[m].side = Opposite(taker[j].side)
                                                /\ maker[m].user # taker[j].user} :
              snap' = [snap EXCEPT ![j] = copies(others)]
      BY <1>2, <2>2
    <3>2. i = j /\ snap'[i] = copies(others)
      BY <2>2, <3>1
    <3>3. PICK m \in others : s = [id |-> m, base |-> book[m].base, quote |-> book[m].quote,
                                   place |-> book[m].place]
      BY <3>2
    <3>4. Within(m, book[m]) => Within(m, s)
      BY <3>3 DEF Within, Counted
    <3> QED
      BY <3>1, <3>2, <3>3, <3>4 DEF Bounded
  <2> QED
    BY <2>1, <2>2
<1>5. Settling' /\ Cached'
  <2>1. \A i \in Jobs : pc'[i] \in {"read", "settle"} => pc[i] = pc'[i]
    BY <1>1 DEF TypeOK
  <2> QED
    BY <1>1, <2>1 DEF Settling, Cached
<1>6. Fresh'
  BY <1>1 DEF Fresh, Unpushed, TypeOK, PcValues
<1> QED
  BY <1>3, <1>4, <1>5, <1>6

LEMMA MatchStep == ASSUME IInv, NEW j \in Jobs, Match(j) PROVE IInv'
<1> USE DEF IInv
<1>1. /\ pc[j] = "match" /\ pc' = [pc EXCEPT ![j] = "read"]
      /\ UNCHANGED <<maker, taker, balance, ledger, rows, cache, entries, read, faults, short,
                     anomaly>>
  BY DEF Match, Goto, orders, postgres, engine
<1>2. PICK s \in snap[j] :
       LET f == FillOf(j, s)
           base == s.base + f.base
           quote == s.quote + f.quote
           gone == Exhausted(s.id, base, quote)
       IN
       /\ \A r \in snap[j] : Before(s.id, s.place, r.id, r.place)
       /\ snap' = [snap EXCEPT ![j] = @ \ {s}]
       /\ fill' = [fill EXCEPT ![j] = f]
       /\ filled' = [filled EXCEPT ![j] = [base |-> @.base + f.base,
                                           quote |-> @.quote + f.quote]]
       /\ tail' = IF gone THEN tail ELSE tail + 1
       /\ book' = [book EXCEPT ![s.id] =
            [base |-> base, quote |-> quote, place |-> IF gone THEN 0 ELSE tail + 1]]
  BY DEF Match
<1> DEFINE f == FillOf(j, s)
           place == IF Exhausted(s.id, s.base + f.base, s.quote + f.quote) THEN 0 ELSE tail + 1
           new == [base |-> s.base + f.base, quote |-> s.quote + f.quote, place |-> place]
<1>3. /\ f \in [id : {s.id}, base : Nat, quote : Nat] /\ s \in Copy
      /\ Counted(taker[j].side, f) <= Remaining(j)
      /\ Counted(taker[j].side, f) <= Counted(taker[j].side, maker[s.id]) - Counted(taker[j].side, s)
      /\ Remaining(j) \in Nat
  BY Fill
<1>4. /\ maker[s.id] \in Order /\ taker[j] \in Taking /\ filled[j] \in [base : Nat, quote : Nat]
      /\ maker[s.id].side = Opposite(taker[j].side) /\ tail \in Nat /\ s.id \in Makers
  BY <1>3, OrderTypes DEF TypeOK, Bounded, Amounts, Copy
<1>5. /\ snap' = [snap EXCEPT ![j] = @ \ {s}] /\ fill' = [fill EXCEPT ![j] = f]
      /\ filled' = [filled EXCEPT ![j] = [base |-> @.base + f.base, quote |-> @.quote + f.quote]]
      /\ book' = [book EXCEPT ![s.id] = new]
      /\ tail' \in {tail, tail + 1}
  BY <1>2
<1> HIDE DEF f
<1>6. place \in Nat
  BY <1>4
<1> HIDE DEF place
<1>7. new \in [base : Nat, quote : Nat, place : Nat]
  BY <1>3, <1>6 DEF Copy
<1>8. TypeOK'
  <2>1. /\ book' \in [Makers -> [base : Nat, quote : Nat, place : Nat]] /\ tail' \in Nat
    <3> HIDE DEF new
    <3>1. book \in [Makers -> [base : Nat, quote : Nat, place : Nat]]
      BY DEF TypeOK
    <3> QED
      BY <1>4, <1>5, <1>7, <3>1
  <2>2. filled' \in [Jobs -> Amounts]
    <3>1. [base |-> filled[j].base + f.base, quote |-> filled[j].quote + f.quote] \in Amounts
      BY <1>3, <1>4 DEF Amounts
    <3> QED
      BY <1>5, <3>1 DEF TypeOK
  <2>3. fill' \in [Jobs -> [id : Makers \union {NoUser}, base : Nat, quote : Nat]]
    BY <1>3, <1>4, <1>5 DEF TypeOK
  <2>4. pc' \in [Jobs -> PcValues]
    BY <1>1 DEF TypeOK, PcValues
  <2>5. snap' \in [Jobs -> SUBSET [id : Makers, base : Nat, quote : Nat, place : Nat]]
    BY <1>5 DEF TypeOK
  <2> QED
    BY <1>1, <2>1, <2>2, <2>3, <2>4, <2>5 DEF TypeOK
<1>9. \A m \in Makers : Within(m, book[m])'
  <2> SUFFICES ASSUME NEW m \in Makers PROVE Within(m, book[m])'
    OBVIOUS
  <2>1. CASE m = s.id
    <3>1. book'[m] = new
      BY <1>4, <1>5, <2>1 DEF TypeOK
    <3>2. Counted(taker[j].side, new) <= Counted(taker[j].side, maker[m])
      <4>1. CASE taker[j].side = "BUY"
        BY <1>3, <1>4, <2>1, <4>1 DEF Counted, Copy, Order
      <4>2. CASE taker[j].side # "BUY"
        BY <1>3, <1>4, <2>1, <4>2 DEF Counted, Copy, Order
      <4> QED
        BY <4>1, <4>2
    <3>3. Opposite(maker[m].side) = taker[j].side
      BY <1>4, <2>1 DEF Opposite, Taking, Sides
    <3> HIDE DEF new
    <3> QED
      BY <1>1, <3>1, <3>2, <3>3 DEF Within
  <2>2. CASE m # s.id
    <3>1. book'[m] = book[m]
      BY <1>5, <2>2
    <3> QED
      BY <1>1, <3>1 DEF Within, Bounded
  <2> QED
    BY <2>1, <2>2
<1>10. \A i \in Jobs : Remaining(i)' >= 0
  <2> SUFFICES ASSUME NEW i \in Jobs PROVE Remaining(i)' >= 0
    OBVIOUS
  <2>1. CASE i = j
    <3>1. filled'[j] = [base |-> filled[j].base + f.base, quote |-> filled[j].quote + f.quote]
      BY <1>5 DEF TypeOK
    <3>2. Remaining(j)' = Remaining(j) - Counted(taker[j].side, f)
      BY <1>1, <1>3, <1>4, <3>1 DEF Remaining, Counted, Taking
    <3>3. Counted(taker[j].side, f) \in Nat
      BY <1>3 DEF Counted
    <3> QED
      BY <1>3, <2>1, <3>2, <3>3
  <2>2. CASE i # j
    <3>1. filled'[i] = filled[i]
      BY <1>5, <2>2
    <3> QED
      BY <1>1, <3>1 DEF Remaining, Bounded
  <2> QED
    BY <2>1, <2>2
<1>11. Bounded'
  <2>1. \A i \in Jobs : snap'[i] \subseteq snap[i]
    BY <1>5
  <2> QED
    BY <1>1, <1>9, <1>10, <2>1 DEF Bounded, Within
<1>12. Settling' /\ Cached'
  <2>1. \A i \in Jobs : fill'[i] = fill[i] \/ (i = j /\ fill'[i].id = s.id)
    BY <1>3, <1>5 DEF TypeOK
  <2>2. \A i \in Jobs : pc'[i] = pc[i] \/ i = j
    BY <1>1
  <2>3. Settling'
    <3> SUFFICES ASSUME NEW i \in Jobs, pc'[i] \in {"read", "settle"}
                 PROVE  fill'[i].id \in Makers /\ maker[fill'[i].id].side = Opposite(taker[i].side)
      BY <1>1 DEF Settling
    <3>1. CASE i = j
      <4>1. fill'[j].id = s.id
        BY <1>3, <1>5 DEF TypeOK
      <4> QED
        BY <1>4, <3>1, <4>1
    <3>2. CASE i # j
      BY <2>1, <2>2, <3>2 DEF Settling
    <3> QED
      BY <3>1, <3>2
  <2> QED
    BY <1>1, <2>3 DEF Cached
<1>13. Fresh'
  BY <1>1 DEF Fresh, Unpushed, TypeOK, PcValues
<1> QED
  BY <1>8, <1>11, <1>12, <1>13

\* A job that reads rows, or changes the arrays, keeps the orders as they are.
LEMMA ArraysStep ==
  ASSUME IInv, NEW j \in Jobs, ArraysOK', NEW label \in PcValues, label \notin {"read", "settle"},
         pc' = [pc EXCEPT ![j] = label],
         UNCHANGED <<maker, taker, book, tail, balance, ledger, snap, filled, fill, read, faults>>,
         ShortOK'
  PROVE  IInv'
<1>1. TypeOK'
  BY DEF IInv, TypeOK, ArraysOK, Row, ShortOK, Shortage
<1>2. Bounded'
  BY DEF IInv, Bounded, Within, Remaining
<1>3. Settling' /\ Cached'
  BY DEF IInv, Settling, ArraysOK
<1> QED
  BY <1>1, <1>2, <1>3 DEF IInv, ShortOK

\* A job that releases nothing keeps the history, when it comes no earlier again.
LEMMA ShortSame ==
  ASSUME IInv, short' = short, \A i \in Jobs : pc'[i] \in Unpushed => pc[i] \in Unpushed
  PROVE  ShortOK'
  BY DEF IInv, TypeOK, Fresh, ShortOK, Shortage

LEMMA ReadStep == ASSUME IInv, NEW j \in Jobs, ReadMaker(j) \/ ReadTaker(j) PROVE IInv'
<1>1. PICK u \in Users : read' = [read EXCEPT ![j] = balance[u]]
  <2>1. CASE ReadMaker(j)
    <3>1. fill[j].id \in Makers
      BY <2>1 DEF IInv, Settling, ReadMaker
    <3>2. maker[fill[j].id].user \in Users
      BY <3>1, OrderTypes DEF IInv, TypeOK, Order
    <3> QED
      BY <2>1, <3>2 DEF ReadMaker
  <2>2. CASE ReadTaker(j)
    <3>1. taker[j].user \in Users
      BY OrderTypes DEF IInv, TypeOK, Taking
    <3> QED
      BY <2>2, <3>1 DEF ReadTaker
  <2> QED
    BY <2>1, <2>2
<1>2. /\ (pc[j] = "read" /\ pc' = [pc EXCEPT ![j] = "settle"])
         \/ (pc[j] = "close" /\ pc' = [pc EXCEPT ![j] = "finish"])
      /\ UNCHANGED <<maker, taker, book, tail, balance, ledger, rows, cache, entries,
                     snap, filled, fill, faults, short, anomaly>>
  BY DEF ReadMaker, ReadTaker, Goto, orders, redis, postgres, engine
<1>3. TypeOK'
  BY <1>1, <1>2 DEF IInv, TypeOK, PcValues
<1>4. Bounded' /\ Cached'
  BY <1>2 DEF IInv, Bounded, Within, Remaining, Cached
<1>5. Settling'
  BY <1>2 DEF IInv, Settling, TypeOK
<1>6. Fresh'
  BY <1>2 DEF IInv, Fresh, Unpushed, TypeOK, PcValues
<1> QED
  BY <1>3, <1>4, <1>5, <1>6 DEF IInv

LEMMA TypesOfArrays ==
  ASSUME IInv
  PROVE  /\ ArraysOK
         /\ \A j \in Jobs : /\ taker[j].user \in Users /\ taker[j].side \in Sides
                            /\ taker[j].amount \in Nat \ {0}
                            /\ filled[j].base \in Nat /\ filled[j].quote \in Nat
                            /\ fill[j].base \in Nat /\ fill[j].quote \in Nat
                            /\ read[j] \in Row /\ Remaining(j) \in Nat
<1>1. ArraysOK
  BY DEF IInv, TypeOK, ArraysOK, Row
<1>2. ASSUME NEW j \in Jobs
      PROVE  /\ taker[j] \in Taking /\ filled[j] \in [base : Nat, quote : Nat]
             /\ read[j] \in Row /\ fill[j].base \in Nat /\ fill[j].quote \in Nat
             /\ Remaining(j) >= 0
  BY OrderTypes DEF IInv, TypeOK, Row, Amounts, Bounded
<1>3. ASSUME NEW j \in Jobs PROVE Remaining(j) \in Nat
  BY <1>2 DEF Remaining, Taking
<1> QED
  BY <1>1, <1>2, <1>3 DEF Taking

LEMMA SettleStep == ASSUME IInv, NEW j \in Jobs, SettleMaker(j) PROVE IInv'
<1> DEFINE m == maker[fill[j].id]
<1>1. PushTrade(m.user, m.side, read[j], fill[j].base, fill[j].quote)
  BY DEF SettleMaker
<1>2. m \in Order
  BY OrderTypes DEF IInv, TypeOK, Settling, SettleMaker
<1>3. m.user \in Users /\ m.side \in Sides
  BY <1>2 DEF Order
<1> HIDE DEF m
<1>4. ArraysOK'
  BY <1>1, <1>3, TypesOfArrays, PushTradeTypes
<1>5. /\ pc' = [pc EXCEPT ![j] = IF Remaining(j) <= 0 \/ snap[j] = {} THEN "close" ELSE "match"]
      /\ UNCHANGED <<maker, taker, book, tail, balance, ledger, snap, filled, fill, read, faults>>
      /\ pc[j] = "settle" /\ short' = short
  BY DEF SettleMaker, Goto, orders, redis, postgres, local
<1>6. \A i \in Jobs : pc'[i] \in Unpushed => pc[i] \in Unpushed
  BY <1>5 DEF IInv, TypeOK, Unpushed, PcValues
<1>7. ShortOK'
  BY <1>5, <1>6, ShortSame
<1> QED
  BY <1>4, <1>5, <1>7, ArraysStep DEF PcValues

LEMMA FinishStep == ASSUME IInv, NEW j \in Jobs, FinishTaker(j) PROVE IInv'
<1> DEFINE u == taker[j].user
           side == taker[j].side
           spent == taker[j].amount - Remaining(j)
           noted == IF spent > 0 THEN {"spentForNothing"} ELSE {}
           errors == IF side = "SELL" THEN FloatErrors ELSE {NoError}
<1>1. \/ PushTrade(u, side, read[j], filled[j].base, filled[j].quote) /\ short' = short
      \/ PushRelease(j, filled[j].base, filled[j].quote, errors, {})
      \/ PushRelease(j, 0, 0, {NoError}, noted)
  BY DEF FinishTaker
<1>2. /\ noted \in SUBSET Anomalies /\ {} \in SUBSET Anomalies /\ 0 \in Nat
      /\ errors \in SUBSET FloatErrors /\ {NoError} \in SUBSET FloatErrors
  BY DEF Anomalies, FloatErrors, NoError
<1> HIDE DEF noted, errors
<1>3. /\ pc' = [pc EXCEPT ![j] = "write"]
      /\ UNCHANGED <<maker, taker, book, tail, balance, ledger, snap, filled, fill, read, faults>>
  BY DEF FinishTaker, Goto, orders, redis, postgres, local
<1>4. \A i \in Jobs : pc'[i] \in Unpushed => pc[i] \in Unpushed /\ i # j
  BY <1>3 DEF IInv, TypeOK, Unpushed
<1>5. /\ short \in [Jobs -> Shortage] /\ Fresh
      /\ \A i \in Jobs : short[i].free + short[i].locked \in -1 .. 1
  BY DEF IInv, TypeOK, Shortage
<1>6. ArraysOK' /\ ShortOK'
  <2>1. /\ ArraysOK /\ u \in Users /\ side \in Sides /\ read[j] \in Row /\ Remaining(j) \in Nat
        /\ filled[j].base \in Nat /\ filled[j].quote \in Nat
    BY TypesOfArrays
  <2>2. CASE PushTrade(u, side, read[j], filled[j].base, filled[j].quote) /\ short' = short
    <3> HIDE DEF u, side
    <3>1. ArraysOK'
      BY <2>1, <2>2, PushTradeTypes
    <3> QED
      BY <1>4, <2>2, <3>1, ShortSame
  <2>3. ASSUME NEW base \in Nat, NEW quote \in Nat, NEW some \in SUBSET FloatErrors,
               NEW names \in SUBSET Anomalies, PushRelease(j, base, quote, some, names)
        PROVE  ArraysOK' /\ ShortOK'
    <3>1. /\ ArraysOK'
          /\ short' \in [Jobs -> Shortage] /\ \A i \in Jobs \ {j} : short'[i] = short[i]
          /\ short'[j].free + short'[j].locked \in -1 .. 1
      BY <1>5, <2>1, <2>3, PushReleaseTypes
    <3>2. \A i \in Jobs : short'[i].free + short'[i].locked \in -1 .. 1
      BY <1>5, <3>1
    <3>3. Fresh'
      BY <1>4, <1>5, <3>1 DEF Fresh
    <3> QED
      BY <3>1, <3>2, <3>3 DEF ShortOK
  <2>4. CASE PushRelease(j, filled[j].base, filled[j].quote, errors, {})
    BY <1>2, <2>1, <2>3, <2>4
  <2>5. CASE PushRelease(j, 0, 0, {NoError}, noted)
    BY <1>2, <2>3, <2>5
  <2> QED
    BY <1>1, <2>2, <2>4, <2>5
<1> QED
  BY <1>3, <1>6, ArraysStep DEF PcValues

LEMMA WriteStep == ASSUME IInv, NEW j \in Jobs, WriteToDB(j) PROVE IInv'
<1>1. /\ balance' = [u \in Users |-> Saved(u)]
      /\ ledger' = [u \in Users |-> [base |-> ledger[u].base + entries[u].base,
                                     quote |-> ledger[u].quote + entries[u].quote]]
      /\ pc' = [pc EXCEPT ![j] = "reset"]
      /\ UNCHANGED <<maker, taker, book, tail, rows, cache, entries,
                     snap, filled, fill, read, faults, short, anomaly>>
      /\ pc[j] = "write"
  BY DEF WriteToDB, Goto, orders, redis, engine, local
<1>2. balance' \in [Users -> Row]
  BY <1>1, SavedTypes DEF IInv
<1>3. ledger' \in [Users -> [base : Int, quote : Int]]
  <2>1. ledger \in [Users -> [base : Int, quote : Int]]
    BY DEF IInv, TypeOK
  <2>2. entries \in [Users -> [base : Int, quote : Int]]
    BY DEF IInv, TypeOK
  <2>3. ASSUME NEW u \in Users
        PROVE  /\ ledger[u].base + entries[u].base \in Int
               /\ ledger[u].quote + entries[u].quote \in Int
    BY <2>1, <2>2
  <2> QED
    BY <1>1, <2>3
<1>4. TypeOK'
  BY <1>1, <1>2, <1>3 DEF IInv, TypeOK, Row, PcValues
<1>5. Bounded' /\ Cached' /\ Settling'
  BY <1>1 DEF IInv, Bounded, Within, Remaining, Cached, Settling
<1>6. Fresh'
  BY <1>1 DEF IInv, Fresh, Unpushed, TypeOK
<1> QED
  BY <1>4, <1>5, <1>6 DEF IInv

\* The arrays are emptied: after the job, or by the death of the process.
LEMMA EmptyArrays ==
  ASSUME rows' = [u \in Users |-> <<>>], cache' = NoCache, entries' = [u \in Users |-> Nothing],
         anomaly' \subseteq Anomalies
  PROVE  ArraysOK'
<1>1. <<>> \in Seq(Row)
  OBVIOUS
<1>2. Nothing \in [base : Int, quote : Int] /\ NoCache \in [user : Users \union {NoUser}, at : Nat]
  BY DEF Nothing, NoCache
<1>3. NoCache.user \notin Users
  BY DEF NoCache
<1> QED
  BY <1>1, <1>2, <1>3 DEF ArraysOK, Cached

LEMMA ResetStep == ASSUME IInv, NEW j \in Jobs, Reset(j) PROVE IInv'
<1>1. anomaly' \subseteq Anomalies
  BY DEF Reset, IInv, TypeOK
<1>2. ArraysOK'
  BY <1>1, EmptyArrays DEF Reset
<1>3. /\ pc[j] = "reset" /\ pc' = [pc EXCEPT ![j] = "done"] /\ short' = short
      /\ UNCHANGED <<maker, taker, book, tail, balance, ledger, snap, filled, fill, read, faults>>
  BY DEF Reset, Goto, orders, redis, postgres, local
<1>4. \A i \in Jobs : pc'[i] \in Unpushed => pc[i] \in Unpushed
  BY <1>3 DEF IInv, TypeOK, Unpushed
<1>5. ShortOK'
  BY <1>3, <1>4, ShortSame
<1> QED
  BY <1>2, <1>3, <1>5, ArraysStep DEF PcValues

LEMMA CrashStep == ASSUME IInv, Crash PROVE IInv'
<1>1. anomaly' \subseteq Anomalies
  BY DEF Crash, IInv, TypeOK, Anomalies
<1>2. ArraysOK'
  BY <1>1, EmptyArrays DEF Crash
<1>3. /\ pc' = [j \in Jobs |-> IF Active(j) THEN "lost" ELSE pc[j]]
      /\ faults' = faults + 1 /\ faults < MaxFaults
      /\ short' = [j \in Jobs |-> IF pc[j] = "write" THEN NotShort ELSE short[j]]
      /\ UNCHANGED <<maker, taker, book, tail, balance, ledger, snap, filled, fill, read>>
  BY DEF Crash, orders, redis, postgres, local
<1>4. pc' \in [Jobs -> PcValues]
  BY <1>3 DEF IInv, TypeOK, PcValues
<1>5. faults' \in 0 .. MaxFaults
  BY <1>3 DEF IInv, TypeOK
<1>9. /\ short' \in [Jobs -> [free : -1 .. 1, locked : -1 .. 1]]
      /\ \A j \in Jobs : short'[j].free + short'[j].locked \in -1 .. 1
  BY <1>3 DEF IInv, TypeOK, NotShort
<1>10. Fresh'
  <2> SUFFICES ASSUME NEW j \in Jobs, pc'[j] \in Unpushed PROVE short'[j] = NotShort
    BY DEF Fresh
  <2>1. pc'[j] = IF Active(j) THEN "lost" ELSE pc[j]
    BY <1>3
  <2>2. pc[j] \in Unpushed
    BY <2>1 DEF Unpushed
  <2> QED
    BY <1>3, <2>2 DEF IInv, Fresh
<1>6. TypeOK'
  BY <1>2, <1>3, <1>4, <1>5, <1>9 DEF IInv, TypeOK, ArraysOK, Row
<1>7. Bounded'
  BY <1>3 DEF IInv, Bounded, Within, Remaining
<1>8. Settling'
  BY <1>3 DEF IInv, Settling, Active
<1> QED
  BY <1>2, <1>6, <1>7, <1>8, <1>10 DEF IInv, ArraysOK

LEMMA StutterStep == ASSUME IInv, UNCHANGED vars PROVE IInv'
  BY DEF vars, orders, redis, postgres, engine, local, IInv, TypeOK, Bounded, Within, Remaining,
         Settling, Cached, Fresh

LEMMA Step == IInv /\ [Next]_vars => IInv'
  BY StartStep, MatchStep, ReadStep, SettleStep, FinishStep, WriteStep, ResetStep, CrashStep,
     StutterStep DEF Next, JobStep, Terminated

LEMMA Invariance == Spec => []IInv
  BY InitialStates, Step, PTL DEF Spec

\* Every variable has its type: above all no fill, and no filled amount, is ever
\* negative, however the jobs and their copies of the book overlap
\* (order.matchingengin.ts:217-223, 416-419).
THEOREM FillsAreAmounts == Spec => []TypeOK
  BY Invariance, PTL DEF IInv

-----------------------------------------------------------------------------
(***************************************************************************)
(* Rounding.  A job visits a maker once, since it holds one copy of it; so *)
(* the value of a maker in the book, and any copy of it, went through no   *)
(* more fills than there are jobs that have visited it.                    *)
(***************************************************************************)

\* The jobs that have had their turn at maker m, or will have none.
Visitors(m) == {j \in Jobs : pc[j] # "queued" /\ \A s \in snap[j] : s.id # m}

\* n fills of maker m lost less than n units to rounding, always to one side.
Rounded(m, x, n) ==
  LET base == x.base * maker[m].price
      quote == x.quote * Scale
  IN  IF maker[m].side = "SELL" THEN base <= quote /\ quote <= base + n * maker[m].price
                                ELSE quote <= base /\ base <= quote + n * Scale

Rounding ==
  /\ \A m \in Makers : Rounded(m, book[m], Cardinality(Visitors(m)))
  /\ \A j \in Jobs : \A s \in snap[j] : Rounded(s.id, s, Cardinality(Visitors(s.id)))
  /\ \A m \in Makers : book[m].place = 0 => Exhausted(m, book[m].base, book[m].quote)

LEMMA Distribute ==
  ASSUME NEW a \in Nat, NEW b \in Nat, NEW c \in Nat
  PROVE  (a + b) * c = a * c + b * c
  OBVIOUS

LEMMA Monotone ==
  ASSUME NEW n \in Nat, NEW k \in Nat, NEW p \in Nat, n <= k
  PROVE  n * p <= k * p
<1>1. k * p = n * p + (k - n) * p
  OBVIOUS
<1>2. (k - n) * p \in Nat
  <2>1. k - n \in Nat
    OBVIOUS
  <2> QED
    BY <2>1, Product
<1>3. n * p \in Nat
  BY Product
<1> QED
  BY <1>1, <1>2, <1>3

LEMMA RoundedMore ==
  ASSUME NEW m \in Makers, maker[m] \in Order, NEW x, x.base \in Nat, x.quote \in Nat,
         NEW n \in Nat, NEW k \in Nat, n <= k, Rounded(m, x, n)
  PROVE  Rounded(m, x, k)
<1> DEFINE p == maker[m].price
<1>1. p \in Nat /\ Scale \in Nat
  BY DEF Order
<1>2. n * p <= k * p /\ n * Scale <= k * Scale
  BY <1>1, Monotone
<1>3. /\ n * p \in Nat /\ k * p \in Nat /\ n * Scale \in Nat /\ k * Scale \in Nat
      /\ x.base * p \in Nat /\ x.quote * Scale \in Nat
  BY <1>1, Product
<1> QED
  BY <1>2, <1>3 DEF Rounded

\* One more fill rounds once more.
LEMMA RoundedFill ==
  ASSUME IInv, NEW j \in Jobs, NEW s \in snap[j], NEW n \in Nat, Rounded(s.id, s, n),
         NEW x, x.base = s.base + FillOf(j, s).base, x.quote = s.quote + FillOf(j, s).quote
  PROVE  Rounded(s.id, x, n + 1)
<1> DEFINE f == FillOf(j, s)
<1>1. /\ f.base \in Nat /\ f.quote \in Nat /\ s.base \in Nat /\ s.quote \in Nat /\ s.id \in Makers
  BY Fill DEF Copy
<1>2. /\ maker[s.id] \in Order /\ taker[j] \in Taking
      /\ maker[s.id].side = Opposite(taker[j].side)
  BY <1>1, OrderTypes DEF IInv, TypeOK, Bounded
<1>3. PICK p \in Nat \ {0} : p = maker[s.id].price
  BY <1>2 DEF Order
<1>4. PICK fb \in Nat, fq \in Nat, sb \in Nat, sq \in Nat :
        fb = f.base /\ fq = f.quote /\ sb = s.base /\ sq = s.quote
  BY <1>1
<1>5. /\ (sb + fb) * p = sb * p + fb * p /\ (sq + fq) * Scale = sq * Scale + fq * Scale
      /\ (n + 1) * p = n * p + p /\ (n + 1) * Scale = n * Scale + Scale
  <2>1. p \in Nat /\ Scale \in Nat /\ 1 * p = p /\ 1 * Scale = Scale /\ 1 \in Nat
    BY <1>3
  <2> QED
    BY <1>4, <2>1, Distribute
<1>6. /\ sb * p \in Nat /\ fb * p \in Nat /\ sq * Scale \in Nat /\ fq * Scale \in Nat
      /\ n * p \in Nat /\ n * Scale \in Nat
  BY <1>3, <1>4, Product
<1>7. CASE taker[j].side = "BUY"
  <2>1. f.base = BaseFor(f.quote, maker[s.id].price)
    BY <1>7 DEF FillOf
  <2>2. fb = (fq * Scale) \div p
    BY <1>3, <1>4, <2>1 DEF BaseFor
  <2>3. fb * p <= fq * Scale /\ fq * Scale < fb * p + p
    BY <1>3, <1>6, <2>2, Division
  <2>4. maker[s.id].side = "SELL"
    BY <1>2, <1>7 DEF Opposite
  <2>5. sb * p <= sq * Scale /\ sq * Scale <= sb * p + n * p
    BY <1>3, <1>4, <2>4 DEF Rounded
  <2>6. /\ (sb + fb) * p <= (sq + fq) * Scale
        /\ (sq + fq) * Scale <= (sb + fb) * p + (n + 1) * p
    BY <1>3, <1>5, <1>6, <2>3, <2>5
  <2> QED
    BY <1>3, <1>4, <2>4, <2>6 DEF Rounded
<1>8. CASE taker[j].side # "BUY"
  <2>1. f.quote = QuoteFor(f.base, maker[s.id].price)
    BY <1>8 DEF FillOf
  <2>2. fq = (fb * p) \div Scale
    BY <1>3, <1>4, <2>1 DEF QuoteFor
  <2>3. fq * Scale <= fb * p /\ fb * p < fq * Scale + Scale
    BY <1>3, <1>6, <2>2, Division
  <2>4. maker[s.id].side = "BUY"
    BY <1>2, <1>8 DEF Opposite, Taking, Sides
  <2>5. sq * Scale <= sb * p /\ sb * p <= sq * Scale + n * Scale
    BY <1>3, <1>4, <2>4 DEF Rounded
  <2>6. /\ (sq + fq) * Scale <= (sb + fb) * p
        /\ (sb + fb) * p <= (sq + fq) * Scale + (n + 1) * Scale
    BY <1>3, <1>5, <1>6, <2>3, <2>5
  <2> QED
    BY <1>3, <1>4, <2>4, <2>6 DEF Rounded
<1> QED
  BY <1>7, <1>8

LEMMA VisitorsAreJobs ==
  ASSUME NEW m
  PROVE  IsFiniteSet(Visitors(m)) /\ Cardinality(Visitors(m)) \in Nat
         /\ Cardinality(Visitors(m)) <= Cardinality(Jobs)
<1>1. Visitors(m) \in SUBSET Jobs
  BY DEF Visitors
<1> QED
  BY <1>1, FS_Subset, FS_CardinalityType

LEMMA VisitorsGrow ==
  ASSUME NEW m, Visitors(m) \subseteq Visitors(m)'
  PROVE  Cardinality(Visitors(m)) <= Cardinality(Visitors(m)')
<1>1. Visitors(m)' \in SUBSET Jobs
  BY DEF Visitors
<1>2. IsFiniteSet(Visitors(m)')
  BY <1>1, FS_Subset
<1> QED
  BY <1>2, FS_Subset

\* A step that leaves the book alone and takes no copies but of the book.
LEMMA RoundingKept ==
  ASSUME IInv, Rounding, UNCHANGED <<maker, book>>,
         \A m \in Makers : Visitors(m) \subseteq Visitors(m)',
         \A j \in Jobs : \A s \in snap'[j] :
           s \in snap[j] \/ (s.id \in Makers /\ s.base = book[s.id].base /\ s.quote = book[s.id].quote)
  PROVE  Rounding'
<1>1. \A m \in Makers : /\ Cardinality(Visitors(m)) \in Nat /\ Cardinality(Visitors(m)') \in Nat
                        /\ Cardinality(Visitors(m)) <= Cardinality(Visitors(m)')
                        /\ maker[m] \in Order /\ book[m].base \in Nat /\ book[m].quote \in Nat
  <2> TAKE m \in Makers
  <2>1. Cardinality(Visitors(m)) \in Nat /\ Cardinality(Visitors(m)') \in Nat
    <3>1. Visitors(m)' \in SUBSET Jobs
      BY DEF Visitors
    <3> QED
      BY <3>1, VisitorsAreJobs, FS_Subset, FS_CardinalityType
  <2>2. Cardinality(Visitors(m)) <= Cardinality(Visitors(m)')
    BY VisitorsGrow
  <2>3. maker[m] \in Order /\ book[m].base \in Nat /\ book[m].quote \in Nat
    BY OrderTypes DEF IInv, TypeOK
  <2> QED
    BY <2>1, <2>2, <2>3
<1>2. ASSUME NEW m \in Makers, NEW x, x.base \in Nat, x.quote \in Nat,
             Rounded(m, x, Cardinality(Visitors(m)))
      PROVE  Rounded(m, x, Cardinality(Visitors(m)'))
  BY <1>1, <1>2, RoundedMore
<1>3. \A m \in Makers : Rounded(m, book[m], Cardinality(Visitors(m)))'
  <2>1. \A m \in Makers : Rounded(m, book[m], Cardinality(Visitors(m)'))
    BY <1>1, <1>2 DEF Rounding
  <2> QED
    BY <2>1 DEF Rounded
<1>4. \A j \in Jobs : \A s \in snap'[j] : Rounded(s.id, s, Cardinality(Visitors(s.id)))'
  <2> SUFFICES ASSUME NEW j \in Jobs, NEW s \in snap'[j]
               PROVE  Rounded(s.id, s, Cardinality(Visitors(s.id)))'
    OBVIOUS
  <2>1. s.id \in Makers /\ s.base \in Nat /\ s.quote \in Nat
    BY <1>1 DEF IInv, TypeOK
  <2>2. Rounded(s.id, s, Cardinality(Visitors(s.id)))
    <3>1. CASE s \in snap[j]
      BY <3>1 DEF Rounding
    <3>2. CASE s.base = book[s.id].base /\ s.quote = book[s.id].quote
      BY <2>1, <3>2 DEF Rounding, Rounded
    <3> QED
      BY <3>1, <3>2
  <2>3. Rounded(s.id, s, Cardinality(Visitors(s.id)'))
    BY <1>2, <2>1, <2>2
  <2> QED
    BY <2>3 DEF Rounded
<1>5. \A m \in Makers : book'[m].place = 0 => Exhausted(m, book[m].base, book[m].quote)'
  BY DEF Rounding, Exhausted
<1> QED
  BY <1>3, <1>4, <1>5 DEF Rounding

LEMMA RoundingMatch == ASSUME IInv, Rounding, NEW j \in Jobs, Match(j) PROVE Rounding'
<1>1. /\ pc[j] = "match" /\ pc' = [pc EXCEPT ![j] = "read"] /\ maker' = maker
  BY DEF Match, Goto, orders
<1>2. PICK s \in snap[j] :
       LET f == FillOf(j, s)
           base == s.base + f.base
           quote == s.quote + f.quote
           gone == Exhausted(s.id, base, quote)
       IN
       /\ snap' = [snap EXCEPT ![j] = @ \ {s}]
       /\ book' = [book EXCEPT ![s.id] =
            [base |-> base, quote |-> quote, place |-> IF gone THEN 0 ELSE tail + 1]]
  BY DEF Match
<1> DEFINE f == FillOf(j, s)
           place == IF Exhausted(s.id, s.base + f.base, s.quote + f.quote) THEN 0 ELSE tail + 1
           new == [base |-> s.base + f.base, quote |-> s.quote + f.quote, place |-> place]
<1>3. s \in Copy /\ f.base \in Nat /\ f.quote \in Nat /\ tail \in Nat /\ s.id \in Makers
  BY Fill DEF IInv, TypeOK, Copy
<1>4. book' = [book EXCEPT ![s.id] = new] /\ snap' = [snap EXCEPT ![j] = @ \ {s}]
  BY <1>2
<1>5. /\ book \in [Makers -> [base : Nat, quote : Nat, place : Nat]] /\ pc \in [Jobs -> PcValues]
      /\ snap \in [Jobs -> SUBSET Copy]
  BY DEF IInv, TypeOK, Copy
<1>6. \A m : Visitors(m) \subseteq Visitors(m)'
  BY <1>1, <1>4, <1>5 DEF Visitors
<1>7. /\ Cardinality(Visitors(s.id)) \in Nat /\ Cardinality(Visitors(s.id)') \in Nat
      /\ Cardinality(Visitors(s.id)) + 1 <= Cardinality(Visitors(s.id)')
  <2> DEFINE V == Visitors(s.id)
             W == Visitors(s.id)'
  <2>1. j \notin V /\ j \in W
    BY <1>1, <1>4, <1>5 DEF Visitors, IInv, Bounded
  <2>2. W \in SUBSET Jobs /\ V \subseteq W
    BY <1>6 DEF Visitors
  <2>3. IsFiniteSet(V) /\ IsFiniteSet(W)
    BY <2>2, FS_Subset
  <2> HIDE DEF V, W
  <2>4. Cardinality(V \union {j}) = Cardinality(V) + 1 /\ IsFiniteSet(V \union {j})
    BY <2>1, <2>3, FS_AddElement
  <2>5. (V \union {j}) \in SUBSET W
    BY <2>1, <2>2
  <2>6. Cardinality(V \union {j}) <= Cardinality(W)
    BY <2>3, <2>5, FS_Subset
  <2>7. Cardinality(V) \in Nat /\ Cardinality(W) \in Nat
    BY <2>3, FS_CardinalityType
  <2> QED
    BY <2>4, <2>6, <2>7 DEF V, W
<1> HIDE DEF f, new
<1>8. Rounded(s.id, new, Cardinality(Visitors(s.id)'))
  <2>1. Rounded(s.id, s, Cardinality(Visitors(s.id)))
    BY DEF Rounding
  <2>2. Rounded(s.id, new, Cardinality(Visitors(s.id)) + 1)
    BY <1>7, <2>1, RoundedFill DEF new, f
  <2>3. new.base \in Nat /\ new.quote \in Nat /\ maker[s.id] \in Order
    <3>1. maker[s.id] \in Order
      BY <1>3, OrderTypes DEF IInv, TypeOK
    <3> QED
      BY <1>3, <3>1 DEF new, Copy
  <2>4. Cardinality(Visitors(s.id)) + 1 \in Nat
    BY <1>7
  <2> QED
    BY <1>3, <1>7, <2>2, <2>3, <2>4, RoundedMore
<1>9. ASSUME NEW m \in Makers, NEW x, x.base \in Nat, x.quote \in Nat,
             Rounded(m, x, Cardinality(Visitors(m)))
      PROVE  Rounded(m, x, Cardinality(Visitors(m)'))
  <2>1. Cardinality(Visitors(m)) \in Nat /\ Cardinality(Visitors(m)') \in Nat
    <3>1. Visitors(m)' \in SUBSET Jobs
      BY DEF Visitors
    <3> QED
      BY <3>1, VisitorsAreJobs, FS_Subset, FS_CardinalityType
  <2>2. Cardinality(Visitors(m)) <= Cardinality(Visitors(m)') /\ maker[m] \in Order
    BY <1>6, VisitorsGrow, OrderTypes DEF IInv, TypeOK
  <2> QED
    BY <1>9, <2>1, <2>2, RoundedMore
<1>10. \A m \in Makers : Rounded(m, book[m], Cardinality(Visitors(m)))'
  <2> SUFFICES ASSUME NEW m \in Makers PROVE Rounded(m, book[m], Cardinality(Visitors(m)))'
    OBVIOUS
  <2>1. CASE m = s.id
    <3>1. book'[m] = new
      BY <1>3, <1>4, <1>5, <2>1
    <3> QED
      BY <1>1, <1>8, <2>1, <3>1 DEF Rounded
  <2>2. CASE m # s.id
    <3>1. book'[m] = book[m] /\ book[m].base \in Nat /\ book[m].quote \in Nat
      BY <1>4, <1>5, <2>2
    <3>2. Rounded(m, book[m], Cardinality(Visitors(m)'))
      BY <1>9, <3>1 DEF Rounding
    <3> QED
      BY <1>1, <3>1, <3>2 DEF Rounded
  <2> QED
    BY <2>1, <2>2
<1>11. \A i \in Jobs : \A t \in snap'[i] : Rounded(t.id, t, Cardinality(Visitors(t.id)))'
  <2> SUFFICES ASSUME NEW i \in Jobs, NEW t \in snap'[i]
               PROVE  Rounded(t.id, t, Cardinality(Visitors(t.id)))'
    OBVIOUS
  <2>1. t \in snap[i]
    BY <1>4, <1>5
  <2>2. t \in Copy
    BY <1>5, <2>1
  <2>3. Rounded(t.id, t, Cardinality(Visitors(t.id)'))
    BY <1>9, <2>1, <2>2 DEF Rounding, Copy
  <2> QED
    BY <1>1, <2>3 DEF Rounded
<1>12. \A m \in Makers : book'[m].place = 0 => Exhausted(m, book[m].base, book[m].quote)'
  <2> SUFFICES ASSUME NEW m \in Makers, book'[m].place = 0
               PROVE  Exhausted(m, book[m].base, book[m].quote)'
    OBVIOUS
  <2>1. CASE m = s.id
    <3>1. book'[m] = new
      BY <1>3, <1>4, <1>5, <2>1
    <3>2. place = 0
      BY <2>1, <3>1 DEF new
    <3>3. tail + 1 # 0
      BY <1>3
    <3>4. Exhausted(m, new.base, new.quote)
      BY <2>1, <3>2, <3>3 DEF new
    <3> QED
      BY <1>1, <3>1, <3>4 DEF Exhausted
  <2>2. CASE m # s.id
    <3>1. book'[m] = book[m]
      BY <1>4, <1>5, <2>2
    <3> QED
      BY <1>1, <3>1 DEF Exhausted, Rounding
  <2> QED
    BY <2>1, <2>2
<1> QED
  BY <1>10, <1>11, <1>12 DEF Rounding

LEMMA RoundingInit == Init => Rounding
<1> SUFFICES ASSUME Init PROVE Rounding
  OBVIOUS
<1>1. IInv
  BY InitialStates
<1>2. PICK place \in [Makers -> 1 .. Cardinality(Makers)] :
        book = [m \in Makers |-> [base |-> 0, quote |-> 0, place |-> place[m]]]
  BY DEF Init
<1>3. \A m \in Makers : Rounded(m, book[m], Cardinality(Visitors(m)))
  <2> SUFFICES ASSUME NEW m \in Makers PROVE Rounded(m, book[m], Cardinality(Visitors(m)))
    OBVIOUS
  <2>1. PICK n \in Nat : n = Cardinality(Visitors(m))
    BY VisitorsAreJobs
  <2>2. PICK p \in Nat : p = maker[m].price
    BY <1>1, OrderTypes DEF IInv, TypeOK, Order
  <2>3. n * p \in Nat /\ n * Scale \in Nat /\ 0 * p = 0 /\ 0 * Scale = 0
    BY <2>1, <2>2, Product
  <2>4. book[m].base = 0 /\ book[m].quote = 0
    BY <1>2
  <2> QED
    BY <2>1, <2>2, <2>3, <2>4 DEF Rounded
<1>4. \A m \in Makers : book[m].place # 0
  BY <1>2
<1> QED
  BY <1>3, <1>4 DEF Rounding, Init

LEMMA RoundingStep == IInv /\ Rounding /\ [Next]_vars => Rounding'
<1> SUFFICES ASSUME IInv, Rounding, [Next]_vars PROVE Rounding'
  OBVIOUS
<1>1. pc \in [Jobs -> PcValues] /\ snap \in [Jobs -> SUBSET Copy]
  BY DEF IInv, TypeOK, Copy
<1>2. ASSUME NEW j \in Jobs, Start(j) PROVE Rounding'
  <2>1. /\ pc[j] = "queued" /\ UNCHANGED <<maker, book>>
        /\ \A i \in Jobs \ {j} : pc'[i] = pc[i] /\ snap'[i] = snap[i]
    <3>1. /\ pc[j] = "queued" /\ UNCHANGED <<maker, book>>
          /\ \E label : pc' = [pc EXCEPT ![j] = label]
          /\ snap' = snap \/ \E new : snap' = [snap EXCEPT ![j] = new]
      BY <1>2 DEF Start, Goto, orders, redis
    <3>2. \A i \in Jobs \ {j} : snap'[i] = snap[i]
      BY <1>1, <3>1
    <3>3. \A i \in Jobs \ {j} : pc'[i] = pc[i]
      BY <1>1, <3>1
    <3> QED
      BY <3>1, <3>2, <3>3
  <2>2. \A m : Visitors(m) \subseteq Visitors(m)'
    BY <2>1 DEF Visitors
  <2>3. snap' = snap \/ \E others \in SUBSET Makers :
          snap' = [snap EXCEPT ![j] =
             {[id |-> m, base |-> book[m].base, quote |-> book[m].quote,
               place |-> book[m].place] : m \in others}]
    BY <1>2 DEF Start
  <2>4. \A i \in Jobs : \A s \in snap'[i] :
          s \in snap[i] \/ (s.id \in Makers /\ s.base = book[s.id].base /\ s.quote = book[s.id].quote)
    BY <1>1, <2>3
  <2> QED
    BY <2>1, <2>2, <2>4, RoundingKept
<1>3. ASSUME UNCHANGED <<maker, book, snap>>, \A i \in Jobs : pc'[i] = "queued" => pc[i] = "queued"
      PROVE  Rounding'
  <2>1. \A m : Visitors(m) \subseteq Visitors(m)'
    BY <1>3 DEF Visitors
  <2> QED
    BY <1>3, <2>1, RoundingKept
<1>4. ASSUME NEW j \in Jobs, ReadMaker(j) \/ SettleMaker(j) \/ ReadTaker(j) \/ FinishTaker(j)
                             \/ WriteToDB(j) \/ Reset(j)
      PROVE  Rounding'
  <2>1. UNCHANGED <<maker, book, snap>>
    BY <1>4 DEF ReadMaker, SettleMaker, ReadTaker, FinishTaker, WriteToDB, Reset, orders, redis, local
  <2>2. \E label \in PcValues \ {"queued"} : pc' = [pc EXCEPT ![j] = label]
    BY <1>4 DEF ReadMaker, SettleMaker, ReadTaker, FinishTaker, WriteToDB, Reset, Goto, PcValues
  <2> QED
    BY <1>1, <1>3, <2>1, <2>2
<1>5. CASE Crash
  <2>1. UNCHANGED <<maker, book, snap>> /\ pc' = [i \in Jobs |-> IF Active(i) THEN "lost" ELSE pc[i]]
    BY <1>5 DEF Crash, orders, redis, local
  <2> QED
    BY <1>3, <2>1
<1>6. CASE UNCHANGED vars
  BY <1>3, <1>6 DEF vars, orders, redis, local
<1> QED
  BY <1>2, <1>4, <1>5, <1>6, RoundingMatch DEF Next, JobStep, Terminated

\* What the invariant says of a maker: within its order, and a rest that no
\* further fill could have taken.
LEMMA SmallRest == IInv /\ Rounding => RoundingRestIsSmall
<1> SUFFICES ASSUME IInv, Rounding, NEW m \in Makers,
                    maker[m].quote = QuoteFor(maker[m].base, maker[m].price)
             PROVE  /\ book[m].base <= maker[m].base /\ book[m].quote <= maker[m].quote
                    /\ book[m].place = 0 =>
                         IF maker[m].side = "SELL"
                         THEN (maker[m].base - book[m].base) * maker[m].price
                                < Scale + Cardinality(Jobs) * maker[m].price
                         ELSE maker[m].quote - book[m].quote < Cardinality(Jobs) + 1
  BY DEF RoundingRestIsSmall
<1>1. maker[m] \in Order /\ book[m].base \in Nat /\ book[m].quote \in Nat
  BY OrderTypes DEF IInv, TypeOK
<1>2. PICK ob \in Nat, oq \in Nat, p \in Nat \ {0}, b \in Nat, q \in Nat, n \in Nat, k \in Nat :
        /\ ob = maker[m].base /\ oq = maker[m].quote /\ p = maker[m].price
        /\ b = book[m].base /\ q = book[m].quote
        /\ n = Cardinality(Visitors(m)) /\ k = Cardinality(Jobs)
  BY <1>1, VisitorsAreJobs, FS_CardinalityType DEF Order
<1>3. n <= k
  BY <1>2, VisitorsAreJobs
<1>4. oq * Scale <= ob * p /\ ob * p < oq * Scale + Scale
  <2>1. ob * p \in Nat
    BY <1>2, Product
  <2>2. oq = (ob * p) \div Scale
    BY <1>2 DEF QuoteFor
  <2> QED
    BY <2>1, <2>2, Division
<1>5. /\ ob * p \in Nat /\ oq * Scale \in Nat /\ b * p \in Nat /\ q * Scale \in Nat
      /\ n * p \in Nat /\ k * p \in Nat /\ n * Scale \in Nat /\ k * Scale \in Nat
  BY <1>2, Product
<1>6. n * p <= k * p /\ n * Scale <= k * Scale
  BY <1>2, <1>3, Monotone
<1>7. \A x, y \in Nat, c \in Nat \ {0} : x * c <= y * c => x <= y
  <2> SUFFICES ASSUME NEW x \in Nat, NEW y \in Nat, NEW c \in Nat \ {0}, ~ (x <= y)
               PROVE  ~ (x * c <= y * c)
    OBVIOUS
  <2>1. (y + 1) * c <= x * c
    BY Monotone
  <2>2. (y + 1) * c = y * c + c
    OBVIOUS
  <2>3. y * c \in Nat /\ x * c \in Nat
    BY Product
  <2> QED
    BY <2>1, <2>2, <2>3
<1>8. CASE maker[m].side = "SELL"
  <2>1. b * p <= q * Scale /\ q * Scale <= b * p + n * p
    BY <1>2, <1>8 DEF Rounding, Rounded
  <2>2. q <= oq
    BY <1>2, <1>8 DEF IInv, Bounded, Within, Opposite, Counted
  <2>3. q * Scale <= oq * Scale
    BY <1>2, <2>2, Monotone
  <2>4. b <= ob
    BY <1>2, <1>4, <1>5, <1>7, <2>1, <2>3
  <2>5. ASSUME book[m].place = 0 PROVE (ob - b) * p < Scale + k * p
    <3>1. oq <= q
      BY <1>2, <1>8, <2>5 DEF Rounding, Exhausted
    <3>2. oq * Scale <= q * Scale
      BY <1>2, <3>1, Monotone
    <3>3. ob * p = b * p + (ob - b) * p /\ (ob - b) * p \in Nat
      <4>1. ob - b \in Nat /\ ob = b + (ob - b)
        BY <1>2, <2>4
      <4> QED
        BY <1>2, <4>1, Distribute, Product
    <3> QED
      BY <1>2, <1>4, <1>5, <1>6, <2>1, <3>2, <3>3
  <2> QED
    BY <1>2, <1>8, <2>2, <2>4, <2>5
<1>9. CASE maker[m].side # "SELL"
  <2>1. q * Scale <= b * p /\ b * p <= q * Scale + n * Scale
    BY <1>2, <1>9 DEF Rounding, Rounded
  <2>2. b <= ob
    BY <1>1, <1>2, <1>9 DEF IInv, Bounded, Within, Opposite, Counted, Order, Sides
  <2>3. b * p <= ob * p
    BY <1>2, <2>2, Monotone
  <2>4. q <= oq
    <3>1. q * Scale < oq * Scale + Scale
      BY <1>4, <1>5, <2>1, <2>3
    <3>2. (oq + 1) * Scale = oq * Scale + Scale /\ oq + 1 \in Nat
      <4>1. 1 * Scale = Scale /\ oq + 1 \in Nat
        BY <1>2
      <4> QED
        BY <1>2, <4>1, Distribute
    <3>3. ~ (oq + 1 <= q)
      <4> SUFFICES ASSUME oq + 1 <= q PROVE FALSE
        OBVIOUS
      <4>1. (oq + 1) * Scale <= q * Scale
        BY <1>2, <3>2, Monotone
      <4> QED
        BY <1>5, <3>1, <3>2, <4>1
    <3> QED
      BY <1>2, <3>3
  <2>5. ASSUME book[m].place = 0 PROVE oq - q < k + 1
    <3>1. ob <= b
      BY <1>2, <1>9, <2>5 DEF Rounding, Exhausted
    <3>2. ob = b
      BY <1>2, <2>2, <3>1
    <3>3. oq * Scale <= q * Scale + k * Scale
      BY <1>4, <1>5, <1>6, <2>1, <3>2
    <3>4. q * Scale + k * Scale = (q + k) * Scale
      BY <1>2, Distribute
    <3>5. oq <= q + k
      BY <1>2, <1>7, <3>3, <3>4
    <3> QED
      BY <1>2, <3>5
  <2> QED
    BY <1>2, <1>9, <2>2, <2>4, <2>5
<1> QED
  BY <1>8, <1>9

\* However its fills are rounded and whatever overlaps or crashes, an order is
\* filled within its two amounts, and what stays locked once it left the book is
\* less than a unit for every job (order.matchingengin.ts:217-223, 416-419).
THEOREM RestIsSmall == Spec => []RoundingRestIsSmall
<1>1. Spec => []Rounding
  BY Invariance, RoundingInit, RoundingStep, PTL DEF Spec
<1> QED
  BY <1>1, Invariance, SmallRest, PTL

-----------------------------------------------------------------------------
(***************************************************************************)
(* One handler at a time.  As long as no job starts before the end of the  *)
(* one before it, the arrays are his, his copy of the book is the book,    *)
(* and the row he has read is the row.                                     *)
(***************************************************************************)
OneJob ==
  /\ \A i, j \in Jobs : Active(i) /\ Active(j) => i = j
  /\ Idle => /\ cache = NoCache
             /\ \A u \in Users : rows[u] = <<>> /\ entries[u] = Nothing
  /\ \A j \in Jobs :
       /\ Active(j) => \A s \in snap[j] : /\ s.base = book[s.id].base
                                          /\ s.quote = book[s.id].quote
       /\ pc[j] = "settle" => read[j] = balance[maker[fill[j].id].user]
       /\ pc[j] = "finish" => read[j] = balance[taker[j].user]

\* Maker m may be filled by job j; it has no better price than maker n.
Eligible(j, m) ==
  book[m].place # 0 /\ maker[m].side = Opposite(taker[j].side) /\ maker[m].user # taker[j].user
NoBetter(m, n) ==
  IF maker[m].side = "SELL" THEN maker[m].price >= maker[n].price
                            ELSE maker[m].price <= maker[n].price
InSnap(j, m) == \E s \in snap[j] : s.id = m

\* A maker that may be filled is still in the copy, or is being filled; and a
\* maker is filled in part only by the last fill of a job.
Pending ==
  \A j \in Jobs :
    /\ pc[j] = "match" => \A m \in Makers : Eligible(j, m) => InSnap(j, m)
    /\ pc[j] \in {"read", "settle"} =>
         /\ \A m \in Makers : Eligible(j, m) => m = fill[j].id \/ InSnap(j, m)
         /\ \A s \in snap[j] : NoBetter(s.id, fill[j].id)
         /\ book[fill[j].id].place # 0 => Remaining(j) <= 0

Single == Without({"overlap"}) => OneJob /\ Pending

\* What has happened has happened.
LEMMA AnomaliesStay == [Next]_vars => anomaly \subseteq anomaly'
<1> SUFFICES ASSUME [Next]_vars PROVE anomaly \subseteq anomaly'
  OBVIOUS
<1>1. ASSUME NEW j \in Jobs, JobStep(j) PROVE anomaly \subseteq anomaly'
  BY <1>1 DEF JobStep, Start, Match, ReadMaker, SettleMaker, ReadTaker, FinishTaker, WriteToDB,
              Reset, PushTrade, PushRelease
<1>2. CASE Crash
  BY <1>2 DEF Crash
<1> QED
  BY <1>1, <1>2 DEF Next, Terminated, vars

LEMMA StayWithout == ASSUME NEW A, anomaly \subseteq anomaly', Without(A)' PROVE Without(A)
  BY DEF Without

\* While one job works, the others do not.
LEMMA Alone ==
  ASSUME IInv, OneJob, NEW j \in Jobs, Active(j), NEW label, pc' = [pc EXCEPT ![j] = label]
  PROVE  /\ \A i \in Jobs \ {j} : ~Active(i) /\ pc'[i] = pc[i] /\ ~Active(i)'
         /\ pc'[j] = label
<1>1. pc \in [Jobs -> PcValues]
  BY DEF IInv, TypeOK
<1>2. \A i \in Jobs \ {j} : ~Active(i) /\ pc'[i] = pc[i]
  BY <1>1 DEF OneJob
<1> QED
  BY <1>1, <1>2 DEF Active

LEMMA SingleStart ==
  ASSUME IInv, OneJob, Pending, NEW j \in Jobs, Start(j), Without({"overlap"})'
  PROVE  OneJob' /\ Pending'
<1>1. pc \in [Jobs -> PcValues] /\ snap \in [Jobs -> SUBSET Copy] /\ pc[j] = "queued"
  BY DEF IInv, TypeOK, Copy, Start
<1>2. UNCHANGED <<maker, taker, book, balance, rows, cache, entries, filled, fill, read>>
  BY DEF Start, orders, redis, postgres, engine
<1>3. CASE pc' = [pc EXCEPT ![j] = "unmatched"] /\ snap' = snap
  <2>1. \A i \in Jobs : (pc'[i] = pc[i] /\ i # j) \/ (i = j /\ pc'[i] = "unmatched")
    BY <1>1, <1>3
  <2>2. \A i \in Jobs : Active(i)' <=> Active(i)
    BY <1>1, <2>1 DEF Active
  <2>3. OneJob'
    BY <1>2, <1>3, <2>1, <2>2 DEF OneJob, Idle
  <2>4. Pending'
    BY <1>2, <1>3, <2>1 DEF Pending, Eligible, InSnap, NoBetter, Remaining
  <2> QED
    BY <2>3, <2>4
<1>4. CASE ~ (pc' = [pc EXCEPT ![j] = "unmatched"] /\ snap' = snap)
  <2> DEFINE others == {m \in Makers : /\ maker[m].side = Opposite(taker[j].side)
                                       /\ book[m].place # 0 /\ maker[m].user # taker[j].user}
             copies == {[id |-> m, base |-> book[m].base, quote |-> book[m].quote,
                         place |-> book[m].place] : m \in others}
  <2>1. /\ snap' = [snap EXCEPT ![j] = copies]
        /\ pc' = [pc EXCEPT ![j] = IF others = {} THEN "close" ELSE "match"]
        /\ anomaly' = IF \E i \in Jobs : Active(i) THEN anomaly \union {"overlap"} ELSE anomaly
    <3> DEFINE level == {m \in Makers : /\ [k \in Makers |-> maker[k].side][m] = Opposite(taker[j].side)
                                        /\ book[m].place # 0}
    <3>1. others = {m \in level : maker[m].user # taker[j].user}
      OBVIOUS
    <3> HIDE DEF others
    <3> QED
      BY <1>4, <3>1 DEF Start, Goto
  <2>2. \A i \in Jobs : ~Active(i)
    BY <2>1 DEF Without
  <2>3. /\ \A i \in Jobs \ {j} : pc'[i] = pc[i] /\ snap'[i] = snap[i]
        /\ pc'[j] \in {"close", "match"} /\ snap'[j] = copies
    BY <1>1, <2>1
  <2>4. (\A i \in Jobs \ {j} : ~Active(i)') /\ Active(j)'
    BY <2>2, <2>3 DEF Active
  <2>5. \A s \in copies : /\ s.base = book[s.id].base /\ s.quote = book[s.id].quote
    OBVIOUS
  <2>6. \A m \in Makers : Eligible(j, m) => \E s \in copies : s.id = m
    <3> SUFFICES ASSUME NEW m \in Makers, Eligible(j, m) PROVE \E s \in copies : s.id = m
      OBVIOUS
    <3> DEFINE s == [id |-> m, base |-> book[m].base, quote |-> book[m].quote, place |-> book[m].place]
    <3>1. m \in others
      BY DEF Eligible
    <3>2. s \in copies /\ s.id = m
      BY <3>1
    <3> QED
      BY <3>2
  <2> HIDE DEF copies, others
  <2>7. OneJob'
    <3>1. (\A i, k \in Jobs : Active(i) /\ Active(k) => i = k)' /\ ~Idle'
      BY <2>4 DEF Idle
    <3>2. \A i \in Jobs : Active(i)' => \A s \in snap'[i] : /\ s.base = book'[s.id].base
                                                            /\ s.quote = book'[s.id].quote
      BY <1>2, <2>3, <2>4, <2>5
    <3>3. \A i \in Jobs : pc'[i] \notin {"settle", "finish"}
      BY <2>3, <2>4 DEF Active
    <3> QED
      BY <3>1, <3>2, <3>3 DEF OneJob
  <2>8. Pending'
    <3>1. \A i \in Jobs : pc'[i] \notin {"read", "settle"} /\ (pc'[i] = "match" => i = j)
      BY <2>3, <2>4 DEF Active
    <3>2. \A m \in Makers : Eligible(j, m)' <=> Eligible(j, m)
      BY <1>2 DEF Eligible
    <3>3. \A m \in Makers : Eligible(j, m) => InSnap(j, m)'
      BY <2>3, <2>6 DEF InSnap
    <3> QED
      BY <3>1, <3>2, <3>3 DEF Pending
  <2> QED
    BY <2>7, <2>8
<1> QED
  BY <1>3, <1>4

LEMMA SingleMatch ==
  ASSUME IInv, OneJob, Pending, NEW j \in Jobs, Match(j)
  PROVE  OneJob' /\ Pending'
<1>1. /\ pc[j] = "match" /\ pc' = [pc EXCEPT ![j] = "read"]
      /\ UNCHANGED <<maker, taker, balance, rows, cache, entries, read>>
  BY DEF Match, Goto, orders, postgres, engine
<1>2. PICK s \in snap[j] :
       LET f == FillOf(j, s)
           base == s.base + f.base
           quote == s.quote + f.quote
           gone == Exhausted(s.id, base, quote)
       IN
       /\ \A r \in snap[j] : Before(s.id, s.place, r.id, r.place)
       /\ snap' = [snap EXCEPT ![j] = @ \ {s}]
       /\ fill' = [fill EXCEPT ![j] = f]
       /\ filled' = [filled EXCEPT ![j] = [base |-> @.base + f.base,
                                           quote |-> @.quote + f.quote]]
       /\ book' = [book EXCEPT ![s.id] =
            [base |-> base, quote |-> quote, place |-> IF gone THEN 0 ELSE tail + 1]]
  BY DEF Match
<1> DEFINE f == FillOf(j, s)
           gone == Exhausted(s.id, s.base + f.base, s.quote + f.quote)
           new == [base |-> s.base + f.base, quote |-> s.quote + f.quote,
                   place |-> IF gone THEN 0 ELSE tail + 1]
<1>3. /\ f \in [id : {s.id}, base : Nat, quote : Nat] /\ s \in Copy /\ s.id \in Makers
      /\ \/ Counted(taker[j].side, f) = Remaining(j)
         \/ Counted(taker[j].side, f) = Counted(taker[j].side, maker[s.id]) - Counted(taker[j].side, s)
      /\ Remaining(j) \in Nat
  BY Fill DEF Copy
<1>4. /\ snap \in [Jobs -> SUBSET Copy] /\ fill \in [Jobs -> [id : Makers \union {NoUser}, base : Nat, quote : Nat]]
      /\ book \in [Makers -> [base : Nat, quote : Nat, place : Nat]] /\ filled \in [Jobs -> Amounts]
  BY DEF IInv, TypeOK, Copy
<1>5. /\ maker[s.id] \in Order /\ taker[j] \in Taking /\ maker[s.id].side = Opposite(taker[j].side)
  BY <1>3, OrderTypes DEF IInv, TypeOK, Bounded
<1>6. /\ snap' = [snap EXCEPT ![j] = @ \ {s}] /\ fill' = [fill EXCEPT ![j] = f]
      /\ book' = [book EXCEPT ![s.id] = new]
      /\ filled' = [filled EXCEPT ![j] = [base |-> @.base + f.base, quote |-> @.quote + f.quote]]
      /\ \A r \in snap[j] : Before(s.id, s.place, r.id, r.place)
  BY <1>2
<1> HIDE DEF f
<1>7. /\ fill'[j].id = s.id /\ snap'[j] = snap[j] \ {s} /\ book'[s.id] = new
      /\ \A m \in Makers \ {s.id} : book'[m] = book[m]
  <2> HIDE DEF new
  <2> QED
    BY <1>3, <1>4, <1>6
<1>8. Active(j) /\ Active(j)' /\ (\A i \in Jobs \ {j} : ~Active(i)') /\ pc'[j] = "read"
  <2>1. Active(j)
    BY <1>1 DEF Active
  <2>2. \A i \in Jobs \ {j} : ~Active(i)' /\ pc'[j] = "read"
    BY <1>1, <2>1, Alone
  <2>3. pc'[j] = "read"
    BY <1>1 DEF IInv, TypeOK
  <2> QED
    BY <2>1, <2>2, <2>3 DEF Active
<1>9. \A t \in snap'[j] : t \in snap[j] /\ t.id # s.id /\ t.id \in Makers
  BY <1>4, <1>7 DEF IInv, Bounded, Copy
<1>10. OneJob'
  <2>1. \A t \in snap'[j] : t.base = book'[t.id].base /\ t.quote = book'[t.id].quote
    BY <1>7, <1>8, <1>9 DEF OneJob
  <2>2. \A i \in Jobs : pc'[i] \notin {"settle", "finish"}
    BY <1>8 DEF Active
  <2>3. ~Idle'
    BY <1>8 DEF Idle
  <2>4. \A i \in Jobs : Active(i)' => i = j
    BY <1>8
  <2> QED
    BY <2>1, <2>2, <2>3, <2>4 DEF OneJob
<1>11. Remaining(j)' <= 0 \/ gone
  <2>1. CASE Counted(taker[j].side, f) = Remaining(j)
    <3>1. filled'[j] = [base |-> filled[j].base + f.base, quote |-> filled[j].quote + f.quote]
      BY <1>4, <1>6
    <3>2. filled[j].base \in Nat /\ filled[j].quote \in Nat /\ f.base \in Nat /\ f.quote \in Nat
          /\ taker[j].amount \in Nat
      BY <1>3, <1>4, <1>5 DEF Amounts, Taking
    <3>3. Remaining(j)' = 0
      BY <1>1, <2>1, <3>1, <3>2 DEF Remaining, Counted
    <3> QED
      BY <3>3
  <2>2. CASE Counted(taker[j].side, f) = Counted(taker[j].side, maker[s.id]) - Counted(taker[j].side, s)
    <3>1. /\ f.base \in Nat /\ f.quote \in Nat /\ s.base \in Nat /\ s.quote \in Nat
          /\ maker[s.id].base \in Nat /\ maker[s.id].quote \in Nat
      BY <1>3, <1>5 DEF Copy, Order
    <3>2. CASE taker[j].side = "BUY"
      <4>1. s.quote + f.quote >= maker[s.id].quote /\ maker[s.id].side = "SELL"
        BY <1>5, <2>2, <3>1, <3>2 DEF Counted, Opposite
      <4> QED
        BY <4>1 DEF Exhausted
    <3>3. CASE taker[j].side # "BUY"
      <4>1. s.base + f.base >= maker[s.id].base /\ maker[s.id].side = "BUY"
        BY <1>5, <2>2, <3>1, <3>3 DEF Counted, Opposite, Taking, Sides
      <4> QED
        BY <4>1 DEF Exhausted
    <3> QED
      BY <3>2, <3>3
  <2> QED
    BY <1>3, <2>1, <2>2
<1>12. Pending'
  <2>1. \A i \in Jobs : pc'[i] # "match" /\ (pc'[i] \in {"read", "settle"} => i = j)
    BY <1>8 DEF Active
  <2>2. ASSUME NEW m \in Makers, Eligible(j, m)' PROVE m = fill'[j].id \/ InSnap(j, m)'
    <3>1. CASE m = s.id
      BY <1>7, <3>1
    <3>2. CASE m # s.id
      <4>1. Eligible(j, m)
        BY <1>1, <1>7, <2>2, <3>2 DEF Eligible
      <4>2. PICK t \in snap[j] : t.id = m
        BY <1>1, <4>1 DEF Pending, InSnap
      <4>3. t \in snap'[j]
        BY <1>7, <3>2, <4>2
      <4> QED
        BY <4>2, <4>3 DEF InSnap
    <3> QED
      BY <3>1, <3>2
  <2>3. ASSUME NEW t \in snap'[j] PROVE NoBetter(t.id, fill[j].id)'
    <3>1. Before(s.id, s.place, t.id, t.place) /\ t.id \in Makers
      BY <1>6, <1>9
    <3>2. maker[t.id] \in Order /\ maker[t.id].side = maker[s.id].side
      BY <1>5, <1>9, OrderTypes DEF IInv, TypeOK, Bounded
    <3>3. NoBetter(t.id, s.id)
      BY <1>5, <3>1, <3>2 DEF Before, NoBetter, Order
    <3> QED
      BY <1>1, <1>7, <3>3 DEF NoBetter
  <2>4. book'[fill'[j].id].place # 0 => Remaining(j)' <= 0
    BY <1>7, <1>11
  <2> QED
    BY <2>1, <2>2, <2>3, <2>4 DEF Pending
<1> QED
  BY <1>10, <1>12

\* The steps of the one job that is under way, but for its start and its fills.
LEMMA SingleOther ==
  ASSUME IInv, IInv', OneJob, Pending, NEW j \in Jobs,
         \/ ReadMaker(j) \/ SettleMaker(j) \/ ReadTaker(j)
         \/ FinishTaker(j) \/ WriteToDB(j) \/ Reset(j)
  PROVE  OneJob' /\ Pending'
<1>1. /\ UNCHANGED <<maker, taker, book, snap, fill, filled>> /\ Active(j)
      /\ \E label \in PcValues : pc' = [pc EXCEPT ![j] = label]
  BY DEF ReadMaker, SettleMaker, ReadTaker, FinishTaker, WriteToDB, Reset, orders, redis, local,
         Active, Goto, PcValues
<1>2. PICK label \in PcValues : pc' = [pc EXCEPT ![j] = label]
  BY <1>1
<1>3. pc'[j] = label /\ \A i \in Jobs \ {j} : ~Active(i) /\ pc'[i] = pc[i] /\ ~Active(i)'
  BY <1>1, <1>2, Alone
<1>4. /\ (\A i, k \in Jobs : Active(i) /\ Active(k) => i = k)'
      /\ \A i \in Jobs : Active(i)' => \A s \in snap'[i] : /\ s.base = book'[s.id].base
                                                          /\ s.quote = book'[s.id].quote
  BY <1>1, <1>3 DEF OneJob
<1>5. \A i \in Jobs : pc'[i] \in {"match", "read", "settle", "finish"} => i = j
  BY <1>3 DEF Active
<1>6. ASSUME pc'[j] \in {"match", "read", "settle", "close", "finish", "write", "reset"},
             pc'[j] = "settle" => read'[j] = balance'[maker[fill[j].id].user],
             pc'[j] = "finish" => read'[j] = balance'[taker[j].user]
      PROVE  OneJob'
  <2>1. ~Idle'
    BY <1>6 DEF Idle, Active
  <2>2. \A i \in Jobs : /\ pc'[i] = "settle" => read'[i] = balance'[maker[fill[i].id].user]
                        /\ pc'[i] = "finish" => read'[i] = balance'[taker[i].user]
    BY <1>5, <1>6
  <2> QED
    BY <1>1, <1>4, <2>1, <2>2 DEF OneJob
<1>7. ASSUME pc'[j] \notin {"match", "read", "settle"} PROVE Pending'
  BY <1>5, <1>7 DEF Pending
<1>8. CASE ReadMaker(j)
  <2>1. /\ pc[j] = "read" /\ pc' = [pc EXCEPT ![j] = "settle"] /\ balance' = balance
        /\ read' = [read EXCEPT ![j] = balance[maker[fill[j].id].user]]
    BY <1>8 DEF ReadMaker, Goto, postgres
  <2>2. pc'[j] = "settle" /\ read'[j] = balance[maker[fill[j].id].user]
    BY <2>1 DEF IInv, TypeOK
  <2>3. OneJob'
    BY <1>6, <2>1, <2>2
  <2>4. Pending'
    BY <1>1, <1>5, <2>1, <2>2 DEF Pending, Eligible, InSnap, NoBetter, Remaining
  <2> QED
    BY <2>3, <2>4
<1>9. CASE SettleMaker(j)
  <2>1. /\ pc[j] = "settle"
        /\ pc' = [pc EXCEPT ![j] = IF Remaining(j) <= 0 \/ snap[j] = {} THEN "close" ELSE "match"]
    BY <1>9 DEF SettleMaker, Goto
  <2>2. /\ pc'[j] \in {"close", "match"} /\ (pc'[j] = "match" => ~ (Remaining(j) <= 0))
    BY <2>1 DEF IInv, TypeOK
  <2>3. OneJob'
    BY <1>6, <2>2
  <2>4. Pending'
    <3>1. ASSUME pc'[j] = "match", NEW m \in Makers, Eligible(j, m)' PROVE InSnap(j, m)'
      <4>1. Eligible(j, m) /\ book[m].place # 0
        BY <1>1, <3>1 DEF Eligible
      <4>2. m # fill[j].id
        BY <2>1, <2>2, <3>1, <4>1 DEF Pending
      <4>3. InSnap(j, m)
        BY <2>1, <4>1, <4>2 DEF Pending
      <4> QED
        BY <1>1, <4>3 DEF InSnap
    <3> QED
      BY <1>5, <2>2, <3>1 DEF Pending
  <2> QED
    BY <2>3, <2>4
<1>10. CASE ReadTaker(j)
  <2>1. /\ pc' = [pc EXCEPT ![j] = "finish"] /\ balance' = balance
        /\ read' = [read EXCEPT ![j] = balance[taker[j].user]]
    BY <1>10 DEF ReadTaker, Goto, postgres
  <2>2. pc'[j] = "finish" /\ read'[j] = balance[taker[j].user]
    BY <2>1 DEF IInv, TypeOK
  <2> QED
    BY <1>6, <1>7, <2>1, <2>2
<1>11. CASE FinishTaker(j) \/ WriteToDB(j)
  <2>1. pc' = [pc EXCEPT ![j] = "write"] \/ pc' = [pc EXCEPT ![j] = "reset"]
    BY <1>11 DEF FinishTaker, WriteToDB, Goto
  <2>2. pc'[j] \in {"write", "reset"}
    BY <2>1 DEF IInv, TypeOK
  <2> QED
    BY <1>6, <1>7, <2>2
<1>12. CASE Reset(j)
  <2>1. /\ pc' = [pc EXCEPT ![j] = "done"] /\ cache' = NoCache
        /\ \A u \in Users : rows'[u] = <<>> /\ entries'[u] = Nothing
    BY <1>12 DEF Reset, Goto
  <2>2. pc'[j] = "done"
    BY <2>1 DEF IInv, TypeOK
  <2>3. \A i \in Jobs : pc'[i] \notin {"settle", "finish"}
    BY <1>5, <2>2
  <2>4. OneJob'
    BY <1>4, <2>1, <2>3 DEF OneJob
  <2> QED
    BY <1>7, <2>2, <2>4
<1> QED
  BY <1>8, <1>9, <1>10, <1>11, <1>12

LEMMA SingleStep == IInv /\ IInv' /\ Single /\ [Next]_vars => Single'
<1> SUFFICES ASSUME IInv, IInv', [Next]_vars, OneJob, Pending, Without({"overlap"})'
             PROVE  OneJob' /\ Pending'
  BY AnomaliesStay, StayWithout DEF Single
<1>1. CASE Crash
  <2>1. /\ \A j \in Jobs : pc'[j] = IF Active(j) THEN "lost" ELSE pc[j]
        /\ cache' = NoCache /\ \A u \in Users : rows'[u] = <<>> /\ entries'[u] = Nothing
    BY <1>1 DEF Crash
  <2>2. \A j \in Jobs : ~Active(j)'
    BY <2>1 DEF Active
  <2>3. OneJob'
    BY <2>1, <2>2 DEF OneJob, Active
  <2>4. Pending'
    BY <2>2 DEF Pending, Active
  <2> QED
    BY <2>3, <2>4
<1>2. CASE UNCHANGED vars
  <2>1. UNCHANGED <<maker, taker, book, balance, pc, snap, filled, fill, read, rows, cache, entries>>
    BY <1>2 DEF vars, orders, redis, postgres, engine, local
  <2>2. OneJob'
    BY <2>1 DEF OneJob, Active, Idle
  <2>3. Pending'
    BY <2>1 DEF Pending, Eligible, InSnap, NoBetter, Remaining
  <2> QED
    BY <2>2, <2>3
<1> QED
  BY <1>1, <1>2, SingleStart, SingleMatch, SingleOther DEF Next, JobStep, Terminated

LEMMA SingleInit == Init => Single
<1> SUFFICES ASSUME Init PROVE OneJob /\ Pending
  BY DEF Single
<1>1. \A j \in Jobs : pc[j] = "queued"
  BY DEF Init
<1>2. OneJob
  BY <1>1 DEF Init, OneJob, Active
<1>3. Pending
  BY <1>1 DEF Pending
<1> QED
  BY <1>2, <1>3

LEMMA OneAtATime == Spec => []Single
  BY Invariance, SingleInit, SingleStep, PTL DEF Spec

\* No trade passes over a better price in the book
\* (order.matchingengin.ts:207-210, redis.orderbook.service.ts:124-135).
THEOREM BestPriceFirst == Spec => []PricePriority
<1>1. IInv /\ Single => PricePriority
  <2> SUFFICES ASSUME IInv, OneJob, Pending, NEW j \in Jobs, pc[j] \in {"read", "settle"},
                      NEW m \in Makers, Eligible(j, m)
               PROVE  IF maker[m].side = "SELL" THEN maker[m].price >= maker[fill[j].id].price
                                                ELSE maker[m].price <= maker[fill[j].id].price
    BY DEF Single, PricePriority, Eligible
  <2>1. maker[m] \in Order
    BY OrderTypes DEF IInv, TypeOK
  <2>2. m = fill[j].id \/ InSnap(j, m)
    BY DEF Pending
  <2>3. InSnap(j, m) => NoBetter(m, fill[j].id)
    BY DEF Pending, InSnap
  <2> QED
    BY <2>1, <2>2, <2>3 DEF NoBetter, Order
<1> QED
  BY <1>1, Invariance, OneAtATime, PTL

-----------------------------------------------------------------------------
(***************************************************************************)
(* The row a user will have once the arrays are saved.  Without a second   *)
(* reading of his rows there is at most one row object of a user, and it   *)
(* holds all that was pushed for him.                                      *)
(***************************************************************************)
Coming(u) == IF rows[u] = <<>> THEN balance[u] ELSE rows[u][1]
OwnedBy(r) == [base |-> r["baseFree"] + r["baseLocked"], quote |-> r["quoteFree"] + r["quoteLocked"]]

\* What rounding kept of the releases that are saved, and of those only pushed.
StoredTotal(j, u) == IF pc[j] = "write" THEN 0 ELSE ShortTotal(j, u)
Stored(u) == SumFunctionOnSet([j \in Jobs |-> StoredTotal(j, u)], Jobs)
Due(u) == Short(u) - Stored(u)

BalanceExplained(u) ==
  /\ OwnedBy(balance[u]).base = Reserve(u, "SELL") + ledger[u].base - Stored(u)
  /\ OwnedBy(balance[u]).quote = Reserve(u, "BUY") + ledger[u].quote
ComingExplained(u) ==
  /\ OwnedBy(Coming(u)).base = OwnedBy(balance[u]).base + entries[u].base - Due(u)
  /\ OwnedBy(Coming(u)).quote = OwnedBy(balance[u]).quote + entries[u].quote

Explained ==
  /\ \A u \in Users : Len(rows[u]) <= 1
  /\ \A u \in Users : BalanceExplained(u)
  /\ (\A j \in Jobs : pc[j] # "reset") => \A u \in Users : ComingExplained(u)
  /\ (\E j \in Jobs : pc[j] = "reset") => \A u \in Users : Coming(u) = balance[u]

Explaining == Without({"overlap", "reread"}) => Explained

-----------------------------------------------------------------------------
(***************************************************************************)
(* The sums of what rounding kept.                                         *)
(***************************************************************************)
LEMMA ShortElements ==
  ASSUME IInv, NEW j \in Jobs, NEW u
  PROVE  ShortLocked(j, u) \in Int /\ ShortTotal(j, u) \in Int /\ StoredTotal(j, u) \in Int
<1>1. short[j] \in [free : -1 .. 1, locked : -1 .. 1]
  BY DEF IInv, TypeOK
<1>2. short[j].free \in Int /\ short[j].locked \in Int
  BY <1>1
<1> QED
  BY <1>2 DEF ShortLocked, ShortTotal, StoredTotal

LEMMA ShortSums ==
  ASSUME IInv, NEW u
  PROVE  LockedShort(u) \in Int /\ Short(u) \in Int /\ Stored(u) \in Int
<1> DEFINE l == [j \in Jobs |-> ShortLocked(j, u)]
           t == [j \in Jobs |-> ShortTotal(j, u)]
           s == [j \in Jobs |-> StoredTotal(j, u)]
<1>1. \A j \in Jobs : l[j] \in Int /\ t[j] \in Int /\ s[j] \in Int
  BY ShortElements
<1>2. IsFiniteSet(Jobs)
  OBVIOUS
<1> HIDE DEF l, t, s
<1>3. /\ SumFunctionOnSet(l, Jobs) \in Int /\ SumFunctionOnSet(t, Jobs) \in Int
      /\ SumFunctionOnSet(s, Jobs) \in Int
  BY <1>1, <1>2, SumElement
<1> QED
  BY <1>3 DEF l, t, s, LockedShort, Short, Stored

\* A job that was not short of anything may fill more.
LEMMA ShortKept ==
  ASSUME UNCHANGED <<taker, short>>, \A j \in Jobs : filled'[j] = filled[j] \/ short[j] = NotShort,
         NEW u
  PROVE  LockedShort(u)' = LockedShort(u) /\ Short(u)' = Short(u)
<1>1. ASSUME NEW j \in Jobs
      PROVE  ShortLocked(j, u)' = ShortLocked(j, u) /\ ShortTotal(j, u)' = ShortTotal(j, u)
  <2>1. CASE filled'[j] = filled[j]
    BY <2>1 DEF ShortLocked, ShortTotal, PartlySold, Remaining
  <2>2. CASE short[j] = NotShort
    <3>1. short[j].locked = 0 /\ short[j].free + short[j].locked = 0
      BY <2>2 DEF NotShort
    <3>2. short'[j].locked = 0 /\ short'[j].free + short'[j].locked = 0
      BY <3>1
    <3> QED
      BY <3>1, <3>2 DEF ShortLocked, ShortTotal
  <2> QED
    BY <2>1, <2>2
<1> QED
  BY <1>1 DEF LockedShort, Short

LEMMA StoredKept ==
  ASSUME UNCHANGED <<taker, short>>, \A j \in Jobs : filled'[j] = filled[j] \/ short[j] = NotShort,
         \A j \in Jobs : pc'[j] = "write" <=> pc[j] = "write", NEW u
  PROVE  Stored(u)' = Stored(u)
<1>1. ASSUME NEW j \in Jobs PROVE StoredTotal(j, u)' = StoredTotal(j, u)
  <2>1. CASE filled'[j] = filled[j]
    BY <2>1 DEF StoredTotal, ShortTotal, PartlySold, Remaining
  <2>2. CASE short[j] = NotShort
    <3>1. short[j].free + short[j].locked = 0
      BY <2>2 DEF NotShort
    <3>2. short'[j].free + short'[j].locked = 0
      BY <3>1
    <3> QED
      BY <3>1, <3>2 DEF StoredTotal, ShortTotal
  <2> QED
    BY <2>1, <2>2
<1> QED
  BY <1>1 DEF Stored

\* The release of a taker adds what rounding keeps of it.
LEMMA ShortPushed ==
  ASSUME IInv, IInv', UNCHANGED <<taker, filled>>, NEW j \in Jobs, pc[j] = "finish", pc'[j] = "write",
         \A i \in Jobs \ {j} : pc'[i] = pc[i],
         NEW lack \in Shortage, short' = [short EXCEPT ![j] = lack],
         lack # NotShort => PartlySold(j), NEW u
  PROVE  /\ LockedShort(u)' = LockedShort(u) + (IF taker[j].user = u THEN lack.locked ELSE 0)
         /\ Short(u)' = Short(u) + (IF taker[j].user = u THEN lack.free + lack.locked ELSE 0)
         /\ Stored(u)' = Stored(u)
<1>1. short[j] = NotShort /\ short'[j] = lack /\ \A i \in Jobs \ {j} : short'[i] = short[i]
  BY DEF IInv, TypeOK, Fresh, Unpushed, PcValues
<1>2. ASSUME NEW i \in Jobs \ {j}
      PROVE  /\ ShortLocked(i, u)' = ShortLocked(i, u) /\ ShortTotal(i, u)' = ShortTotal(i, u)
             /\ StoredTotal(i, u)' = StoredTotal(i, u)
  BY <1>1 DEF ShortLocked, ShortTotal, StoredTotal, PartlySold, Remaining
<1>3. ShortLocked(j, u) = 0 /\ ShortTotal(j, u) = 0 /\ StoredTotal(j, u) = 0 /\ StoredTotal(j, u)' = 0
  BY <1>1 DEF ShortLocked, ShortTotal, StoredTotal, NotShort
<1>4. /\ ShortLocked(j, u)' = (IF taker[j].user = u THEN lack.locked ELSE 0)
      /\ ShortTotal(j, u)' = (IF taker[j].user = u THEN lack.free + lack.locked ELSE 0)
  <2>1. PartlySold(j)' = PartlySold(j)
    BY DEF PartlySold, Remaining
  <2>2. ShortLocked(j, u)' = (IF taker[j].user = u /\ PartlySold(j) THEN lack.locked ELSE 0)
        /\ ShortTotal(j, u)' = (IF taker[j].user = u /\ PartlySold(j) THEN lack.free + lack.locked ELSE 0)
    BY <1>1, <2>1 DEF ShortLocked, ShortTotal
  <2>3. lack = NotShort => lack.locked = 0 /\ lack.free + lack.locked = 0
    BY DEF NotShort
  <2> QED
    BY <2>2, <2>3
<1> DEFINE l == [i \in Jobs |-> ShortLocked(i, u)]
           ln == [i \in Jobs |-> ShortLocked(i, u)']
           t == [i \in Jobs |-> ShortTotal(i, u)]
           tn == [i \in Jobs |-> ShortTotal(i, u)']
           addL == IF taker[j].user = u THEN lack.locked ELSE 0
           addT == IF taker[j].user = u THEN lack.free + lack.locked ELSE 0
<1>5. \A i \in Jobs : l[i] \in Int /\ t[i] \in Int
  BY ShortElements
<1>6. addL \in Int /\ addT \in Int
  BY DEF Shortage
<1>7. \A i \in Jobs \ {j} : ln[i] = l[i] /\ tn[i] = t[i]
  BY <1>2
<1>8. l[j] = 0 /\ t[j] = 0 /\ ln[j] = addL /\ tn[j] = addT
  BY <1>3, <1>4
<1>9. \A i \in Jobs : ln[i] \in Int /\ tn[i] \in Int
  BY <1>5, <1>6, <1>7, <1>8
<1>10. /\ LockedShort(u) = SumFunctionOnSet(l, Jobs) /\ LockedShort(u)' = SumFunctionOnSet(ln, Jobs)
       /\ Short(u) = SumFunctionOnSet(t, Jobs) /\ Short(u)' = SumFunctionOnSet(tn, Jobs)
  BY DEF LockedShort, Short
<1>11. LockedShort(u) \in Int /\ Short(u) \in Int /\ IsFiniteSet(Jobs)
  BY ShortSums
<1>12. Stored(u)' = Stored(u)
  BY <1>2, <1>3 DEF Stored
<1> HIDE DEF l, ln, t, tn, addL, addT
<1>13. SumFunctionOnSet(ln, Jobs) = SumFunctionOnSet(l, Jobs) - l[j] + ln[j]
  <2> HIDE MatchingAssumption
  <2> QED
    BY <1>5, <1>7, <1>9, <1>11, SumChange
<1>14. SumFunctionOnSet(tn, Jobs) = SumFunctionOnSet(t, Jobs) - t[j] + tn[j]
  <2> HIDE MatchingAssumption
  <2> QED
    BY <1>5, <1>7, <1>9, <1>11, SumChange
<1>15. LockedShort(u)' = LockedShort(u) + addL /\ Short(u)' = Short(u) + addT
  BY <1>6, <1>8, <1>10, <1>11, <1>13, <1>14
<1> QED
  BY <1>12, <1>15 DEF addL, addT

\* The transaction stores what was pushed; the death of the process forgets it.
LEMMA ShortStored ==
  ASSUME UNCHANGED <<taker, filled, short>>, \A j \in Jobs : pc'[j] # "write", NEW u
  PROVE  Stored(u)' = Short(u) /\ Short(u)' = Short(u)
<1>1. ASSUME NEW j \in Jobs
      PROVE  StoredTotal(j, u)' = ShortTotal(j, u) /\ ShortTotal(j, u)' = ShortTotal(j, u)
  BY DEF StoredTotal, ShortTotal, PartlySold, Remaining
<1> QED
  BY <1>1 DEF Stored, Short

LEMMA ShortForgotten ==
  ASSUME Crash, NEW u
  PROVE  Stored(u)' = Stored(u) /\ Short(u)' = Stored(u)
<1>1. /\ UNCHANGED <<taker, filled>>
      /\ short' = [j \in Jobs |-> IF pc[j] = "write" THEN NotShort ELSE short[j]]
      /\ pc' = [j \in Jobs |-> IF Active(j) THEN "lost" ELSE pc[j]]
  BY DEF Crash, orders, local
<1>2. ASSUME NEW j \in Jobs
      PROVE  StoredTotal(j, u)' = StoredTotal(j, u) /\ ShortTotal(j, u)' = StoredTotal(j, u)
  <2>1. pc'[j] # "write"
    BY <1>1 DEF Active
  <2>2. CASE pc[j] = "write"
    <3>1. short'[j].free + short'[j].locked = 0
      BY <1>1, <2>2 DEF NotShort
    <3> QED
      BY <2>1, <2>2, <3>1 DEF StoredTotal, ShortTotal
  <2>3. CASE pc[j] # "write"
    <3>1. short'[j] = short[j]
      BY <1>1, <2>3
    <3> QED
      BY <1>1, <2>1, <2>3, <3>1 DEF StoredTotal, ShortTotal, PartlySold, Remaining
  <2> QED
    BY <2>2, <2>3
<1> QED
  BY <1>2 DEF Stored, Short

\* A job that has not finished keeps them all.
LEMMA ShortQuiet ==
  ASSUME IInv, OneJob, NEW j \in Jobs,
         Start(j) \/ Match(j) \/ ReadMaker(j) \/ SettleMaker(j) \/ ReadTaker(j) \/ Reset(j), NEW u
  PROVE  LockedShort(u)' = LockedShort(u) /\ Short(u)' = Short(u) /\ Stored(u)' = Stored(u)
<1>1. UNCHANGED <<taker, short>>
  BY DEF Start, Match, ReadMaker, SettleMaker, ReadTaker, Reset, orders
<1>2. PICK label \in {"unmatched", "close", "match", "read", "settle", "finish", "done"} :
        pc' = [pc EXCEPT ![j] = label] /\ pc[j] # "write"
  BY DEF Start, Match, ReadMaker, SettleMaker, ReadTaker, Reset, Goto
<1>3. \A i \in Jobs : pc'[i] = "write" <=> pc[i] = "write"
  BY <1>2 DEF IInv, TypeOK
<1>4. \A i \in Jobs : filled'[i] = filled[i] \/ short[i] = NotShort
  <2>1. CASE Match(j)
    <3>1. short[j] = NotShort
      BY <2>1 DEF Match, IInv, Fresh, Unpushed, PcValues
    <3>2. \A i \in Jobs \ {j} : filled'[i] = filled[i]
      BY <2>1 DEF Match, IInv, TypeOK
    <3> QED
      BY <3>1, <3>2
  <2>2. CASE ~Match(j)
    BY <2>2 DEF Start, ReadMaker, SettleMaker, ReadTaker, Reset, local
  <2> QED
    BY <2>1, <2>2
<1> QED
  BY <1>1, <1>3, <1>4, ShortKept, StoredKept

-----------------------------------------------------------------------------
(***************************************************************************)
(* Pushes.                                                                 *)
(***************************************************************************)
\* One push: the user's one row object, and his entry.
Pushed(u, new, entry) ==
  /\ rows' = [rows EXCEPT ![u] = <<new>>]
  /\ entries' = [entries EXCEPT ![u] = entry]

LEMMA EmptySequence == ASSUME NEW q \in Seq(Row), Len(q) = 0 PROVE q = <<>>
  OBVIOUS

LEMMA OneElement == ASSUME NEW q \in Seq(Row), Len(q) = 1 PROVE q # <<>>
<1>1. Len(<<>>) = 0
  OBVIOUS
<1>2. Len(q) # Len(<<>>)
  BY <1>1
<1> QED
  BY <1>2, Zenon

LEMMA TradePushed ==
  ASSUME ArraysOK, NEW u \in Users, NEW side \in Sides, NEW row, row = balance[u], balance[u] \in Row,
         NEW base \in Nat, NEW quote \in Nat, PushTrade(u, side, row, base, quote),
         Len(rows[u]) <= 1, "reread" \notin anomaly'
  PROVE  Pushed(u, Traded(Coming(u), side, base, quote), Entry(entries[u], side, base, quote))
<1>1. rows[u] \in Seq(Row) /\ entries' = [entries EXCEPT ![u] = Entry(entries[u], side, base, quote)]
  BY DEF ArraysOK, PushTrade
<1>2. CASE cache.user # u
  <2>1. rows[u] = <<>> /\ rows' = [rows EXCEPT ![u] = Append(rows[u], Traded(row, side, base, quote))]
    BY <1>2 DEF PushTrade
  <2>2. Append(rows[u], Traded(row, side, base, quote)) = <<Traded(row, side, base, quote)>>
    BY <2>1
  <2> QED
    BY <1>1, <2>1, <2>2 DEF Pushed, Coming
<1>3. CASE cache.user = u
  <2>1. cache.at = 1 /\ Len(rows[u]) = 1
    <3>1. cache.at \in 1 .. Len(rows[u])
      BY <1>3 DEF ArraysOK, Cached
    <3>2. Len(rows[u]) \in Nat
      BY <1>1
    <3>3. ASSUME NEW n \in Nat, NEW k \in 1 .. n, n <= 1 PROVE n = 1 /\ k = 1
      BY <3>3
    <3> QED
      BY <3>1, <3>2, <3>3
  <2>2. rows[u] # <<>>
    BY <1>1, <2>1, OneElement, Zenon
  <2> DEFINE rest == [i \in 1 .. Len(rows[u]) - 1 |-> rows[u][IF i < cache.at THEN i ELSE i + 1]]
             old == rows[u][cache.at]
  <2>3. rest \in Seq(Row) /\ Len(rest) = 0
    BY <1>1, <2>1, Removed
  <2>4. rows' = [rows EXCEPT ![u] = Append(rest, Traded(old, side, base, quote))]
    BY <1>3 DEF PushTrade
  <2>5. old = Coming(u)
    BY <2>1, <2>2 DEF Coming
  <2> HIDE DEF rest, old
  <2>6. rest = <<>>
    BY <2>3, EmptySequence
  <2>7. Append(rest, Traded(old, side, base, quote)) = <<Traded(Coming(u), side, base, quote)>>
    BY <2>6, <2>5
  <2> QED
    BY <1>1, <2>4, <2>7 DEF Pushed
<1> QED
  BY <1>2, <1>3

\* A row with less of the base asset than it should have.
Lowered(row, lack) ==
  [row EXCEPT !["baseFree"] = @ - lack.free, !["baseLocked"] = @ - lack.locked]

LEMMA RoundedSale ==
  ASSUME NEW row \in Row, NEW e \in FloatErrors
  PROVE  RoundedDown(row, "SELL", e) = Lowered(row, Lacking(row, RoundedDown(row, "SELL", e), "SELL"))
<1> DEFINE held == RoundedDown(row, "SELL", e)
           lack == Lacking(row, held, "SELL")
<1>1. held \in Row /\ \A c \in {"quoteFree", "quoteLocked"} : held[c] = row[c]
  BY RoundedTypes DEF FreeOf, LockedOf, Columns
<1>2. lack.free = row["baseFree"] - held["baseFree"] /\ lack.locked = row["baseLocked"] - held["baseLocked"]
  BY DEF Lacking, FreeOf, LockedOf
<1> HIDE DEF held, lack
<1>3. /\ row["baseFree"] \in Int /\ held["baseFree"] \in Int
      /\ row["baseLocked"] \in Int /\ held["baseLocked"] \in Int
  BY <1>1 DEF Row, Columns
<1>4. held["baseFree"] = row["baseFree"] - lack.free /\ held["baseLocked"] = row["baseLocked"] - lack.locked
  BY <1>2, <1>3
<1>5. \A c \in Columns : held[c] = Lowered(row, lack)[c]
  BY <1>1, <1>4 DEF Lowered, Row, Columns
<1>6. held = Lowered(row, lack)
  BY <1>1, <1>5 DEF Lowered, Row
<1> QED
  BY <1>6 DEF held, lack

LEMMA LoweredTypes ==
  ASSUME NEW row \in Row, NEW lack \in Shortage
  PROVE  /\ Lowered(row, lack) \in Row
         /\ OwnedBy(Lowered(row, lack)).base = OwnedBy(row).base - (lack.free + lack.locked)
         /\ OwnedBy(Lowered(row, lack)).quote = OwnedBy(row).quote
         /\ Lowered(row, lack)["baseLocked"] = row["baseLocked"] - lack.locked
         /\ Lowered(row, lack)["quoteLocked"] = row["quoteLocked"]
         /\ lack = NotShort => Lowered(row, lack) = row
<1>1. lack.free \in Int /\ lack.locked \in Int
  BY DEF Shortage
<1>2. /\ row["baseFree"] \in Int /\ row["baseLocked"] \in Int
      /\ row["quoteFree"] \in Int /\ row["quoteLocked"] \in Int
  BY DEF Row, Columns
<1>3. /\ Lowered(row, lack) \in Row
      /\ Lowered(row, lack)["baseFree"] = row["baseFree"] - lack.free
      /\ Lowered(row, lack)["baseLocked"] = row["baseLocked"] - lack.locked
      /\ Lowered(row, lack)["quoteFree"] = row["quoteFree"]
      /\ Lowered(row, lack)["quoteLocked"] = row["quoteLocked"]
  BY <1>1, <1>2 DEF Lowered, Row, Columns
<1>4. ASSUME lack = NotShort PROVE Lowered(row, lack) = row
  <2>1. lack.free = 0 /\ lack.locked = 0
    BY <1>4 DEF NotShort
  <2>2. \A c \in Columns : Lowered(row, lack)[c] = row[c]
    BY <1>2, <1>3, <2>1 DEF Columns
  <2> QED
    BY <1>3, <2>2 DEF Row
<1>5. /\ OwnedBy(Lowered(row, lack)).base = (row["baseFree"] - lack.free) + (row["baseLocked"] - lack.locked)
      /\ OwnedBy(row).base = row["baseFree"] + row["baseLocked"]
      /\ OwnedBy(Lowered(row, lack)).quote = OwnedBy(row).quote
  BY <1>3 DEF OwnedBy
<1>6. OwnedBy(Lowered(row, lack)).base = OwnedBy(row).base - (lack.free + lack.locked)
  BY <1>1, <1>2, <1>5
<1> QED
  BY <1>3, <1>4, <1>5, <1>6

LEMMA ReleasePushed ==
  ASSUME ArraysOK, short \in [Jobs -> Shortage], NEW j \in Jobs, short[j] = NotShort,
         taker[j].user \in Users, taker[j].side \in Sides, read[j] = balance[taker[j].user],
         read[j] \in Row, Remaining(j) \in Nat, NEW base \in Nat, NEW quote \in Nat,
         NEW errors \in SUBSET FloatErrors, taker[j].side = "BUY" => errors = {NoError}, NEW noted,
         PushRelease(j, base, quote, errors, noted), "reread" \notin anomaly'
  PROVE  LET u == taker[j].user
             side == taker[j].side
         IN
         /\ rows[u] = <<>> /\ Coming(u) = read[j]
         /\ \/ \E lack \in Shortage :
                 /\ short' = [short EXCEPT ![j] = lack]
                 /\ side = "BUY" \/ errors = {NoError} => lack = NotShort
                 /\ Pushed(u, Lowered(Traded(Released(read[j], side, Remaining(j)), side, base, quote), lack),
                           Entry(entries[u], side, base, quote))
            \/ Pushed(u, read[j], entries[u]) /\ short' = short /\ "notReleased" \in anomaly'
         /\ noted \subseteq anomaly'
<1> DEFINE u == taker[j].user
           side == taker[j].side
           exact == Traded(Released(read[j], side, Remaining(j)), side, base, quote)
<1>1. rows[u] = <<>> /\ noted \subseteq anomaly' /\ Coming(u) = read[j]
  BY ReleaseIs DEF Coming
<1>2. \A new : Append(rows[u], new) = <<new>>
  BY <1>1
<1>3. entries = [entries EXCEPT ![u] = entries[u]]
  BY DEF ArraysOK
<1>4. exact \in Row
  BY ReleasedTypes, RowTypes
<1> HIDE DEF exact
<1>5. ASSUME NEW e \in errors
      PROVE  /\ Lacking(exact, RoundedDown(exact, side, e), side) \in Shortage
             /\ RoundedDown(exact, side, e) = Lowered(exact, Lacking(exact, RoundedDown(exact, side, e), side))
             /\ side = "BUY" \/ errors = {NoError} => Lacking(exact, RoundedDown(exact, side, e), side) = NotShort
  <2> DEFINE held == RoundedDown(exact, side, e)
             lack == Lacking(exact, held, side)
  <2>1. /\ held \in Row /\ lack \in Shortage /\ (e = NoError => held = exact /\ lack = NotShort)
    BY <1>4, RoundedTypes
  <2>2. CASE side = "SELL"
    BY <1>4, <2>1, <2>2, RoundedSale
  <2>3. CASE side = "BUY"
    <3>1. held = exact /\ lack = NotShort
      BY <2>1, <2>3
    <3> HIDE DEF held, lack
    <3>2. Lowered(exact, lack) = exact
      BY <1>4, <2>1, <3>1, LoweredTypes
    <3> QED
      BY <2>1, <3>1, <3>2 DEF held, lack
  <2> QED
    BY <2>1, <2>2, <2>3 DEF Sides
<1>6. \/ /\ \E e \in errors :
              LET held == RoundedDown(exact, side, e)
              IN  /\ rows' = [rows EXCEPT ![u] = Append(@, held)]
                  /\ short' = [short EXCEPT ![j] = Lacking(exact, held, side)]
         /\ entries' = [entries EXCEPT ![u] = Entry(@, side, base, quote)]
      \/ /\ rows' = [rows EXCEPT ![u] = Append(@, read[j])]
         /\ entries' = entries /\ short' = short /\ "notReleased" \in anomaly'
  BY ReleaseIs DEF exact
<1>7. \/ \E lack \in Shortage :
           /\ short' = [short EXCEPT ![j] = lack]
           /\ side = "BUY" \/ errors = {NoError} => lack = NotShort
           /\ Pushed(u, Lowered(exact, lack), Entry(entries[u], side, base, quote))
      \/ Pushed(u, read[j], entries[u]) /\ short' = short /\ "notReleased" \in anomaly'
  <2>1. ASSUME NEW e \in errors,
               rows' = [rows EXCEPT ![u] = Append(@, RoundedDown(exact, side, e))],
               short' = [short EXCEPT ![j] = Lacking(exact, RoundedDown(exact, side, e), side)],
               entries' = [entries EXCEPT ![u] = Entry(@, side, base, quote)]
        PROVE  \E lack \in Shortage :
                 /\ short' = [short EXCEPT ![j] = lack]
                 /\ side = "BUY" \/ errors = {NoError} => lack = NotShort
                 /\ Pushed(u, Lowered(exact, lack), Entry(entries[u], side, base, quote))
    <3> DEFINE lack == Lacking(exact, RoundedDown(exact, side, e), side)
    <3>1. /\ lack \in Shortage /\ RoundedDown(exact, side, e) = Lowered(exact, lack)
          /\ side = "BUY" \/ errors = {NoError} => lack = NotShort
      BY <1>5
    <3>2. short' = [short EXCEPT ![j] = lack]
      BY <2>1
    <3> HIDE DEF lack
    <3>3. rows' = [rows EXCEPT ![u] = <<Lowered(exact, lack)>>]
      BY <1>2, <2>1, <3>1
    <3>4. Pushed(u, Lowered(exact, lack), Entry(entries[u], side, base, quote))
      BY <2>1, <3>3 DEF Pushed
    <3> QED
      BY <3>1, <3>2, <3>4
  <2>2. CASE /\ rows' = [rows EXCEPT ![u] = Append(@, read[j])]
             /\ entries' = entries /\ short' = short /\ "notReleased" \in anomaly'
    BY <1>2, <1>3, <2>2 DEF Pushed
  <2> QED
    BY <1>6, <2>1, <2>2
<1> QED
  BY <1>1, <1>7 DEF exact

LEMMA TradedOwned ==
  ASSUME NEW r \in Row, NEW side \in Sides, NEW base \in Nat, NEW quote \in Nat
  PROVE  OwnedBy(Traded(r, side, base, quote)) = Entry(OwnedBy(r), side, base, quote)
  BY DEF OwnedBy, Traded, Entry, Row, Columns, Sides

LEMMA ReleasedOwned ==
  ASSUME NEW r \in Row, NEW side \in Sides, NEW rest \in Nat
  PROVE  OwnedBy(Released(r, side, rest)) = OwnedBy(r) /\ Released(r, side, rest) \in Row
  BY DEF OwnedBy, Released, FreeOf, LockedOf, Row, Columns, Sides

\* What is saved of a user with at most one row object is that object.
LEMMA SavedIsComing ==
  ASSUME IInv, NEW u \in Users, Len(rows[u]) <= 1
  PROVE  Saved(u) = Coming(u)
<1>1. rows[u] \in Seq(Row) /\ balance[u] \in Row
  BY DEF IInv, TypeOK, Row
<1>2. CASE rows[u] = <<>>
  <2>1. DOMAIN rows[u] = {}
    BY <1>2
  <2>2. Saved(u) = [c \in Columns |-> balance[u][c]]
    BY <2>1 DEF Saved
  <2> QED
    BY <1>1, <1>2, <2>2 DEF Coming, Row
<1>3. CASE rows[u] # <<>>
  <2>1. Len(rows[u]) = 1 /\ DOMAIN rows[u] = {1} /\ rows[u][1] \in Row
    <3>1. Len(rows[u]) \in Nat /\ Len(rows[u]) <= 1 /\ DOMAIN rows[u] = 1 .. Len(rows[u])
      BY <1>1
    <3>2. Len(rows[u]) = 1
      <4>1. Len(rows[u]) # 0
        BY <1>1, <1>3, EmptySequence
      <4>2. ASSUME NEW n \in Nat, n <= 1, n # 0 PROVE n = 1
        BY <4>2
      <4> QED
        BY <3>1, <4>1, <4>2
    <3>3. 1 .. 1 = {1}
      OBVIOUS
    <3> QED
      BY <1>1, <3>1, <3>2, <3>3
  <2>2. ASSUME NEW c \in Columns
        PROVE  LET changed == {i \in DOMAIN rows[u] : rows[u][i][c] # balance[u][c]}
               IN  (IF changed = {} THEN balance[u][c] ELSE rows[u][Max(changed)][c]) = rows[u][1][c]
    <3> DEFINE changed == {i \in DOMAIN rows[u] : rows[u][i][c] # balance[u][c]}
    <3>1. CASE changed = {}
      BY <2>1, <3>1
    <3>2. CASE changed # {}
      <4>1. changed \in SUBSET (1 .. 1) /\ 1 \in Nat
        BY <2>1
      <4>2. Max(changed) \in 1 .. 1
        <5> HIDE DEF changed
        <5> QED
          BY <3>2, <4>1, MaxOfSome
      <4>3. Max(changed) = 1
        BY <4>2
      <4> QED
        BY <3>2, <4>3
    <3> QED
      BY <3>1, <3>2
  <2>3. Saved(u) = [c \in Columns |-> rows[u][1][c]]
    BY <2>2 DEF Saved
  <2> QED
    BY <1>3, <2>1, <2>3 DEF Coming, Row
<1> QED
  BY <1>2, <1>3

LEMMA ReserveSame ==
  ASSUME UNCHANGED <<maker, taker>>, NEW u, NEW side
  PROVE  Reserve(u, side)' = Reserve(u, side)
  BY DEF Reserve, MakerLock, TakerLock

LEMMA ComingTypes == ASSUME IInv, NEW u \in Users PROVE Coming(u) \in Row /\ balance[u] \in Row
<1>1. rows[u] \in Seq(Row) /\ balance[u] \in Row
  BY DEF IInv, TypeOK, Row
<1>2. rows[u] # <<>> => rows[u][1] \in Row
  BY <1>1, EmptySequence
<1> QED
  BY <1>1, <1>2 DEF Coming

LEMMA ComingAfter ==
  ASSUME IInv, NEW u \in Users, NEW new, NEW e, Pushed(u, new, e), balance' = balance
  PROVE  /\ Coming(u)' = new /\ entries'[u] = e /\ Len(rows'[u]) = 1
         /\ \A v \in Users \ {u} : /\ Coming(v)' = Coming(v) /\ entries'[v] = entries[v]
                                   /\ rows'[v] = rows[v]
<1>1. rows \in [Users -> Seq(Row)] /\ entries \in [Users -> [base : Int, quote : Int]]
  BY DEF IInv, TypeOK, Row
<1>2. rows'[u] = <<new>> /\ entries'[u] = e
      /\ \A v \in Users \ {u} : rows'[v] = rows[v] /\ entries'[v] = entries[v]
  BY <1>1 DEF Pushed
<1>3. <<new>> # <<>> /\ <<new>>[1] = new /\ Len(<<new>>) = 1
  OBVIOUS
<1> QED
  BY <1>2, <1>3 DEF Coming

\* What one push does to a row, it does to the entry.
LEMMA EntryMoves ==
  ASSUME NEW s \in [base : Int, quote : Int], NEW t \in [base : Int, quote : Int],
         NEW side \in Sides, NEW base \in Nat, NEW quote \in Nat
  PROVE  /\ Entry(s, side, base, quote).base - s.base = Entry(t, side, base, quote).base - t.base
         /\ Entry(s, side, base, quote).quote - s.quote = Entry(t, side, base, quote).quote - t.quote
  BY DEF Entry

LEMMA OwnedTypes == ASSUME NEW r \in Row PROVE OwnedBy(r) \in [base : Int, quote : Int]
  BY DEF OwnedBy, Row, Columns

-----------------------------------------------------------------------------
(***************************************************************************)
(* What the two steps that push do, while nothing overlaps.                *)
(***************************************************************************)
LEMMA SettleIs ==
  ASSUME IInv, OneJob, NEW j \in Jobs, SettleMaker(j), "reread" \notin anomaly',
         \A u \in Users : Len(rows[u]) <= 1
  PROVE  LET m == maker[fill[j].id] IN
         /\ m \in Order
         /\ fill[j].base \in Nat /\ fill[j].quote \in Nat
         /\ Pushed(m.user, Traded(Coming(m.user), m.side, fill[j].base, fill[j].quote),
                   Entry(entries[m.user], m.side, fill[j].base, fill[j].quote))
<1> DEFINE m == maker[fill[j].id]
<1>1. m \in Order
  BY OrderTypes DEF IInv, TypeOK, Settling, SettleMaker
<1>2. m.user \in Users /\ m.side \in Sides
  BY <1>1 DEF Order
<1>3. PushTrade(m.user, m.side, read[j], fill[j].base, fill[j].quote) /\ pc[j] = "settle"
  BY DEF SettleMaker
<1>4. read[j] = balance[m.user]
  BY <1>3 DEF OneJob
<1> HIDE DEF m
<1>5. ArraysOK /\ fill[j].base \in Nat /\ fill[j].quote \in Nat /\ balance[m.user] \in Row
  BY <1>2, TypesOfArrays, ComingTypes
<1>6. Pushed(m.user, Traded(Coming(m.user), m.side, fill[j].base, fill[j].quote),
             Entry(entries[m.user], m.side, fill[j].base, fill[j].quote))
  BY <1>2, <1>3, <1>4, <1>5, TradePushed
<1> QED
  BY <1>1, <1>5, <1>6 DEF m

LEMMA FinishIs ==
  ASSUME IInv, OneJob, NEW j \in Jobs, FinishTaker(j), "reread" \notin anomaly',
         \A u \in Users : Len(rows[u]) <= 1
  PROVE  LET u == taker[j].user
             side == taker[j].side
             left == Remaining(j)
             base == filled[j].base
             quote == filled[j].quote
         IN
         /\ u \in Users /\ side \in Sides /\ left \in Nat /\ base \in Nat /\ quote \in Nat
         /\ \E lack \in Shortage :
              /\ short' = [short EXCEPT ![j] = lack]
              /\ lack # NotShort => PartlySold(j)
              /\ \/ /\ left = 0 /\ lack = NotShort
                    /\ Pushed(u, Traded(Coming(u), side, base, quote), Entry(entries[u], side, base, quote))
                 \/ /\ left > 0 /\ base > 0
                    /\ Pushed(u, Lowered(Traded(Released(Coming(u), side, left), side, base, quote), lack),
                              Entry(entries[u], side, base, quote))
                 \/ /\ left > 0 /\ base = 0 /\ lack = NotShort
                    /\ taker[j].amount - left > 0 => "spentForNothing" \in anomaly'
                    /\ Pushed(u, Traded(Released(Coming(u), side, left), side, 0, 0),
                              Entry(entries[u], side, 0, 0))
                 \/ /\ "notReleased" \in anomaly' /\ lack = NotShort
                    /\ Pushed(u, Coming(u), entries[u])
<1> DEFINE u == taker[j].user
           side == taker[j].side
           left == Remaining(j)
           base == filled[j].base
           quote == filled[j].quote
           noted == IF taker[j].amount - left > 0 THEN {"spentForNothing"} ELSE {}
           errors == IF side = "SELL" THEN FloatErrors ELSE {NoError}
           Goal(lack) ==
              /\ short' = [short EXCEPT ![j] = lack]
              /\ lack # NotShort => PartlySold(j)
              /\ \/ /\ left = 0 /\ lack = NotShort
                    /\ Pushed(u, Traded(Coming(u), side, base, quote), Entry(entries[u], side, base, quote))
                 \/ /\ left > 0 /\ base > 0
                    /\ Pushed(u, Lowered(Traded(Released(Coming(u), side, left), side, base, quote), lack),
                              Entry(entries[u], side, base, quote))
                 \/ /\ left > 0 /\ base = 0 /\ lack = NotShort
                    /\ taker[j].amount - left > 0 => "spentForNothing" \in anomaly'
                    /\ Pushed(u, Traded(Released(Coming(u), side, left), side, 0, 0),
                              Entry(entries[u], side, 0, 0))
                 \/ /\ "notReleased" \in anomaly' /\ lack = NotShort
                    /\ Pushed(u, Coming(u), entries[u])
<1>1. /\ ArraysOK /\ u \in Users /\ side \in Sides /\ left \in Nat /\ base \in Nat /\ quote \in Nat
      /\ taker[j].amount \in Nat
  BY TypesOfArrays
<1>2. pc[j] = "finish"
  BY DEF FinishTaker
<1>3. read[j] = balance[u] /\ balance[u] \in Row
  BY <1>1, <1>2, ComingTypes DEF OneJob
<1>4. \/ left = 0 /\ PushTrade(u, side, read[j], base, quote) /\ short' = short
      \/ left > 0 /\ base > 0 /\ PushRelease(j, base, quote, errors, {})
      \/ left > 0 /\ base = 0 /\ PushRelease(j, 0, 0, {NoError}, noted)
  <2>1. \/ left <= 0 /\ PushTrade(u, side, read[j], base, quote) /\ short' = short
        \/ left > 0 /\ base > 0 /\ PushRelease(j, base, quote, errors, {})
        \/ left > 0 /\ base = 0 /\ PushRelease(j, 0, 0, {NoError}, noted)
    BY DEF FinishTaker
  <2>2. left <= 0 => left = 0
    <3> HIDE DEF left
    <3> QED
      BY <1>1
  <2> QED
    BY <2>1, <2>2
<1>5. taker[j].amount - left > 0 => noted = {"spentForNothing"}
  OBVIOUS
<1>6. /\ short \in [Jobs -> Shortage] /\ short[j] = NotShort
      /\ NotShort \in Shortage
  BY <1>2 DEF IInv, TypeOK, Fresh, Unpushed, PcValues, Shortage, NotShort
<1>7. /\ NoError \in FloatErrors /\ errors \in SUBSET FloatErrors /\ {NoError} \in SUBSET FloatErrors
      /\ side = "BUY" => errors = {NoError}
  BY DEF FloatErrors, NoError
<1>8. side = "SELL" /\ left > 0 /\ base > 0 => PartlySold(j)
  BY <1>1 DEF PartlySold
<1>9. short = [short EXCEPT ![j] = NotShort]
  BY <1>6
<1>10. Released(read[j], side, left) \in Row
  BY <1>1, <1>3, ReleasedTypes
<1>11. \E lack \in Shortage : Goal(lack)
  <2> HIDE DEF errors, noted
  <2>1. CASE left = 0 /\ PushTrade(u, side, read[j], base, quote) /\ short' = short
    <3> HIDE DEF u, side, left, base, quote
    <3>1. Pushed(u, Traded(Coming(u), side, base, quote), Entry(entries[u], side, base, quote))
      BY <1>1, <1>3, <2>1, TradePushed
    <3>2. Goal(NotShort)
      BY <1>9, <2>1, <3>1
    <3> QED
      BY <1>6, <3>2
  <2>2. CASE left > 0 /\ base > 0 /\ PushRelease(j, base, quote, errors, {})
    <3>1. /\ Coming(u) = read[j]
          /\ \/ \E lack \in Shortage :
                  /\ short' = [short EXCEPT ![j] = lack]
                  /\ side = "BUY" => lack = NotShort
                  /\ Pushed(u, Lowered(Traded(Released(read[j], side, left), side, base, quote), lack),
                            Entry(entries[u], side, base, quote))
             \/ Pushed(u, read[j], entries[u]) /\ short' = short /\ "notReleased" \in anomaly'
      BY <1>1, <1>3, <1>6, <1>7, <2>2, ReleasePushed
    <3> HIDE DEF u, side, left, base, quote
    <3>2. ASSUME NEW lack \in Shortage, short' = [short EXCEPT ![j] = lack], side = "BUY" => lack = NotShort,
                 Pushed(u, Lowered(Traded(Released(read[j], side, left), side, base, quote), lack),
                        Entry(entries[u], side, base, quote))
          PROVE  \E k \in Shortage : Goal(k)
      <4>1. lack # NotShort => PartlySold(j)
        BY <1>1, <1>8, <2>2, <3>2 DEF Sides
      <4>2. Goal(lack)
        BY <2>2, <3>1, <3>2, <4>1
      <4> QED
        BY <4>2
    <3>3. CASE Pushed(u, read[j], entries[u]) /\ short' = short /\ "notReleased" \in anomaly'
      <4>1. Goal(NotShort)
        BY <1>9, <3>1, <3>3
      <4> QED
        BY <1>6, <4>1
    <3> HIDE DEF Goal
    <3> QED
      BY <3>1, <3>2, <3>3
  <2>3. CASE left > 0 /\ base = 0 /\ PushRelease(j, 0, 0, {NoError}, noted)
    <3>1. /\ Coming(u) = read[j] /\ noted \subseteq anomaly'
          /\ \/ \E lack \in Shortage :
                  /\ short' = [short EXCEPT ![j] = lack] /\ lack = NotShort
                  /\ Pushed(u, Lowered(Traded(Released(read[j], side, left), side, 0, 0), lack),
                            Entry(entries[u], side, 0, 0))
             \/ Pushed(u, read[j], entries[u]) /\ short' = short /\ "notReleased" \in anomaly'
      BY <1>1, <1>3, <1>6, <1>7, <2>3, ReleasePushed
    <3>2. taker[j].amount - left > 0 => "spentForNothing" \in anomaly'
      BY <1>5, <3>1
    <3> HIDE DEF u, side, left, base, quote
    <3>3. Traded(Released(read[j], side, left), side, 0, 0) \in Row
      BY <1>1, <1>10, RowTypes
    <3>4. Lowered(Traded(Released(read[j], side, left), side, 0, 0), NotShort)
            = Traded(Released(read[j], side, left), side, 0, 0)
      BY <1>6, <3>3, LoweredTypes
    <3>5. Goal(NotShort)
      BY <1>9, <2>3, <3>1, <3>2, <3>4
    <3> QED
      BY <1>6, <3>5
  <2> QED
    BY <1>4, <2>1, <2>2, <2>3
<1> QED
  BY <1>1, <1>11

-----------------------------------------------------------------------------
(***************************************************************************)
(* The ledger explains the balances.                                       *)
(***************************************************************************)
LEMMA ExplainedKept ==
  ASSUME Explained, UNCHANGED <<maker, taker, balance, ledger, rows, entries>>,
         \A j \in Jobs : pc'[j] = "reset" <=> pc[j] = "reset",
         \A u \in Users : Short(u)' = Short(u) /\ Stored(u)' = Stored(u)
  PROVE  Explained'
<1>1. \A u \in Users : /\ Reserve(u, "SELL")' = Reserve(u, "SELL") /\ Reserve(u, "BUY")' = Reserve(u, "BUY")
                       /\ Coming(u)' = Coming(u) /\ Due(u)' = Due(u)
  BY ReserveSame DEF Coming, Due
<1>2. (\A u \in Users : Len(rows[u]) <= 1)'
  BY DEF Explained
<1>3. (\A u \in Users : BalanceExplained(u))'
  BY <1>1 DEF Explained, BalanceExplained
<1>4. ((\A j \in Jobs : pc[j] # "reset") => \A u \in Users : ComingExplained(u))'
  BY <1>1 DEF Explained, ComingExplained
<1>5. ((\E j \in Jobs : pc[j] = "reset") => \A u \in Users : Coming(u) = balance[u])'
  BY <1>1 DEF Explained
<1> QED
  BY <1>2, <1>3, <1>4, <1>5 DEF Explained

\* What an entry does not say of a pushed row, rounding has kept.
LEMMA ExplainedPush ==
  ASSUME IInv, IInv', Explained, NEW u \in Users, NEW new \in Row, NEW e \in [base : Int, quote : Int],
         Pushed(u, new, e), NEW d \in Int,
         OwnedBy(new).base - OwnedBy(Coming(u)).base = e.base - entries[u].base - d,
         OwnedBy(new).quote - OwnedBy(Coming(u)).quote = e.quote - entries[u].quote,
         UNCHANGED <<maker, taker, balance, ledger>>,
         \A v \in Users : /\ Short(v)' = Short(v) + (IF u = v THEN d ELSE 0)
                          /\ Stored(v)' = Stored(v),
         \A j \in Jobs : pc[j] # "reset" /\ pc'[j] # "reset"
  PROVE  Explained'
<1>1. \A v \in Users : Reserve(v, "SELL")' = Reserve(v, "SELL") /\ Reserve(v, "BUY")' = Reserve(v, "BUY")
  BY ReserveSame
<1>2. /\ Coming(u)' = new /\ entries'[u] = e /\ Len(rows'[u]) = 1
      /\ \A v \in Users \ {u} : /\ Coming(v)' = Coming(v) /\ entries'[v] = entries[v]
                                /\ rows'[v] = rows[v]
  BY ComingAfter
<1>3. \A v \in Users : ComingExplained(v)
  BY DEF Explained
<1>4. (\A v \in Users : Len(rows[v]) <= 1)'
  <2> SUFFICES ASSUME NEW v \in Users PROVE Len(rows'[v]) <= 1
    OBVIOUS
  <2>1. CASE v = u
    <3>1. Len(rows'[v]) = 1
      BY <1>2, <2>1
    <3> QED
      BY <3>1
  <2>2. CASE v # u
    BY <1>2, <2>2 DEF Explained
  <2> QED
    BY <2>1, <2>2
<1>5. \A v \in Users : /\ OwnedBy(Coming(v)).base \in Int /\ OwnedBy(Coming(v)).quote \in Int
                       /\ OwnedBy(balance[v]).base \in Int /\ OwnedBy(balance[v]).quote \in Int
                       /\ entries[v].base \in Int /\ entries[v].quote \in Int
                       /\ Short(v) \in Int /\ Stored(v) \in Int
  <2> SUFFICES ASSUME NEW v \in Users
               PROVE  /\ OwnedBy(Coming(v)) \in [base : Int, quote : Int]
                      /\ OwnedBy(balance[v]) \in [base : Int, quote : Int]
                      /\ entries[v] \in [base : Int, quote : Int]
                      /\ Short(v) \in Int /\ Stored(v) \in Int
    OBVIOUS
  <2>1. Coming(v) \in Row /\ balance[v] \in Row /\ Short(v) \in Int /\ Stored(v) \in Int
    BY ComingTypes, ShortSums
  <2> QED
    BY <2>1, OwnedTypes DEF IInv, TypeOK
<1>6. OwnedBy(new).base \in Int /\ OwnedBy(new).quote \in Int /\ e.base \in Int /\ e.quote \in Int
  BY OwnedTypes
<1>7. Due(u) \in Int /\ Due(u)' = Due(u) + d /\ \A v \in Users \ {u} : Due(v)' = Due(v)
  <2>1. Short(u)' = Short(u) + d /\ Stored(u)' = Stored(u) /\ Short(u) \in Int /\ Stored(u) \in Int
    BY <1>5
  <2>2. ASSUME NEW v \in Users \ {u} PROVE Due(v)' = Due(v)
    <3>1. Short(v)' = Short(v) + 0 /\ Stored(v)' = Stored(v) /\ Short(v) \in Int
      BY <1>5
    <3>2. Short(v)' = Short(v)
      BY <3>1
    <3> QED
      BY <3>1, <3>2 DEF Due
  <2>3. (Short(u) + d) - Stored(u) = (Short(u) - Stored(u)) + d /\ Short(u) - Stored(u) \in Int
    BY <2>1
  <2> QED
    BY <2>1, <2>2, <2>3 DEF Due
<1>8. /\ OwnedBy(new).base = OwnedBy(balance[u]).base + e.base - (Due(u) + d)
      /\ OwnedBy(new).quote = OwnedBy(balance[u]).quote + e.quote
  <2>1. /\ OwnedBy(Coming(u)).base = OwnedBy(balance[u]).base + entries[u].base - Due(u)
        /\ OwnedBy(Coming(u)).quote = OwnedBy(balance[u]).quote + entries[u].quote
    BY <1>3 DEF ComingExplained
  <2> DEFINE cb == OwnedBy(Coming(u)).base
             cq == OwnedBy(Coming(u)).quote
             nb == OwnedBy(new).base
             nq == OwnedBy(new).quote
             bb == OwnedBy(balance[u]).base
             bq == OwnedBy(balance[u]).quote
             ob == entries[u].base
             oq == entries[u].quote
             eb == e.base
             eq == e.quote
             due == Due(u)
  <2>2. /\ cb \in Int /\ cq \in Int /\ nb \in Int /\ nq \in Int /\ bb \in Int /\ bq \in Int
        /\ ob \in Int /\ oq \in Int /\ eb \in Int /\ eq \in Int /\ due \in Int
    BY <1>5, <1>6, <1>7
  <2>3. nb - cb = eb - ob - d /\ nq - cq = eq - oq /\ cb = bb + ob - due /\ cq = bq + oq
    BY <2>1
  <2> HIDE DEF cb, cq, nb, nq, bb, bq, ob, oq, eb, eq, due
  <2> HIDE MatchingAssumption
  <2>4. nb = bb + eb - (due + d) /\ nq = bq + eq
    BY <2>2, <2>3
  <2> QED
    BY <2>4 DEF nb, nq, bb, bq, eb, eq, due
<1>9. (\A v \in Users : ComingExplained(v))'
  <2> SUFFICES ASSUME NEW v \in Users
               PROVE  /\ OwnedBy(Coming(v)').base = OwnedBy(balance[v]).base + entries'[v].base - Due(v)'
                      /\ OwnedBy(Coming(v)').quote = OwnedBy(balance[v]).quote + entries'[v].quote
    BY DEF OwnedBy, ComingExplained
  <2>1. CASE v = u
    BY <1>2, <1>7, <1>8, <2>1
  <2>2. CASE v # u
    BY <1>2, <1>3, <1>7, <2>2 DEF ComingExplained
  <2> QED
    BY <2>1, <2>2
<1>10. (\A v \in Users : BalanceExplained(v))'
  BY <1>1 DEF Explained, BalanceExplained
<1> QED
  BY <1>4, <1>9, <1>10 DEF Explained

\* The one job at work is the only one that may be about to empty the arrays.
LEMMA OthersNotReset ==
  ASSUME IInv, OneJob, NEW j \in Jobs, Active(j), pc[j] # "reset",
         NEW label, pc' = [pc EXCEPT ![j] = label], label # "reset"
  PROVE  \A i \in Jobs : pc[i] # "reset" /\ pc'[i] # "reset"
<1>1. /\ \A i \in Jobs \ {j} : ~Active(i) /\ pc'[i] = pc[i] /\ ~Active(i)'
      /\ pc'[j] = label
  BY Alone
<1> QED
  BY <1>1 DEF Active

LEMMA SettleExplained ==
  ASSUME IInv, IInv', OneJob, Explained, NEW j \in Jobs, SettleMaker(j), "reread" \notin anomaly'
  PROVE  Explained'
<1> DEFINE m == maker[fill[j].id]
           u == m.user
           side == m.side
           base == fill[j].base
           quote == fill[j].quote
<1>7. \A v \in Users : Short(v)' = Short(v) + (IF u = v THEN 0 ELSE 0) /\ Stored(v)' = Stored(v)
  <2> SUFFICES ASSUME NEW v \in Users PROVE Short(v)' = Short(v) + 0 /\ Stored(v)' = Stored(v)
    OBVIOUS
  <2>1. Short(v)' = Short(v) /\ Stored(v)' = Stored(v) /\ Short(v) \in Int
    BY ShortQuiet, ShortSums
  <2> QED
    BY <2>1
<1>1. m \in Order /\ base \in Nat /\ quote \in Nat
      /\ Pushed(u, Traded(Coming(u), side, base, quote), Entry(entries[u], side, base, quote))
  BY SettleIs DEF Explained
<1>2. u \in Users /\ side \in Sides
  BY <1>1 DEF Order
<1>3. UNCHANGED <<maker, taker, balance, ledger>>
  BY DEF SettleMaker, orders, postgres
<1>4. \A i \in Jobs : pc[i] # "reset" /\ pc'[i] # "reset"
  <2>1. pc[j] = "settle" /\ pc' = [pc EXCEPT ![j] = IF Remaining(j) <= 0 \/ snap[j] = {} THEN "close" ELSE "match"]
    BY DEF SettleMaker, Goto
  <2> QED
    BY <2>1, OthersNotReset DEF Active
<1> HIDE DEF m, u, side, base, quote
<1>5. Coming(u) \in Row /\ entries[u] \in [base : Int, quote : Int]
  BY <1>2, ComingTypes DEF IInv, TypeOK
<1>6. /\ Traded(Coming(u), side, base, quote) \in Row
      /\ Entry(entries[u], side, base, quote) \in [base : Int, quote : Int]
      /\ OwnedBy(Traded(Coming(u), side, base, quote)) = Entry(OwnedBy(Coming(u)), side, base, quote)
      /\ OwnedBy(Coming(u)) \in [base : Int, quote : Int]
  <2>1. base \in Int /\ quote \in Int
    BY <1>1
  <2>2. /\ Traded(Coming(u), side, base, quote) \in Row
        /\ Entry(entries[u], side, base, quote) \in [base : Int, quote : Int]
    BY <1>2, <1>5, <2>1, RowTypes, EntryTypes
  <2>3. OwnedBy(Traded(Coming(u), side, base, quote)) = Entry(OwnedBy(Coming(u)), side, base, quote)
    BY <1>1, <1>2, <1>5, TradedOwned
  <2>4. OwnedBy(Coming(u)) \in [base : Int, quote : Int]
    BY <1>5, OwnedTypes
  <2> QED
    BY <2>2, <2>3, <2>4
<1> DEFINE new == Traded(Coming(u), side, base, quote)
           e == Entry(entries[u], side, base, quote)
<1>8. /\ OwnedBy(new).base - OwnedBy(Coming(u)).base = e.base - entries[u].base - 0
      /\ OwnedBy(new).quote - OwnedBy(Coming(u)).quote = e.quote - entries[u].quote
  <2>1. /\ OwnedBy(new).base - OwnedBy(Coming(u)).base = e.base - entries[u].base
        /\ OwnedBy(new).quote - OwnedBy(Coming(u)).quote = e.quote - entries[u].quote
    BY <1>1, <1>2, <1>5, <1>6, EntryMoves
  <2>2. e.base \in Int /\ entries[u].base \in Int
    BY <1>5, <1>6
  <2> HIDE DEF new, e
  <2> QED
    BY <2>1, <2>2
<1> HIDE DEF new, e
<1>9. Pushed(u, new, e) /\ new \in Row /\ e \in [base : Int, quote : Int] /\ 0 \in Int
  BY <1>1, <1>6 DEF new, e
<1> QED
  BY <1>2, <1>3, <1>4, <1>7, <1>8, <1>9, ExplainedPush

LEMMA FinishExplained ==
  ASSUME IInv, IInv', OneJob, Explained, NEW j \in Jobs, FinishTaker(j), "reread" \notin anomaly'
  PROVE  Explained'
<1> DEFINE u == taker[j].user
           side == taker[j].side
<1>1. PICK lack \in Shortage, new \in Row, base \in Nat, quote \in Nat, left \in Nat :
        /\ u \in Users /\ side \in Sides
        /\ short' = [short EXCEPT ![j] = lack]
        /\ lack # NotShort => PartlySold(j)
        /\ \/ /\ new \in {Coming(u), Released(Coming(u), side, left)}
              /\ Pushed(u, Lowered(Traded(new, side, base, quote), lack), Entry(entries[u], side, base, quote))
           \/ Pushed(u, Coming(u), entries[u]) /\ lack = NotShort
  <2> DEFINE left == Remaining(j)
             base == filled[j].base
             quote == filled[j].quote
  <2>1. /\ u \in Users /\ side \in Sides /\ left \in Nat /\ base \in Nat /\ quote \in Nat /\ 0 \in Nat
        /\ \E lack \in Shortage :
             /\ short' = [short EXCEPT ![j] = lack]
             /\ lack # NotShort => PartlySold(j)
             /\ \/ /\ lack = NotShort
                   /\ Pushed(u, Traded(Coming(u), side, base, quote), Entry(entries[u], side, base, quote))
                \/ Pushed(u, Lowered(Traded(Released(Coming(u), side, left), side, base, quote), lack),
                          Entry(entries[u], side, base, quote))
                \/ /\ lack = NotShort
                   /\ Pushed(u, Traded(Released(Coming(u), side, left), side, 0, 0),
                             Entry(entries[u], side, 0, 0))
                \/ Pushed(u, Coming(u), entries[u]) /\ lack = NotShort
    BY FinishIs DEF Explained
  <2> HIDE DEF u, side, left, base, quote
  <2>6. Coming(u) \in Row /\ Released(Coming(u), side, left) \in Row
    BY <2>1, ComingTypes, ReleasedOwned
  <2>7. PICK lack \in Shortage :
             /\ short' = [short EXCEPT ![j] = lack]
             /\ lack # NotShort => PartlySold(j)
             /\ \/ /\ lack = NotShort
                   /\ Pushed(u, Traded(Coming(u), side, base, quote), Entry(entries[u], side, base, quote))
                \/ Pushed(u, Lowered(Traded(Released(Coming(u), side, left), side, base, quote), lack),
                          Entry(entries[u], side, base, quote))
                \/ /\ lack = NotShort
                   /\ Pushed(u, Traded(Released(Coming(u), side, left), side, 0, 0),
                             Entry(entries[u], side, 0, 0))
                \/ Pushed(u, Coming(u), entries[u]) /\ lack = NotShort
    BY <2>1
  <2> DEFINE P(new, b, q) ==
               \/ /\ new \in {Coming(u), Released(Coming(u), side, left)}
                  /\ Pushed(u, Lowered(Traded(new, side, b, q), lack), Entry(entries[u], side, b, q))
               \/ Pushed(u, Coming(u), entries[u]) /\ lack = NotShort
  <2>8. ASSUME NEW new \in Row, NEW b \in Nat, NEW q \in Nat, lack = NotShort
        PROVE  Lowered(Traded(new, side, b, q), lack) = Traded(new, side, b, q)
    <3>1. Traded(new, side, b, q) \in Row
      BY <2>1, RowTypes
    <3> QED
      BY <2>8, <3>1, LoweredTypes
  <2>9. \E new \in Row, b \in Nat, q \in Nat : P(new, b, q)
    <3>1. ASSUME lack = NotShort,
                 Pushed(u, Traded(Coming(u), side, base, quote), Entry(entries[u], side, base, quote))
          PROVE  P(Coming(u), base, quote)
      BY <2>1, <2>6, <2>8, <3>1
    <3>2. ASSUME Pushed(u, Lowered(Traded(Released(Coming(u), side, left), side, base, quote), lack),
                        Entry(entries[u], side, base, quote))
          PROVE  P(Released(Coming(u), side, left), base, quote)
      BY <3>2
    <3>3. ASSUME lack = NotShort,
                 Pushed(u, Traded(Released(Coming(u), side, left), side, 0, 0), Entry(entries[u], side, 0, 0))
          PROVE  P(Released(Coming(u), side, left), 0, 0)
      BY <2>1, <2>6, <2>8, <3>3
    <3>4. ASSUME Pushed(u, Coming(u), entries[u]), lack = NotShort
          PROVE  P(Coming(u), base, quote)
      BY <3>4
    <3> HIDE DEF P
    <3> QED
      BY <2>1, <2>6, <2>7, <3>1, <3>2, <3>3, <3>4
  <2> QED
    BY <2>1, <2>7, <2>9
<1>2. UNCHANGED <<maker, taker, balance, ledger, filled>>
  BY DEF FinishTaker, orders, postgres, local
<1>8. pc[j] = "finish" /\ pc' = [pc EXCEPT ![j] = "write"]
  BY DEF FinishTaker, Goto
<1>3. \A i \in Jobs : pc[i] # "reset" /\ pc'[i] # "reset"
  BY <1>8, OthersNotReset DEF Active
<1>9. pc'[j] = "write" /\ \A i \in Jobs \ {j} : pc'[i] = pc[i]
  BY <1>8 DEF IInv, TypeOK
<1> DEFINE d == lack.free + lack.locked
<1>10. \A v \in Users : /\ Short(v)' = Short(v) + (IF u = v THEN d ELSE 0)
                        /\ Stored(v)' = Stored(v)
  BY <1>1, <1>2, <1>8, <1>9, ShortPushed
<1>11. d \in Int /\ (lack = NotShort => d = 0)
  BY DEF Shortage, NotShort
<1> HIDE DEF u, side
<1>4. Coming(u) \in Row /\ entries[u] \in [base : Int, quote : Int]
  BY <1>1, ComingTypes DEF IInv, TypeOK
<1>5. OwnedBy(Coming(u)) \in [base : Int, quote : Int]
  BY <1>4, OwnedTypes
<1>6. ASSUME new \in {Coming(u), Released(Coming(u), side, left)},
             Pushed(u, Lowered(Traded(new, side, base, quote), lack), Entry(entries[u], side, base, quote))
      PROVE  Explained'
  <2> DEFINE exact == Traded(new, side, base, quote)
             held == Lowered(exact, lack)
             e == Entry(entries[u], side, base, quote)
  <2>1. new \in Row /\ OwnedBy(new) = OwnedBy(Coming(u))
    BY <1>1, <1>4, <1>6, ReleasedOwned
  <2>2. exact \in Row /\ e \in [base : Int, quote : Int] /\ OwnedBy(exact) = Entry(OwnedBy(Coming(u)), side, base, quote)
    BY <1>1, <1>4, <2>1, RowTypes, EntryTypes, TradedOwned
  <2>3. /\ OwnedBy(exact).base - OwnedBy(Coming(u)).base = e.base - entries[u].base
        /\ OwnedBy(exact).quote - OwnedBy(Coming(u)).quote = e.quote - entries[u].quote
    BY <1>1, <1>4, <1>5, <2>2, EntryMoves
  <2>4. /\ held \in Row /\ OwnedBy(held).base = OwnedBy(exact).base - d
        /\ OwnedBy(held).quote = OwnedBy(exact).quote
    <3> HIDE DEF exact
    <3> QED
      BY <2>2, LoweredTypes
  <2>5. /\ OwnedBy(exact).base \in Int /\ OwnedBy(Coming(u)).base \in Int
        /\ e.base \in Int /\ entries[u].base \in Int
    <3> HIDE DEF exact, e
    <3> QED
      BY <1>4, <1>5, <2>2, OwnedTypes
  <2>7. Pushed(u, held, e)
    BY <1>6
  <2> HIDE DEF exact, held, e, d
  <2>6. /\ OwnedBy(held).base - OwnedBy(Coming(u)).base = e.base - entries[u].base - d
        /\ OwnedBy(held).quote - OwnedBy(Coming(u)).quote = e.quote - entries[u].quote
    <3> DEFINE x == OwnedBy(exact).base
               c == OwnedBy(Coming(u)).base
               a == e.base
               b == entries[u].base
               h == OwnedBy(held).base
    <3>1. x \in Int /\ c \in Int /\ a \in Int /\ b \in Int /\ d \in Int /\ h = x - d /\ x - c = a - b
      BY <1>11, <2>3, <2>4, <2>5
    <3> HIDE DEF x, c, a, b, h
    <3>2. h - c = a - b - d
      BY <3>1
    <3> QED
      BY <2>3, <2>4, <3>2 DEF x, c, a, b, h
  <2> QED
    BY <1>1, <1>2, <1>3, <1>10, <1>11, <2>2, <2>4, <2>6, <2>7, ExplainedPush
<1>7. ASSUME Pushed(u, Coming(u), entries[u]), lack = NotShort
      PROVE  Explained'
  <2>1. d = 0
    BY <1>7, <1>11
  <2> HIDE DEF d
  <2>2. /\ OwnedBy(Coming(u)).base - OwnedBy(Coming(u)).base = entries[u].base - entries[u].base - d
        /\ OwnedBy(Coming(u)).quote - OwnedBy(Coming(u)).quote = entries[u].quote - entries[u].quote
    BY <1>4, <1>5, <2>1
  <2> QED
    BY <1>1, <1>2, <1>3, <1>4, <1>7, <1>10, <1>11, <2>2, ExplainedPush
<1> QED
  BY <1>1, <1>6, <1>7

LEMMA WriteExplained ==
  ASSUME IInv, OneJob, Explained, NEW j \in Jobs, WriteToDB(j)
  PROVE  Explained'
<1>1. /\ balance' = [u \in Users |-> Saved(u)]
      /\ ledger' = [u \in Users |-> [base |-> ledger[u].base + entries[u].base,
                                     quote |-> ledger[u].quote + entries[u].quote]]
      /\ pc[j] = "write" /\ pc' = [pc EXCEPT ![j] = "reset"]
      /\ UNCHANGED <<maker, taker, rows, entries, filled, short>>
  BY DEF WriteToDB, Goto, orders, engine, local
<1>2. /\ \A i \in Jobs : pc[i] # "reset" /\ pc'[i] # "write"
      /\ pc'[j] = "reset"
  <2>1. /\ \A i \in Jobs \ {j} : ~Active(i) /\ pc'[i] = pc[i] /\ ~Active(i)'
        /\ pc'[j] = "reset"
    BY <1>1, Alone DEF Active
  <2> QED
    BY <1>1, <2>1 DEF Active
<1>3. \A u \in Users : balance'[u] = Coming(u)
  BY <1>1, SavedIsComing DEF Explained
<1>4. \A u \in Users : Coming(u)' = Coming(u)
  BY <1>1, <1>3 DEF Coming
<1>5. \A u \in Users : BalanceExplained(u) /\ ComingExplained(u)
  BY <1>2 DEF Explained
<1>6. \A u \in Users : /\ ledger[u].base \in Int /\ ledger[u].quote \in Int
                       /\ entries[u].base \in Int /\ entries[u].quote \in Int
                       /\ Reserve(u, "SELL") \in Int /\ Reserve(u, "BUY") \in Int
                       /\ Short(u) \in Int /\ Stored(u) \in Int
  <2>1. \A u \in Users : /\ ledger[u].base \in Int /\ ledger[u].quote \in Int
                         /\ entries[u].base \in Int /\ entries[u].quote \in Int
    BY DEF IInv, TypeOK
  <2>2. \A u \in Users : Reserve(u, "SELL") \in Int /\ Reserve(u, "BUY") \in Int
    BY OrderTypes, ReserveTypes DEF IInv, TypeOK
  <2> QED
    BY <2>1, <2>2, ShortSums
<1>7. \A u \in Users : /\ OwnedBy(Coming(u)).base = Reserve(u, "SELL") + ledger'[u].base - Short(u)
                       /\ OwnedBy(Coming(u)).quote = Reserve(u, "BUY") + ledger'[u].quote
  <2> SUFFICES ASSUME NEW u \in Users
               PROVE  /\ OwnedBy(Coming(u)).base = Reserve(u, "SELL") + ledger'[u].base - Short(u)
                      /\ OwnedBy(Coming(u)).quote = Reserve(u, "BUY") + ledger'[u].quote
    OBVIOUS
  <2>1. /\ ledger'[u].base = ledger[u].base + entries[u].base
        /\ ledger'[u].quote = ledger[u].quote + entries[u].quote
    BY <1>1
  <2>2. /\ OwnedBy(Coming(u)).base
             = (Reserve(u, "SELL") + ledger[u].base - Stored(u)) + entries[u].base - (Short(u) - Stored(u))
        /\ OwnedBy(Coming(u)).quote = (Reserve(u, "BUY") + ledger[u].quote) + entries[u].quote
    BY <1>5 DEF BalanceExplained, ComingExplained, Due
  <2>3. (Reserve(u, "SELL") + ledger[u].base - Stored(u)) + entries[u].base - (Short(u) - Stored(u))
          = Reserve(u, "SELL") + (ledger[u].base + entries[u].base) - Short(u)
    <3> DEFINE a == Reserve(u, "SELL")
               b == ledger[u].base
               c == entries[u].base
               x == Short(u)
               y == Stored(u)
    <3>1. a \in Int /\ b \in Int /\ c \in Int /\ x \in Int /\ y \in Int
      BY <1>6
    <3> HIDE DEF a, b, c, x, y
    <3>2. (a + b - y) + c - (x - y) = a + (b + c) - x
      BY <3>1
    <3> QED
      BY <3>2 DEF a, b, c, x, y
  <2>4. (Reserve(u, "BUY") + ledger[u].quote) + entries[u].quote
          = Reserve(u, "BUY") + (ledger[u].quote + entries[u].quote)
    BY <1>6
  <2> QED
    BY <2>1, <2>2, <2>3, <2>4
<1>8. \A u \in Users : Reserve(u, "SELL")' = Reserve(u, "SELL") /\ Reserve(u, "BUY")' = Reserve(u, "BUY")
                       /\ Stored(u)' = Short(u)
  BY <1>1, <1>2, ReserveSame, ShortStored
<1>9. (\A u \in Users : BalanceExplained(u))'
  <2> SUFFICES ASSUME NEW u \in Users
               PROVE  /\ OwnedBy(balance'[u]).base = Reserve(u, "SELL")' + ledger'[u].base - Stored(u)'
                      /\ OwnedBy(balance'[u]).quote = Reserve(u, "BUY")' + ledger'[u].quote
    BY DEF OwnedBy, BalanceExplained
  <2> QED
    BY <1>3, <1>7, <1>8
<1>10. (\A u \in Users : Len(rows[u]) <= 1)'
  BY <1>1 DEF Explained
<1>11. (\A u \in Users : Coming(u) = balance[u])'
  BY <1>3, <1>4
<1> QED
  BY <1>2, <1>9, <1>10, <1>11 DEF Explained

\* Empty arrays explain a balance that is saved.
LEMMA EmptyExplained ==
  ASSUME Explained, IInv, rows' = [u \in Users |-> <<>>], entries' = [u \in Users |-> Nothing],
         UNCHANGED <<maker, taker, balance, ledger>>, \A j \in Jobs : pc'[j] # "reset",
         \A u \in Users : Stored(u)' = Stored(u) /\ Short(u)' = Stored(u)
  PROVE  Explained'
<1>1. \A u \in Users : Reserve(u, "SELL")' = Reserve(u, "SELL") /\ Reserve(u, "BUY")' = Reserve(u, "BUY")
  BY ReserveSame
<1>2. \A u \in Users : rows'[u] = <<>> /\ Len(rows'[u]) = 0 /\ entries'[u] = Nothing
  OBVIOUS
<1>3. \A u \in Users : Coming(u)' = balance[u]
  BY <1>2 DEF Coming
<1>4. \A u \in Users : OwnedBy(balance[u]).base \in Int /\ OwnedBy(balance[u]).quote \in Int
  <2> SUFFICES ASSUME NEW u \in Users PROVE OwnedBy(balance[u]) \in [base : Int, quote : Int]
    OBVIOUS
  <2> QED
    BY ComingTypes, OwnedTypes
<1>8. \A u \in Users : Due(u)' = 0
  <2> SUFFICES ASSUME NEW u \in Users PROVE Due(u)' = 0
    OBVIOUS
  <2>1. Due(u)' = Stored(u) - Stored(u)
    BY DEF Due
  <2>2. Stored(u) \in Int
    BY ShortSums
  <2> QED
    BY <2>1, <2>2
<1>5. (\A u \in Users : ComingExplained(u))'
  <2> SUFFICES ASSUME NEW u \in Users
               PROVE  /\ OwnedBy(Coming(u)').base = OwnedBy(balance[u]).base + entries'[u].base - Due(u)'
                      /\ OwnedBy(Coming(u)').quote = OwnedBy(balance[u]).quote + entries'[u].quote
    BY DEF OwnedBy, ComingExplained
  <2>1. entries'[u].base = 0 /\ entries'[u].quote = 0
    BY <1>2 DEF Nothing
  <2>2. /\ OwnedBy(balance[u]).base = OwnedBy(balance[u]).base + 0 - 0
        /\ OwnedBy(balance[u]).quote = OwnedBy(balance[u]).quote + 0
    BY <1>4
  <2> QED
    BY <1>3, <1>8, <2>1, <2>2
<1>6. (\A u \in Users : BalanceExplained(u))'
  BY <1>1 DEF Explained, BalanceExplained
<1>7. (\A u \in Users : Len(rows[u]) <= 1)'
  BY <1>2
<1> QED
  BY <1>5, <1>6, <1>7 DEF Explained

LEMMA ResetExplained ==
  ASSUME IInv, OneJob, Explained, NEW j \in Jobs, Reset(j)
  PROVE  Explained'
<1>1. /\ pc[j] = "reset" /\ pc' = [pc EXCEPT ![j] = "done"]
      /\ rows' = [u \in Users |-> <<>>] /\ entries' = [u \in Users |-> Nothing]
      /\ UNCHANGED <<maker, taker, balance, ledger>>
  BY DEF Reset, Goto, orders, postgres
<1>2. /\ \A i \in Jobs \ {j} : ~Active(i) /\ pc'[i] = pc[i] /\ ~Active(i)'
      /\ pc'[j] = "done"
  BY <1>1, Alone DEF Active
<1>3. \A i \in Jobs : pc'[i] # "reset" /\ pc[i] # "write"
  BY <1>1, <1>2 DEF Active
<1>4. \A u \in Users : Short(u)' = Short(u) /\ Stored(u)' = Stored(u) /\ Stored(u) = Short(u)
  <2>1. \A u \in Users : Stored(u) = Short(u)
    BY <1>3 DEF Stored, Short, StoredTotal
  <2> QED
    BY <2>1, ShortQuiet
<1> QED
  BY <1>1, <1>3, <1>4, EmptyExplained

LEMMA CrashExplained == ASSUME IInv, Explained, Crash PROVE Explained'
<1>1. /\ pc' = [j \in Jobs |-> IF Active(j) THEN "lost" ELSE pc[j]]
      /\ rows' = [u \in Users |-> <<>>] /\ entries' = [u \in Users |-> Nothing]
      /\ UNCHANGED <<maker, taker, balance, ledger>>
  BY DEF Crash, orders, postgres
<1>2. \A i \in Jobs : pc'[i] # "reset"
  BY <1>1 DEF Active
<1> QED
  BY <1>1, <1>2, ShortForgotten, EmptyExplained

LEMMA QuietExplained ==
  ASSUME IInv, OneJob, Explained, NEW j \in Jobs, Start(j) \/ Match(j) \/ ReadMaker(j) \/ ReadTaker(j)
  PROVE  Explained'
<1>1. UNCHANGED <<maker, taker, balance, ledger, rows, entries>>
  BY DEF Start, Match, ReadMaker, ReadTaker, orders, postgres, engine
<1>2. PICK label \in {"unmatched", "close", "match", "read", "settle", "finish"} :
        pc' = [pc EXCEPT ![j] = label] /\ pc[j] # "reset"
  BY DEF Start, Match, ReadMaker, ReadTaker, Goto
<1>3. \A i \in Jobs : pc'[i] = "reset" <=> pc[i] = "reset"
  BY <1>2 DEF IInv, TypeOK
<1>4. \A u \in Users : Short(u)' = Short(u) /\ Stored(u)' = Stored(u)
  BY ShortQuiet
<1> QED
  BY <1>1, <1>3, <1>4, ExplainedKept

LEMMA ExplainingStep == IInv /\ IInv' /\ Single /\ Explaining /\ [Next]_vars => Explaining'
<1> SUFFICES ASSUME IInv, IInv', Single, Explaining, [Next]_vars, Without({"overlap", "reread"})'
             PROVE  Explained'
  BY DEF Explaining
<1>1. Without({"overlap", "reread"})
  BY AnomaliesStay, StayWithout
<1>2. OneJob /\ Explained /\ "reread" \notin anomaly'
  BY <1>1 DEF Single, Explaining, Without
<1>3. ASSUME NEW j \in Jobs, JobStep(j) PROVE Explained'
  BY <1>2, <1>3, QuietExplained, SettleExplained, FinishExplained, WriteExplained, ResetExplained
     DEF JobStep
<1>4. CASE Crash
  BY <1>2, <1>4, CrashExplained
<1>5. CASE UNCHANGED vars
  <2>1. UNCHANGED <<maker, taker, balance, ledger, rows, entries, filled, short, pc>>
    BY <1>5 DEF vars, orders, postgres, engine, local
  <2>2. \A u \in Users : Short(u)' = Short(u) /\ Stored(u)' = Stored(u)
    BY <2>1, ShortKept, StoredKept
  <2> QED
    BY <1>2, <2>1, <2>2, ExplainedKept
<1> QED
  BY <1>3, <1>4, <1>5 DEF Next, Terminated

LEMMA NoShort ==
  ASSUME Init, NEW u
  PROVE  Stored(u) = 0 /\ Short(u) = 0 /\ LockedShort(u) = 0
<1>1. \A j \in Jobs : short[j].locked = 0 /\ short[j].free + short[j].locked = 0
  BY DEF Init, NotShort
<1> DEFINE zero == [j \in Jobs |-> 0]
<1>2. /\ [j \in Jobs |-> ShortLocked(j, u)] = zero /\ [j \in Jobs |-> ShortTotal(j, u)] = zero
      /\ [j \in Jobs |-> StoredTotal(j, u)] = zero
  BY <1>1 DEF ShortLocked, ShortTotal, StoredTotal
<1>3. SumFunctionOnSet(zero, Jobs) = 0
  <2>1. /\ IsFiniteSet(Jobs) /\ \A j \in Jobs : zero[j] \in Int
        /\ {} \in SUBSET Jobs /\ \A j \in Jobs \ {} : zero[j] = 0
    OBVIOUS
  <2> HIDE DEF zero
  <2> HIDE MatchingAssumption
  <2>2. SumFunctionOnSet(zero, {}) = SumFunctionOnSet(zero, Jobs)
    BY <2>1, SumZeros
  <2> QED
    BY <2>2, SumEmpty
<1> QED
  BY <1>2, <1>3 DEF Stored, Short, LockedShort

LEMMA ExplainingInit == Init => Explaining
<1> SUFFICES ASSUME Init PROVE Explained
  BY DEF Explaining
<1>1. IInv
  BY InitialStates
<1>2. \A u \in Users : rows[u] = <<>> /\ Len(rows[u]) = 0 /\ entries[u] = Nothing
                       /\ ledger[u] = Nothing /\ Coming(u) = balance[u]
  BY DEF Init, Coming
<1>3. \A j \in Jobs : pc[j] # "reset"
  BY DEF Init
<1>4. \A u \in Users : Reserve(u, "SELL") \in Int /\ Reserve(u, "BUY") \in Int
  BY <1>1, OrderTypes, ReserveTypes DEF IInv, TypeOK
<1>5. \A u \in Users : OwnedBy(balance[u]) = [base |-> Reserve(u, "SELL"), quote |-> Reserve(u, "BUY")]
  <2> SUFFICES ASSUME NEW u \in Users
               PROVE  OwnedBy(balance[u]) = [base |-> Reserve(u, "SELL"), quote |-> Reserve(u, "BUY")]
    OBVIOUS
  <2>1. /\ balance[u]["baseFree"] = 0 /\ balance[u]["quoteFree"] = 0
        /\ balance[u]["baseLocked"] = Reserve(u, "SELL") /\ balance[u]["quoteLocked"] = Reserve(u, "BUY")
    BY DEF Init, EmptyRow, Columns
  <2> QED
    BY <1>4, <2>1 DEF OwnedBy
<1>6. \A u \in Users : entries[u].base = 0 /\ entries[u].quote = 0
                       /\ ledger[u].base = 0 /\ ledger[u].quote = 0
  BY <1>2 DEF Nothing
<1>9. \A u \in Users : Stored(u) = 0 /\ Due(u) = 0
  BY NoShort DEF Due
<1>7. \A u \in Users : BalanceExplained(u) /\ ComingExplained(u)
  <2> SUFFICES ASSUME NEW u \in Users
               PROVE  /\ OwnedBy(balance[u]).base = Reserve(u, "SELL") + 0 - 0
                      /\ OwnedBy(balance[u]).quote = Reserve(u, "BUY") + 0
                      /\ OwnedBy(balance[u]).base = OwnedBy(balance[u]).base + 0 - 0
                      /\ OwnedBy(balance[u]).quote = OwnedBy(balance[u]).quote + 0
    BY <1>2, <1>6, <1>9 DEF BalanceExplained, ComingExplained
  <2>2. OwnedBy(balance[u]) = [base |-> Reserve(u, "SELL"), quote |-> Reserve(u, "BUY")]
    BY <1>5
  <2>1. OwnedBy(balance[u]).base = Reserve(u, "SELL") /\ OwnedBy(balance[u]).quote = Reserve(u, "BUY")
    BY <2>2
  <2> QED
    BY <1>4, <2>1
<1>8. \A u \in Users : Len(rows[u]) <= 1
  BY <1>2
<1> QED
  BY <1>3, <1>7, <1>8 DEF Explained

LEMMA Explanation == Spec => []Explaining
<1>1. IInv /\ IInv' /\ Single /\ Explaining /\ [Next]_vars => Explaining'
  BY ExplainingStep
<1> QED
  BY <1>1, ExplainingInit, Invariance, OneAtATime, PTL DEF Spec

LEMMA StoredWhenIdle == ASSUME Idle, NEW u PROVE Stored(u) = Short(u)
<1>1. \A j \in Jobs : pc[j] # "write"
  BY DEF Idle, Active
<1> QED
  BY <1>1 DEF Stored, Short, StoredTotal

\* The ledger rows of a user explain every change of his balances, after a crash
\* and for orders that paid without a release too, but for the unit that the
\* rounding of a sold part's rest may keep: every other push changes the row and
\* the entry by the same amounts, and one transaction saves both
\* (order.matchingengin.ts:821-845, 710-734, 848-895).
THEOREM LedgerExplains == Spec => []LedgerExplainsBalance
<1>1. IInv /\ Explaining => LedgerExplainsBalance
  BY StoredWhenIdle DEF Explaining, Explained, BalanceExplained, LedgerExplainsBalance, Owned, OwnedBy
<1> QED
  BY <1>1, Invariance, Explanation, PTL

-----------------------------------------------------------------------------
(***************************************************************************)
(* The row a user will have locks what his orders reserve: what his makers *)
(* in the book have left, what his waiting market orders reserved, and for *)
(* the job at work what it has not pushed yet.                             *)
(***************************************************************************)
LockColumn(side) == IF side = "BUY" THEN "quoteLocked" ELSE "baseLocked"

\* What a job still has to take out of the locked amounts of user u.
Under(j, u, side) ==
  (IF pc[j] \in {"queued", "unmatched", "match", "read", "settle", "close", "finish"}
   THEN TakerLock(j, u, side) ELSE 0)
  + (IF /\ pc[j] \in {"read", "settle"}
        /\ maker[fill[j].id].user = u /\ maker[fill[j].id].side = side
     THEN Given(side, fill[j]) ELSE 0)

RestingSum(u, side) == SumFunctionOnSet([m \in Makers |-> Resting(m, u, side)], Makers)
UnderSum(u, side) == SumFunctionOnSet([j \in Jobs |-> Under(j, u, side)], Jobs)

\* What rounding has kept of the locked base of user u.
Kept(u, side) == IF side = "SELL" THEN LockedShort(u) ELSE 0

Locked ==
  \A u \in Users, side \in Sides :
    Coming(u)[LockColumn(side)] = (RestingSum(u, side) + UnderSum(u, side)) - Kept(u, side)

Locking == Without(Anomalies) => Locked

\* The amounts that are added up.
LockTypes ==
  \A u \in Users, side \in Sides :
    /\ \A m \in Makers : Resting(m, u, side) \in Int
    /\ \A j \in Jobs : Under(j, u, side) \in Int
    /\ RestingSum(u, side) \in Int /\ UnderSum(u, side) \in Int
    /\ Coming(u)[LockColumn(side)] \in Int /\ Kept(u, side) \in Int

LEMMA TypesOfLocks == IInv => LockTypes
<1> SUFFICES ASSUME IInv, NEW u \in Users, NEW side \in Sides
             PROVE  /\ \A m \in Makers : Resting(m, u, side) \in Int
                    /\ \A j \in Jobs : Under(j, u, side) \in Int
                    /\ RestingSum(u, side) \in Int /\ UnderSum(u, side) \in Int
                    /\ Coming(u)[LockColumn(side)] \in Int /\ Kept(u, side) \in Int
  BY DEF LockTypes
<1>1. /\ \A m \in Makers : maker[m] \in Order
      /\ \A j \in Jobs : taker[j] \in Taking
      /\ book \in [Makers -> [base : Nat, quote : Nat, place : Nat]]
      /\ fill \in [Jobs -> [id : Makers \union {NoUser}, base : Nat, quote : Nat]]
  BY OrderTypes DEF IInv, TypeOK
<1>2. ASSUME NEW m \in Makers PROVE Resting(m, u, side) \in Int
  <2>1. /\ maker[m].base \in Int /\ maker[m].quote \in Int /\ book[m].base \in Int /\ book[m].quote \in Int
    BY <1>1 DEF Order
  <2> QED
    BY <2>1 DEF Resting, MakerLock
<1>3. ASSUME NEW j \in Jobs PROVE Under(j, u, side) \in Int
  <2>1. taker[j].amount \in Int /\ fill[j].base \in Int /\ fill[j].quote \in Int
    BY <1>1 DEF Taking
  <2>2. TakerLock(j, u, side) \in Int /\ Given(side, fill[j]) \in Int
    BY <2>1 DEF TakerLock, Given
  <2> QED
    BY <2>2 DEF Under
<1>4. RestingSum(u, side) \in Int
  BY <1>2, SumElement DEF RestingSum
<1>5. UnderSum(u, side) \in Int
  BY <1>3, SumElement DEF UnderSum
<1>6. Coming(u)[LockColumn(side)] \in Int
  BY ComingTypes DEF Row, LockColumn, Columns
<1>7. Kept(u, side) \in Int
  BY ShortSums DEF Kept
<1> QED
  BY <1>2, <1>3, <1>4, <1>5, <1>6, <1>7

LEMMA TypesOfLocksAfter == IInv' => LockTypes'
  BY TypesOfLocks, PTL

LEMMA RestingSame ==
  ASSUME UNCHANGED <<maker, book>>, NEW u, NEW side
  PROVE  RestingSum(u, side)' = RestingSum(u, side)
  BY DEF RestingSum, Resting, MakerLock

LEMMA RestingChange ==
  ASSUME LockTypes, LockTypes', NEW u \in Users, NEW side \in Sides, NEW n \in Makers,
         \A m \in Makers \ {n} : Resting(m, u, side)' = Resting(m, u, side)
  PROVE  RestingSum(u, side)' = RestingSum(u, side) - Resting(n, u, side) + Resting(n, u, side)'
<1> DEFINE f == [m \in Makers |-> Resting(m, u, side)]
           g == [m \in Makers |-> Resting(m, u, side)']
<1>1. \A m \in Makers : f[m] \in Int /\ g[m] \in Int
  BY DEF LockTypes
<1>2. \A m \in Makers \ {n} : f[m] = g[m]
  OBVIOUS
<1>3. f[n] = Resting(n, u, side) /\ g[n] = Resting(n, u, side)'
  OBVIOUS
<1>4. RestingSum(u, side) = SumFunctionOnSet(f, Makers) /\ RestingSum(u, side)' = SumFunctionOnSet(g, Makers)
  BY DEF RestingSum
<1> HIDE DEF f, g
<1>5. SumFunctionOnSet(g, Makers) = SumFunctionOnSet(f, Makers) - f[n] + g[n]
  <2>1. IsFiniteSet(Makers)
    OBVIOUS
  <2> HIDE MatchingAssumption
  <2> QED
    BY <1>1, <1>2, <2>1, SumChange
<1> QED
  BY <1>3, <1>4, <1>5

LEMMA UnderSame ==
  ASSUME NEW u, NEW side, \A j \in Jobs : Under(j, u, side)' = Under(j, u, side)
  PROVE  UnderSum(u, side)' = UnderSum(u, side)
<1>1. [j \in Jobs |-> Under(j, u, side)'] = [j \in Jobs |-> Under(j, u, side)]
  OBVIOUS
<1> QED
  BY <1>1 DEF UnderSum

LEMMA UnderChange ==
  ASSUME LockTypes, LockTypes', NEW u \in Users, NEW side \in Sides, NEW j \in Jobs,
         \A i \in Jobs \ {j} : Under(i, u, side)' = Under(i, u, side)
  PROVE  UnderSum(u, side)' = UnderSum(u, side) - Under(j, u, side) + Under(j, u, side)'
<1> DEFINE f == [i \in Jobs |-> Under(i, u, side)]
           g == [i \in Jobs |-> Under(i, u, side)']
<1>1. \A i \in Jobs : f[i] \in Int /\ g[i] \in Int
  BY DEF LockTypes
<1>2. \A i \in Jobs \ {j} : f[i] = g[i]
  OBVIOUS
<1>3. f[j] = Under(j, u, side) /\ g[j] = Under(j, u, side)'
  OBVIOUS
<1>4. UnderSum(u, side) = SumFunctionOnSet(f, Jobs) /\ UnderSum(u, side)' = SumFunctionOnSet(g, Jobs)
  BY DEF UnderSum
<1> HIDE DEF f, g
<1>5. SumFunctionOnSet(g, Jobs) = SumFunctionOnSet(f, Jobs) - f[j] + g[j]
  BY <1>1, <1>2, SumChange
<1> QED
  BY <1>3, <1>4, <1>5

LEMMA LockedKept ==
  ASSUME Locked, UNCHANGED <<maker, book>>,
         \A u \in Users : Coming(u)' = Coming(u),
         \A u \in Users, side \in Sides, j \in Jobs : Under(j, u, side)' = Under(j, u, side),
         \A u \in Users : LockedShort(u)' = LockedShort(u)
  PROVE  Locked'
<1> SUFFICES ASSUME NEW u \in Users, NEW side \in Sides
             PROVE  Coming(u)'[LockColumn(side)] = (RestingSum(u, side)' + UnderSum(u, side)') - Kept(u, side)'
  BY DEF Locked, LockColumn
<1>1. /\ RestingSum(u, side)' = RestingSum(u, side) /\ UnderSum(u, side)' = UnderSum(u, side)
      /\ Kept(u, side)' = Kept(u, side)
  BY RestingSame, UnderSame DEF Kept
<1> QED
  BY <1>1 DEF Locked

\* What the pushed row has less in a locked column, the job has less to take, or
\* rounding has kept it.
LEMMA LockedPush ==
  ASSUME IInv, LockTypes, LockTypes', Locked, UNCHANGED <<maker, book, balance>>,
         NEW v \in Users, NEW new \in Row, NEW e, Pushed(v, new, e),
         NEW j \in Jobs, NEW given \in Sides, NEW amount \in Int, NEW kept \in Int,
         \A side \in Sides :
           new[LockColumn(side)] = Coming(v)[LockColumn(side)] - (IF side = given THEN amount ELSE 0)
                                   - (IF side = "SELL" THEN kept ELSE 0),
         \A u \in Users, side \in Sides, i \in Jobs \ {j} : Under(i, u, side)' = Under(i, u, side),
         \A u \in Users, side \in Sides :
           Under(j, u, side)' = Under(j, u, side) - (IF u = v /\ side = given THEN amount ELSE 0),
         \A u \in Users : LockedShort(u)' = LockedShort(u) + (IF v = u THEN kept ELSE 0)
  PROVE  Locked'
<1> SUFFICES ASSUME NEW u \in Users, NEW side \in Sides
             PROVE  Coming(u)'[LockColumn(side)] = (RestingSum(u, side)' + UnderSum(u, side)') - Kept(u, side)'
  BY DEF Locked, LockColumn
<1> DEFINE less == IF u = v /\ side = given THEN amount ELSE 0
           more == IF u = v /\ side = "SELL" THEN kept ELSE 0
<1>1. Coming(u)'[LockColumn(side)] = Coming(u)[LockColumn(side)] - less - more
  <2>1. Coming(u)[LockColumn(side)] \in Int
    BY DEF LockTypes
  <2>2. Coming(v)' = new /\ (u # v => Coming(u)' = Coming(u))
    BY ComingAfter
  <2>3. CASE u = v
    BY <2>2, <2>3
  <2>4. CASE u # v
    <3>1. less = 0 /\ more = 0
      BY <2>4
    <3> QED
      BY <2>1, <2>2, <2>4, <3>1
  <2> QED
    BY <2>3, <2>4
<1>2. UnderSum(u, side)' = UnderSum(u, side) - Under(j, u, side) + Under(j, u, side)'
  BY UnderChange
<1>3. Under(j, u, side)' = Under(j, u, side) - less
  OBVIOUS
<1>4. RestingSum(u, side)' = RestingSum(u, side)
  BY RestingSame
<1>5. Coming(u)[LockColumn(side)] = (RestingSum(u, side) + UnderSum(u, side)) - Kept(u, side)
  BY DEF Locked
<1>6. /\ RestingSum(u, side) \in Int /\ UnderSum(u, side) \in Int /\ less \in Int
      /\ Under(j, u, side) \in Int /\ Kept(u, side) \in Int /\ more \in Int
  BY DEF LockTypes
<1>7. Kept(u, side)' = Kept(u, side) + more
  <2>1. CASE side = "SELL" /\ u = v
    BY <2>1 DEF Kept
  <2>2. CASE ~ (side = "SELL" /\ u = v)
    <3>1. more = 0
      BY <2>2
    <3>2. side = "SELL" => LockedShort(u)' = LockedShort(u) + 0
      BY <2>2
    <3>3. side = "SELL" => LockedShort(u) \in Int
      BY <1>6 DEF Kept
    <3>4. Kept(u, side)' = Kept(u, side)
      BY <3>2, <3>3 DEF Kept
    <3> QED
      BY <1>6, <3>1, <3>4
  <2> QED
    BY <2>1, <2>2
<1> HIDE DEF less, more
<1> QED
  BY <1>1, <1>2, <1>3, <1>4, <1>5, <1>6, <1>7

LEMMA TradedLocks ==
  ASSUME NEW r \in Row, NEW given \in Sides, NEW base \in Nat, NEW quote \in Nat, NEW side \in Sides
  PROVE  Traded(r, given, base, quote)[LockColumn(side)]
           = r[LockColumn(side)]
             - (IF side = given THEN (IF given = "BUY" THEN quote ELSE base) ELSE 0)
  BY DEF Traded, LockColumn, Row, Columns, Sides

LEMMA ReleasedLocks ==
  ASSUME NEW r \in Row, NEW given \in Sides, NEW rest \in Nat, NEW side \in Sides
  PROVE  Released(r, given, rest)[LockColumn(side)]
           = r[LockColumn(side)] - (IF side = given THEN rest ELSE 0)
  BY DEF Released, FreeOf, LockedOf, LockColumn, Row, Columns, Sides

\* Steps that leave the rows and the book alone.
LEMMA LockedStart ==
  ASSUME IInv, OneJob, Locked, NEW j \in Jobs, Start(j) PROVE Locked'
<1>1. /\ UNCHANGED <<maker, taker, book, balance, rows, fill>> /\ pc[j] = "queued"
      /\ \E label \in {"unmatched", "close", "match"} : pc' = [pc EXCEPT ![j] = label]
  BY DEF Start, Goto, orders, redis, postgres, engine
<1>2. pc \in [Jobs -> PcValues]
  BY DEF IInv, TypeOK
<1>3. /\ pc'[j] \in {"unmatched", "close", "match"}
      /\ \A i \in Jobs \ {j} : pc'[i] = pc[i]
  BY <1>1, <1>2
<1>4. \A u \in Users, side \in Sides, i \in Jobs : Under(i, u, side)' = Under(i, u, side)
  BY <1>1, <1>3 DEF Under, TakerLock
<1>5. \A u \in Users : Coming(u)' = Coming(u)
  BY <1>1 DEF Coming
<1>7. \A u \in Users : LockedShort(u)' = LockedShort(u)
  BY ShortQuiet
<1> QED
  BY <1>1, <1>4, <1>5, <1>7, LockedKept

LEMMA LockedRead ==
  ASSUME IInv, OneJob, Locked, NEW j \in Jobs, ReadMaker(j) \/ ReadTaker(j) PROVE Locked'
<1>1. /\ UNCHANGED <<maker, taker, book, balance, rows, fill>>
      /\ \/ pc[j] = "read" /\ pc' = [pc EXCEPT ![j] = "settle"]
         \/ pc[j] = "close" /\ pc' = [pc EXCEPT ![j] = "finish"]
  BY DEF ReadMaker, ReadTaker, Goto, orders, redis, postgres, engine
<1>2. pc \in [Jobs -> PcValues]
  BY DEF IInv, TypeOK
<1>3. /\ (pc[j] = "read" /\ pc'[j] = "settle") \/ (pc[j] = "close" /\ pc'[j] = "finish")
      /\ \A i \in Jobs \ {j} : pc'[i] = pc[i]
  BY <1>1, <1>2
<1>4. \A u \in Users, side \in Sides, i \in Jobs : Under(i, u, side)' = Under(i, u, side)
  BY <1>1, <1>3 DEF Under, TakerLock, Given
<1>5. \A u \in Users : Coming(u)' = Coming(u)
  BY <1>1 DEF Coming
<1>7. \A u \in Users : LockedShort(u)' = LockedShort(u)
  BY ShortQuiet
<1> QED
  BY <1>1, <1>4, <1>5, <1>7, LockedKept

LEMMA LockedWrite ==
  ASSUME IInv, OneJob, Explained, Locked, NEW j \in Jobs, WriteToDB(j) PROVE Locked'
<1>1. /\ UNCHANGED <<maker, taker, book, rows, fill>>
      /\ pc[j] = "write" /\ pc' = [pc EXCEPT ![j] = "reset"]
      /\ balance' = [u \in Users |-> Saved(u)]
  BY DEF WriteToDB, Goto, orders, redis, engine, local
<1>2. pc \in [Jobs -> PcValues]
  BY DEF IInv, TypeOK
<1>3. pc[j] = "write" /\ pc'[j] = "reset" /\ \A i \in Jobs \ {j} : pc'[i] = pc[i]
  BY <1>1, <1>2
<1>4. \A u \in Users, side \in Sides, i \in Jobs : Under(i, u, side)' = Under(i, u, side)
  BY <1>1, <1>3 DEF Under, TakerLock
<1>5. \A u \in Users : balance'[u] = Coming(u)
  BY <1>1, SavedIsComing DEF Explained
<1>6. \A u \in Users : Coming(u)' = Coming(u)
  BY <1>1, <1>5 DEF Coming
<1>7. \A u \in Users : LockedShort(u)' = LockedShort(u)
  <2>1. UNCHANGED <<taker, short, filled>>
    BY DEF WriteToDB, orders, local
  <2> QED
    BY <2>1, ShortKept
<1> QED
  BY <1>1, <1>4, <1>6, <1>7, LockedKept

LEMMA LockedReset ==
  ASSUME IInv, OneJob, Explained, Locked, NEW j \in Jobs, Reset(j) PROVE Locked'
<1>1. /\ UNCHANGED <<maker, taker, book, balance, fill>>
      /\ pc[j] = "reset" /\ pc' = [pc EXCEPT ![j] = "done"]
      /\ rows' = [u \in Users |-> <<>>]
  BY DEF Reset, Goto, orders, redis, postgres, local
<1>2. pc \in [Jobs -> PcValues]
  BY DEF IInv, TypeOK
<1>3. pc[j] = "reset" /\ pc'[j] = "done" /\ \A i \in Jobs \ {j} : pc'[i] = pc[i]
  BY <1>1, <1>2
<1>4. \A u \in Users, side \in Sides, i \in Jobs : Under(i, u, side)' = Under(i, u, side)
  BY <1>1, <1>3 DEF Under, TakerLock
<1>5. \A u \in Users : Coming(u) = balance[u]
  BY <1>3 DEF Explained
<1>6. \A u \in Users : Coming(u)' = Coming(u)
  BY <1>1, <1>5 DEF Coming
<1>7. \A u \in Users : LockedShort(u)' = LockedShort(u)
  BY ShortQuiet
<1> QED
  BY <1>1, <1>4, <1>6, <1>7, LockedKept

\* The maker's row pays what was filled.
LEMMA LockedSettle ==
  ASSUME IInv, IInv', OneJob, Explained, Locked, NEW j \in Jobs, SettleMaker(j), "reread" \notin anomaly'
  PROVE  Locked'
<1> DEFINE m == maker[fill[j].id]
           v == m.user
           given == m.side
           base == fill[j].base
           quote == fill[j].quote
           amount == IF given = "BUY" THEN quote ELSE base
<1>1. m \in Order /\ base \in Nat /\ quote \in Nat
      /\ Pushed(v, Traded(Coming(v), given, base, quote), Entry(entries[v], given, base, quote))
  BY SettleIs DEF Explained
<1>2. v \in Users /\ given \in Sides /\ amount \in Int
  BY <1>1 DEF Order
<1>3. /\ UNCHANGED <<maker, taker, book, balance, fill>>
      /\ pc[j] = "settle"
      /\ \E label \in {"close", "match"} : pc' = [pc EXCEPT ![j] = label]
  BY DEF SettleMaker, Goto, orders, redis, postgres, local
<1>4. pc \in [Jobs -> PcValues]
  BY DEF IInv, TypeOK
<1>5. /\ pc[j] = "settle" /\ pc'[j] \in {"close", "match"}
      /\ \A i \in Jobs \ {j} : pc'[i] = pc[i]
  BY <1>3, <1>4
<1>6. \A u \in Users, side \in Sides, i \in Jobs \ {j} : Under(i, u, side)' = Under(i, u, side)
  BY <1>3, <1>5 DEF Under, TakerLock, Given
<1>7. \A u \in Users, side \in Sides :
        Under(j, u, side)' = Under(j, u, side) - (IF u = v /\ side = given THEN amount ELSE 0)
  <2> SUFFICES ASSUME NEW u \in Users, NEW side \in Sides
               PROVE  Under(j, u, side)' = Under(j, u, side) - (IF u = v /\ side = given THEN amount ELSE 0)
    OBVIOUS
  <2>1. TakerLock(j, u, side)' = TakerLock(j, u, side)
    BY <1>3 DEF TakerLock
  <2>2. TakerLock(j, u, side) \in Int
    <3>1. taker[j].amount \in Int
      BY TypesOfArrays
    <3> QED
      BY <3>1 DEF TakerLock
  <2>3. Under(j, u, side)' = TakerLock(j, u, side) + 0
    BY <1>3, <1>5, <2>1 DEF Under
  <2>4. Under(j, u, side) = TakerLock(j, u, side)
                            + (IF v = u /\ given = side THEN Given(side, fill[j]) ELSE 0)
    BY <1>5 DEF Under
  <2>5. given = side => Given(side, fill[j]) = amount
    BY DEF Given
  <2> HIDE DEF v, given, amount
  <2> QED
    BY <1>2, <2>2, <2>3, <2>4, <2>5
<1> HIDE DEF m, v, given, base, quote
<1>8. Coming(v) \in Row
  BY <1>2, ComingTypes
<1> DEFINE new == Traded(Coming(v), given, base, quote)
<1>9. \A side \in Sides :
        new[LockColumn(side)] = Coming(v)[LockColumn(side)] - (IF side = given THEN amount ELSE 0)
  BY <1>1, <1>2, <1>8, TradedLocks
<1>10. new \in Row
  <2>1. base \in Int /\ quote \in Int
    BY <1>1
  <2> QED
    BY <1>2, <1>8, <2>1, RowTypes
<1>11. LockTypes /\ LockTypes'
  BY TypesOfLocks, TypesOfLocksAfter
<1>12. Pushed(v, new, Entry(entries[v], given, base, quote))
  BY <1>1
<1> HIDE DEF amount, new
<1>13. \A side \in Sides :
         new[LockColumn(side)] = Coming(v)[LockColumn(side)] - (IF side = given THEN amount ELSE 0)
                                 - (IF side = "SELL" THEN 0 ELSE 0)
  <2> SUFFICES ASSUME NEW side \in Sides
               PROVE  new[LockColumn(side)] = Coming(v)[LockColumn(side)] - (IF side = given THEN amount ELSE 0)
                                              - 0
    OBVIOUS
  <2>1. Coming(v)[LockColumn(side)] \in Int
    BY <1>2, <1>11 DEF LockTypes
  <2> QED
    BY <1>2, <1>9, <2>1
<1>14. \A u \in Users : LockedShort(u)' = LockedShort(u) + (IF v = u THEN 0 ELSE 0)
  <2> SUFFICES ASSUME NEW u \in Users PROVE LockedShort(u)' = LockedShort(u) + 0
    OBVIOUS
  <2>1. LockedShort(u)' = LockedShort(u) /\ LockedShort(u) \in Int
    BY ShortQuiet, ShortSums
  <2> QED
    BY <2>1
<1>15. 0 \in Int
  OBVIOUS
<1> QED
  BY <1>2, <1>3, <1>6, <1>7, <1>10, <1>11, <1>12, <1>13, <1>14, <1>15, LockedPush

\* The taker's row pays what he has given and gets the rest back.
LEMMA LockedFinish ==
  ASSUME IInv, IInv', OneJob, Explained, Locked, NEW j \in Jobs, FinishTaker(j),
         "reread" \notin anomaly', "notReleased" \notin anomaly', "spentForNothing" \notin anomaly'
  PROVE  Locked'
<1> DEFINE v == taker[j].user
           given == taker[j].side
           left == Remaining(j)
           base == filled[j].base
           quote == filled[j].quote
           amount == taker[j].amount
           spent == IF given = "BUY" THEN quote ELSE base
<1>1. v \in Users /\ given \in Sides /\ left \in Nat /\ base \in Nat /\ quote \in Nat /\ amount \in Nat
  BY TypesOfArrays
<1>2. left = amount - spent
  BY DEF Remaining
<1>3. /\ UNCHANGED <<maker, taker, book, balance, fill>>
      /\ pc[j] = "finish" /\ pc' = [pc EXCEPT ![j] = "write"]
  BY DEF FinishTaker, Goto, orders, redis, postgres, local
<1>4. pc \in [Jobs -> PcValues]
  BY DEF IInv, TypeOK
<1>5. /\ pc[j] = "finish" /\ pc'[j] = "write"
      /\ \A i \in Jobs \ {j} : pc'[i] = pc[i]
  BY <1>3, <1>4
<1>6. \A u \in Users, side \in Sides, i \in Jobs \ {j} : Under(i, u, side)' = Under(i, u, side)
  BY <1>3, <1>5 DEF Under, TakerLock, Given
<1>7. \A u \in Users, side \in Sides :
        Under(j, u, side)' = Under(j, u, side) - (IF u = v /\ side = given THEN amount ELSE 0)
  <2> SUFFICES ASSUME NEW u \in Users, NEW side \in Sides
               PROVE  Under(j, u, side)' = Under(j, u, side) - (IF u = v /\ side = given THEN amount ELSE 0)
    OBVIOUS
  <2>1. Under(j, u, side)' = 0 + 0
    BY <1>3, <1>5 DEF Under
  <2>2. Under(j, u, side) = TakerLock(j, u, side) + 0
    BY <1>5 DEF Under
  <2>3. TakerLock(j, u, side) = IF u = v /\ side = given THEN amount ELSE 0
    BY DEF TakerLock
  <2> HIDE DEF v, given, amount
  <2> QED
    BY <1>1, <2>1, <2>2, <2>3
<1>8. PICK lack \in Shortage :
        /\ short' = [short EXCEPT ![j] = lack]
        /\ lack # NotShort => PartlySold(j)
        /\ \/ /\ left = 0 /\ lack = NotShort
              /\ Pushed(v, Traded(Coming(v), given, base, quote), Entry(entries[v], given, base, quote))
           \/ /\ left > 0 /\ base > 0
              /\ Pushed(v, Lowered(Traded(Released(Coming(v), given, left), given, base, quote), lack),
                        Entry(entries[v], given, base, quote))
           \/ /\ left > 0 /\ base = 0 /\ ~ (amount - left > 0) /\ lack = NotShort
              /\ Pushed(v, Traded(Released(Coming(v), given, left), given, 0, 0),
                        Entry(entries[v], given, 0, 0))
  BY FinishIs DEF Explained
<1>13. \A u \in Users : LockedShort(u)' = LockedShort(u) + (IF v = u THEN lack.locked ELSE 0)
  <2>1. UNCHANGED <<taker, filled>>
    BY DEF FinishTaker, orders, local
  <2> QED
    BY <1>5, <1>8, <2>1, ShortPushed
<1>14. lack.locked \in Int /\ (lack = NotShort => lack.locked = 0)
  BY DEF Shortage, NotShort
<1> HIDE DEF v, given, left, base, quote, amount
<1>9. Coming(v) \in Row /\ Released(Coming(v), given, left) \in Row
  BY <1>1, ComingTypes, ReleasedOwned
<1>10. \A side \in Sides : Coming(v)[LockColumn(side)] \in Int
  BY <1>1, TypesOfLocks DEF LockTypes
<1> DEFINE Owes(new) == \A side \in Sides :
             new[LockColumn(side)] = Coming(v)[LockColumn(side)] - (IF side = given THEN amount ELSE 0)
           Pays(new) == \A side \in Sides :
             new[LockColumn(side)] = Coming(v)[LockColumn(side)] - (IF side = given THEN amount ELSE 0)
                                     - (IF side = "SELL" THEN lack.locked ELSE 0)
<1>15. ASSUME NEW exact \in Row, Owes(exact) PROVE Pays(Lowered(exact, lack))
  <2> SUFFICES ASSUME NEW side \in Sides
               PROVE  Lowered(exact, lack)[LockColumn(side)]
                        = exact[LockColumn(side)] - (IF side = "SELL" THEN lack.locked ELSE 0)
    BY <1>15
  <2>1. exact["quoteLocked"] \in Int
    BY DEF Row, Columns
  <2>2. /\ Lowered(exact, lack)["baseLocked"] = exact["baseLocked"] - lack.locked
        /\ Lowered(exact, lack)["quoteLocked"] = exact["quoteLocked"]
    BY LoweredTypes
  <2>3. CASE side = "SELL"
    BY <2>2, <2>3 DEF LockColumn
  <2>4. CASE side = "BUY"
    <3>1. exact["quoteLocked"] = exact["quoteLocked"] - 0
      BY <2>1
    <3> QED
      BY <2>2, <2>4, <3>1 DEF LockColumn
  <2> QED
    BY <2>3, <2>4 DEF Sides
<1>16. ASSUME NEW new \in Row, lack = NotShort, Owes(new) PROVE Pays(new)
  <2>1. Lowered(new, lack) = new
    BY <1>16, LoweredTypes
  <2> QED
    BY <1>15, <1>16, <2>1
<1>11. \E new \in Row : \E e : Pays(new) /\ Pushed(v, new, e)
  <2>1. CASE /\ left = 0 /\ lack = NotShort
             /\ Pushed(v, Traded(Coming(v), given, base, quote), Entry(entries[v], given, base, quote))
    <3> DEFINE new == Traded(Coming(v), given, base, quote)
    <3>1. \A side \in Sides : new[LockColumn(side)] = Coming(v)[LockColumn(side)]
                                - (IF side = given THEN spent ELSE 0)
      BY <1>1, <1>9, TradedLocks
    <3>2. amount = spent
      BY <1>1, <1>2, <2>1
    <3>3. new \in Row
      BY <1>1, <1>9, RowTypes
    <3>4. Owes(new)
      BY <3>1, <3>2
    <3>5. Pushed(v, new, Entry(entries[v], given, base, quote))
      BY <2>1
    <3> HIDE DEF new, Pays, Owes
    <3> QED
      BY <1>16, <2>1, <3>3, <3>4, <3>5
  <2>2. CASE /\ left > 0 /\ base > 0
             /\ Pushed(v, Lowered(Traded(Released(Coming(v), given, left), given, base, quote), lack),
                       Entry(entries[v], given, base, quote))
    <3> DEFINE back == Released(Coming(v), given, left)
               new == Traded(back, given, base, quote)
    <3>1. \A side \in Sides : new[LockColumn(side)] = back[LockColumn(side)]
                                - (IF side = given THEN spent ELSE 0)
      BY <1>1, <1>9, TradedLocks
    <3>2. \A side \in Sides : back[LockColumn(side)] = Coming(v)[LockColumn(side)]
                                - (IF side = given THEN left ELSE 0)
      BY <1>1, <1>9, ReleasedLocks
    <3>3. new \in Row
      BY <1>1, <1>9, RowTypes
    <3>6. Pushed(v, Lowered(new, lack), Entry(entries[v], given, base, quote))
      BY <2>2
    <3> HIDE DEF back, new
    <3>4. spent \in Int
      BY <1>1
    <3> HIDE DEF spent
    <3>5. Owes(new)
      BY <1>1, <1>2, <1>10, <3>1, <3>2, <3>4
    <3>7. Lowered(new, lack) \in Row
      BY <3>3, LoweredTypes
    <3> HIDE DEF Pays, Owes
    <3> QED
      BY <1>15, <3>3, <3>5, <3>6, <3>7
  <2>3. CASE /\ left > 0 /\ base = 0 /\ ~ (amount - left > 0) /\ lack = NotShort
             /\ Pushed(v, Traded(Released(Coming(v), given, left), given, 0, 0),
                       Entry(entries[v], given, 0, 0))
    <3> DEFINE back == Released(Coming(v), given, left)
               new == Traded(back, given, 0, 0)
    <3>1. \A side \in Sides : new[LockColumn(side)] = back[LockColumn(side)]
                                - (IF side = given THEN (IF given = "BUY" THEN 0 ELSE 0) ELSE 0)
      BY <1>1, <1>9, TradedLocks
    <3>2. \A side \in Sides : back[LockColumn(side)] = Coming(v)[LockColumn(side)]
                                - (IF side = given THEN left ELSE 0)
      BY <1>1, <1>9, ReleasedLocks
    <3>3. new \in Row
      BY <1>1, <1>9, RowTypes
    <3>6. Pushed(v, new, Entry(entries[v], given, 0, 0))
      BY <2>3
    <3> HIDE DEF back, new
    <3>4. left = amount
      <4>1. spent \in Nat
        BY <1>1
      <4> HIDE DEF spent
      <4> QED
        BY <1>1, <1>2, <2>3, <4>1
    <3>5. Owes(new)
      BY <1>1, <1>10, <3>1, <3>2, <3>4
    <3> HIDE DEF Pays, Owes
    <3> QED
      BY <1>16, <2>3, <3>3, <3>5, <3>6
  <2> HIDE DEF Pays
  <2> QED
    BY <1>8, <2>1, <2>2, <2>3
<1>12. LockTypes /\ LockTypes' /\ amount \in Int
  BY <1>1, TypesOfLocks, TypesOfLocksAfter
<1>17. PICK new \in Row : \E e : Pays(new) /\ Pushed(v, new, e)
  BY <1>11
<1> QED
  BY <1>1, <1>3, <1>6, <1>7, <1>12, <1>13, <1>14, <1>17, LockedPush

\* What leaves the maker's unfilled part is for the job to take.
LEMMA LockedMatch ==
  ASSUME IInv, IInv', OneJob, Locked, NEW j \in Jobs, Match(j) PROVE Locked'
<1>1. /\ pc[j] = "match" /\ pc' = [pc EXCEPT ![j] = "read"]
      /\ UNCHANGED <<maker, taker, balance, rows>>
  BY DEF Match, Goto, orders, postgres, engine
<1>2. PICK s \in snap[j] :
       LET f == FillOf(j, s)
           base == s.base + f.base
           quote == s.quote + f.quote
           gone == Exhausted(s.id, base, quote)
       IN
       /\ fill' = [fill EXCEPT ![j] = f]
       /\ book' = [book EXCEPT ![s.id] =
            [base |-> base, quote |-> quote, place |-> IF gone THEN 0 ELSE tail + 1]]
  BY DEF Match
<1> DEFINE f == FillOf(j, s)
           gone == Exhausted(s.id, s.base + f.base, s.quote + f.quote)
           new == [base |-> s.base + f.base, quote |-> s.quote + f.quote,
                   place |-> IF gone THEN 0 ELSE tail + 1]
<1>3. f \in [id : {s.id}, base : Nat, quote : Nat] /\ s \in Copy /\ s.id \in Makers
  BY Fill DEF Copy
<1>4. fill' = [fill EXCEPT ![j] = f] /\ book' = [book EXCEPT ![s.id] = new]
  BY <1>2
<1>5. /\ fill \in [Jobs -> [id : Makers \union {NoUser}, base : Nat, quote : Nat]]
      /\ book \in [Makers -> [base : Nat, quote : Nat, place : Nat]]
      /\ pc \in [Jobs -> PcValues]
  BY DEF IInv, TypeOK
<1>6. s.base = book[s.id].base /\ s.quote = book[s.id].quote
  BY <1>1 DEF OneJob, Active
<1> HIDE DEF f, gone
<1>7. /\ book'[s.id] = new /\ new.base = book[s.id].base + f.base /\ new.quote = book[s.id].quote + f.quote
      /\ fill'[j] = f /\ f.id = s.id /\ pc'[j] = "read" /\ f.base \in Nat /\ f.quote \in Nat
  BY <1>1, <1>3, <1>4, <1>5, <1>6
<1>8. /\ \A m \in Makers \ {s.id} : book'[m] = book[m]
      /\ \A i \in Jobs \ {j} : pc'[i] = pc[i] /\ fill'[i] = fill[i]
  BY <1>1, <1>4, <1>5
<1> HIDE DEF new
<1> SUFFICES ASSUME NEW u \in Users, NEW side \in Sides
             PROVE  Coming(u)'[LockColumn(side)] = (RestingSum(u, side)' + UnderSum(u, side)') - Kept(u, side)'
  BY DEF Locked, LockColumn
<1> DEFINE m == maker[s.id]
           taken == IF m.user = u /\ m.side = side THEN Given(side, f) ELSE 0
<1>9. Resting(s.id, u, side)' = Resting(s.id, u, side) - taken
  <2>1. /\ m.base \in Int /\ m.quote \in Int /\ book[s.id].base \in Int /\ book[s.id].quote \in Int
    <3>1. m \in Order
      BY <1>3, OrderTypes DEF IInv, TypeOK
    <3>2. book[s.id] \in [base : Nat, quote : Nat, place : Nat]
      BY <1>3, <1>5
    <3> HIDE DEF m
    <3> QED
      BY <3>1, <3>2 DEF Order
  <2>2. Resting(s.id, u, side) =
          IF m.user = u /\ m.side = side
          THEN IF side = "BUY" THEN m.quote - book[s.id].quote ELSE m.base - book[s.id].base
          ELSE 0
    BY DEF Resting, MakerLock
  <2>3. Resting(s.id, u, side)' =
          IF m.user = u /\ m.side = side
          THEN IF side = "BUY" THEN m.quote - (book[s.id].quote + f.quote)
                               ELSE m.base - (book[s.id].base + f.base)
          ELSE 0
    BY <1>1, <1>7 DEF Resting, MakerLock
  <2> QED
    BY <1>7, <2>1, <2>2, <2>3 DEF Given
<1>10. Under(j, u, side)' = Under(j, u, side) + taken
  <2>1. TakerLock(j, u, side)' = TakerLock(j, u, side)
    BY <1>1 DEF TakerLock
  <2>2. Given(side, f) \in Int
    BY <1>7 DEF Given
  <2>3. Under(j, u, side) = TakerLock(j, u, side) + 0
    BY <1>1 DEF Under
  <2>4. Under(j, u, side)' = TakerLock(j, u, side) + taken
    BY <1>1, <1>7, <2>1 DEF Under, Given
  <2>5. TakerLock(j, u, side) \in Int
    <3>1. taker[j].amount \in Int
      BY TypesOfArrays
    <3> QED
      BY <3>1 DEF TakerLock
  <2> QED
    BY <2>2, <2>3, <2>4, <2>5
<1>11. \A n \in Makers \ {s.id} : Resting(n, u, side)' = Resting(n, u, side)
  BY <1>1, <1>8 DEF Resting, MakerLock
<1>12. \A i \in Jobs \ {j} : Under(i, u, side)' = Under(i, u, side)
  BY <1>1, <1>8 DEF Under, TakerLock, Given
<1>13. LockTypes /\ LockTypes'
  BY TypesOfLocks, TypesOfLocksAfter
<1>14. RestingSum(u, side)' = RestingSum(u, side) - Resting(s.id, u, side) + Resting(s.id, u, side)'
  BY <1>3, <1>11, <1>13, RestingChange
<1>15. UnderSum(u, side)' = UnderSum(u, side) - Under(j, u, side) + Under(j, u, side)'
  BY <1>12, <1>13, UnderChange
<1>16. /\ RestingSum(u, side) \in Int /\ UnderSum(u, side) \in Int
       /\ Resting(s.id, u, side) \in Int /\ Under(j, u, side) \in Int /\ taken \in Int
  BY <1>3, <1>7, <1>13 DEF LockTypes, Given
<1>17. Coming(u)' = Coming(u)
  BY <1>1 DEF Coming
<1>18. Coming(u)[LockColumn(side)] = (RestingSum(u, side) + UnderSum(u, side)) - Kept(u, side)
  BY DEF Locked
<1>20. Kept(u, side)' = Kept(u, side)
  BY ShortQuiet DEF Kept
<1> HIDE DEF taken
<1>19. RestingSum(u, side)' + UnderSum(u, side)' = RestingSum(u, side) + UnderSum(u, side)
  BY <1>9, <1>10, <1>14, <1>15, <1>16
<1>21. Coming(u)'[LockColumn(side)] = (RestingSum(u, side) + UnderSum(u, side)) - Kept(u, side)
  BY <1>17, <1>18
<1> QED
  BY <1>19, <1>20, <1>21

LEMMA LockingStep == IInv /\ IInv' /\ Single /\ Explaining /\ Locking /\ [Next]_vars => Locking'
<1> SUFFICES ASSUME IInv, IInv', Single, Explaining, Locking, [Next]_vars, Without(Anomalies)'
             PROVE  Locked'
  BY DEF Locking
<1>1. Without(Anomalies)
  BY AnomaliesStay, StayWithout
<1>2. /\ OneJob /\ Explained /\ Locked
      /\ "reread" \notin anomaly' /\ "notReleased" \notin anomaly' /\ "spentForNothing" \notin anomaly'
      /\ "crash" \notin anomaly'
  BY <1>1 DEF Single, Explaining, Locking, Without, Anomalies
<1>3. ASSUME NEW j \in Jobs, JobStep(j) PROVE Locked'
  BY <1>2, <1>3, LockedStart, LockedMatch, LockedRead, LockedSettle, LockedFinish, LockedWrite,
     LockedReset DEF JobStep
<1>4. CASE Crash
  BY <1>2, <1>4 DEF Crash
<1>5. CASE UNCHANGED vars
  <2>1. UNCHANGED <<maker, taker, book, balance, rows, pc, fill, filled, short>>
    BY <1>5 DEF vars, orders, redis, postgres, engine, local
  <2>2. \A u \in Users, side \in Sides, i \in Jobs : Under(i, u, side)' = Under(i, u, side)
    BY <2>1 DEF Under, TakerLock, Given
  <2>3. \A u \in Users : Coming(u)' = Coming(u)
    BY <2>1 DEF Coming
  <2>4. \A u \in Users : LockedShort(u)' = LockedShort(u)
    BY <2>1, ShortKept
  <2> QED
    BY <1>2, <2>1, <2>2, <2>3, <2>4, LockedKept
<1> QED
  BY <1>3, <1>4, <1>5 DEF Next, Terminated

\* In a state where nothing is filled and all jobs wait, all that is reserved is locked.
LEMMA LockingInit == Init => Locking
<1> SUFFICES ASSUME Init, NEW u \in Users, NEW side \in Sides
             PROVE  Coming(u)[LockColumn(side)] = (RestingSum(u, side) + UnderSum(u, side)) - Kept(u, side)
  BY DEF Locking, Locked
<1>1. /\ \A m \in Makers : maker[m] \in Order
      /\ \A j \in Jobs : taker[j] \in Taking
  BY OrderTypes DEF Init
<1>2. [m \in Makers |-> Resting(m, u, side)] = [m \in Makers |-> MakerLock(m, u, side)]
  <2> SUFFICES ASSUME NEW m \in Makers PROVE Resting(m, u, side) = MakerLock(m, u, side)
    OBVIOUS
  <2>1. book[m].base = 0 /\ book[m].quote = 0
    BY DEF Init
  <2>2. maker[m].base \in Int /\ maker[m].quote \in Int
    BY <1>1 DEF Order
  <2> QED
    BY <2>1, <2>2 DEF Resting, MakerLock
<1>3. [j \in Jobs |-> Under(j, u, side)] = [j \in Jobs |-> TakerLock(j, u, side)]
  <2> SUFFICES ASSUME NEW j \in Jobs PROVE Under(j, u, side) = TakerLock(j, u, side)
    OBVIOUS
  <2>1. Under(j, u, side) = TakerLock(j, u, side) + 0
    BY DEF Init, Under
  <2>2. taker[j].amount \in Int
    BY <1>1 DEF Taking
  <2>3. TakerLock(j, u, side) \in Int
    BY <2>2 DEF TakerLock
  <2> QED
    BY <2>1, <2>3
<1>4. Reserve(u, side) = RestingSum(u, side) + UnderSum(u, side)
  BY <1>2, <1>3 DEF Reserve, RestingSum, UnderSum
<1>5. Coming(u) = balance[u]
  BY DEF Init, Coming
<1>6. balance[u][LockColumn(side)] = Reserve(u, side)
  BY DEF Init, LockColumn, EmptyRow, Columns, Sides
<1>7. Kept(u, side) = 0
  BY NoShort DEF Kept
<1>8. Reserve(u, side) \in Nat
  BY <1>1, ReserveTypes
<1>9. Reserve(u, side) - 0 = Reserve(u, side)
  BY <1>8
<1>10. (RestingSum(u, side) + UnderSum(u, side)) - Kept(u, side) = Reserve(u, side) - 0
  BY <1>4, <1>7
<1> QED
  BY <1>5, <1>6, <1>9, <1>10

LEMMA LocksKept == Spec => []Locking
<1>1. IInv /\ IInv' /\ Single /\ Explaining /\ Locking /\ [Next]_vars => Locking'
  BY LockingStep
<1> QED
  BY <1>1, LockingInit, Invariance, OneAtATime, Explanation, PTL DEF Spec

\* Between the jobs, what a user has locked in Postgres is what his orders in
\* Redis and in the queue still reserve: a fill that leaves a maker's unfilled part
\* is taken from the maker's row or is still to be, and the taker's row pays what
\* he has given and gets back the rest, but for the unit that rounding may keep
\* of a sold part's rest (order.matchingengin.ts:549-554, 586-895).
THEOREM LocksAreReserved == Spec => []LockedIsReserved
<1>1. IInv /\ Single /\ Locking => LockedIsReserved
  <2> SUFFICES ASSUME IInv, Single, Locking, Without(Anomalies), Idle, NEW u \in Users
               PROVE  /\ balance[u]["baseLocked"] = StillReserved(u, "SELL") - LockedShort(u)
                      /\ balance[u]["quoteLocked"] = StillReserved(u, "BUY")
    BY DEF LockedIsReserved
  <2>1. OneJob /\ Locked
    BY DEF Single, Locking, Without, Anomalies
  <2>2. Coming(u) = balance[u]
    BY <2>1 DEF OneJob, Coming
  <2>3. ASSUME NEW side \in Sides PROVE RestingSum(u, side) + UnderSum(u, side) = StillReserved(u, side)
    <3>1. ASSUME NEW j \in Jobs PROVE Under(j, u, side) = Waiting(j, u, side)
      <4>1. pc[j] \notin {"match", "read", "settle", "close", "finish"}
        BY DEF Idle, Active
      <4>2. taker[j].amount \in Int
        BY TypesOfArrays
      <4>3. TakerLock(j, u, side) \in Int
        BY <4>2 DEF TakerLock
      <4>4. Under(j, u, side) = Waiting(j, u, side) + 0
        BY <4>1 DEF Under, Waiting
      <4> QED
        BY <4>3, <4>4 DEF Waiting
    <3>2. [j \in Jobs |-> Under(j, u, side)] = [j \in Jobs |-> Waiting(j, u, side)]
      BY <3>1
    <3> QED
      BY <3>2 DEF RestingSum, UnderSum, StillReserved
  <2>4. /\ balance[u][LockColumn("SELL")] = StillReserved(u, "SELL") - LockedShort(u)
        /\ balance[u][LockColumn("BUY")] = StillReserved(u, "BUY") - 0
    <3>1. \A side \in Sides : Coming(u)[LockColumn(side)]
                               = (RestingSum(u, side) + UnderSum(u, side)) - Kept(u, side)
      BY <2>1 DEF Locked
    <3>2. Kept(u, "SELL") = LockedShort(u) /\ Kept(u, "BUY") = 0 /\ {"SELL", "BUY"} \subseteq Sides
      BY DEF Kept, Sides
    <3>3. \A side \in Sides : balance[u][LockColumn(side)] = StillReserved(u, side) - Kept(u, side)
      BY <2>2, <2>3, <3>1
    <3> QED
      BY <3>2, <3>3
  <2>5. StillReserved(u, "BUY") \in Int
    <3>1. RestingSum(u, "BUY") + UnderSum(u, "BUY") \in Int
      BY TypesOfLocks DEF LockTypes, Sides
    <3> QED
      BY <2>3, <3>1 DEF Sides
  <2> QED
    BY <2>4, <2>5 DEF LockColumn
<1> QED
  BY <1>1, Invariance, OneAtATime, LocksKept, PTL

-----------------------------------------------------------------------------
(***************************************************************************)
(* Matching moves money: what it books for the makers it books against the *)
(* taker, in the end.                                                      *)
(***************************************************************************)
Deltas == [base : Int, quote : Int]
BaseSum(x) == SumFunctionOnSet([u \in Users |-> x[u].base], Users)
QuoteSum(x) == SumFunctionOnSet([u \in Users |-> x[u].quote], Users)

LEMMA DeltaSums ==
  ASSUME NEW x \in [Users -> Deltas]
  PROVE  BaseSum(x) \in Int /\ QuoteSum(x) \in Int
<1> DEFINE b == [u \in Users |-> x[u].base]
           q == [u \in Users |-> x[u].quote]
<1>1. (\A u \in Users : b[u] \in Int /\ q[u] \in Int) /\ IsFiniteSet(Users)
  BY DEF Deltas
<1> HIDE DEF b, q
<1> HIDE MatchingAssumption
<1>2. SumFunctionOnSet(b, Users) \in Int /\ SumFunctionOnSet(q, Users) \in Int
  BY <1>1, SumElement
<1> QED
  BY <1>2 DEF b, q, BaseSum, QuoteSum

LEMMA DeltaChange ==
  ASSUME NEW x \in [Users -> Deltas], NEW v \in Users, NEW e \in Deltas
  PROVE  /\ BaseSum([x EXCEPT ![v] = e]) = BaseSum(x) - x[v].base + e.base
         /\ QuoteSum([x EXCEPT ![v] = e]) = QuoteSum(x) - x[v].quote + e.quote
<1> DEFINE y == [x EXCEPT ![v] = e]
           b == [u \in Users |-> x[u].base]
           q == [u \in Users |-> x[u].quote]
           c == [u \in Users |-> y[u].base]
           r == [u \in Users |-> y[u].quote]
<1>1. y \in [Users -> Deltas] /\ y[v] = e /\ \A u \in Users \ {v} : y[u] = x[u]
  OBVIOUS
<1> HIDE DEF y
<1>2. /\ \A u \in Users : b[u] \in Int /\ q[u] \in Int /\ c[u] \in Int /\ r[u] \in Int
      /\ \A u \in Users \ {v} : b[u] = c[u] /\ q[u] = r[u]
      /\ b[v] = x[v].base /\ q[v] = x[v].quote /\ c[v] = e.base /\ r[v] = e.quote
      /\ IsFiniteSet(Users)
  BY <1>1 DEF Deltas
<1>3. BaseSum(x) = SumFunctionOnSet(b, Users) /\ QuoteSum(x) = SumFunctionOnSet(q, Users)
      /\ BaseSum(y) = SumFunctionOnSet(c, Users) /\ QuoteSum(y) = SumFunctionOnSet(r, Users)
  BY DEF BaseSum, QuoteSum
<1> HIDE DEF b, q, c, r
<1> HIDE MatchingAssumption
<1>4. SumFunctionOnSet(c, Users) = SumFunctionOnSet(b, Users) - b[v] + c[v]
  <2>1. /\ \A u \in Users : b[u] \in Int /\ c[u] \in Int
        /\ \A u \in Users \ {v} : b[u] = c[u]
        /\ IsFiniteSet(Users)
    BY <1>2
  <2> QED
    BY <2>1, SumChange
<1>5. SumFunctionOnSet(r, Users) = SumFunctionOnSet(q, Users) - q[v] + r[v]
  <2>1. /\ \A u \in Users : q[u] \in Int /\ r[u] \in Int
        /\ \A u \in Users \ {v} : q[u] = r[u]
        /\ IsFiniteSet(Users)
    BY <1>2
  <2> QED
    BY <2>1, SumChange
<1> QED
  BY <1>2, <1>3, <1>4, <1>5 DEF y

LEMMA NoDeltas ==
  ASSUME NEW x, \A u \in Users : x[u] = Nothing
  PROVE  BaseSum(x) = 0 /\ QuoteSum(x) = 0
<1> DEFINE b == [u \in Users |-> x[u].base]
           q == [u \in Users |-> x[u].quote]
<1>1. (\A u \in Users : b[u] = 0 /\ q[u] = 0) /\ IsFiniteSet(Users)
  BY DEF Nothing
<1> HIDE DEF b, q
<1> HIDE MatchingAssumption
<1>2. (\A u \in Users : b[u] \in Int /\ q[u] \in Int) /\ {} \in SUBSET Users
  BY <1>1
<1>3. SumFunctionOnSet(b, {}) = SumFunctionOnSet(b, Users)
  BY <1>1, <1>2, SumZeros
<1>4. SumFunctionOnSet(q, {}) = SumFunctionOnSet(q, Users)
  BY <1>1, <1>2, SumZeros
<1> QED
  BY <1>3, <1>4, SumEmpty DEF b, q, BaseSum, QuoteSum

LEMMA DeltasAdd ==
  ASSUME NEW x \in [Users -> Deltas], NEW y \in [Users -> Deltas], NEW z,
         \A u \in Users : z[u].base = x[u].base + y[u].base /\ z[u].quote = x[u].quote + y[u].quote
  PROVE  BaseSum(z) = BaseSum(x) + BaseSum(y) /\ QuoteSum(z) = QuoteSum(x) + QuoteSum(y)
<1> DEFINE bx == [u \in Users |-> x[u].base]
           by == [u \in Users |-> y[u].base]
           bz == [u \in Users |-> z[u].base]
           qx == [u \in Users |-> x[u].quote]
           qy == [u \in Users |-> y[u].quote]
           qz == [u \in Users |-> z[u].quote]
<1>1. /\ \A u \in Users : bx[u] \in Int /\ by[u] \in Int /\ bz[u] = bx[u] + by[u]
      /\ IsFiniteSet(Users)
  BY DEF Deltas
<1>2. \A u \in Users : qx[u] \in Int /\ qy[u] \in Int /\ qz[u] = qx[u] + qy[u]
  BY DEF Deltas
<1> HIDE DEF bx, by, bz, qx, qy, qz
<1> HIDE MatchingAssumption
<1>3. SumFunctionOnSet(bz, Users) = SumFunctionOnSet(bx, Users) + SumFunctionOnSet(by, Users)
  BY <1>1, SumAdd
<1>4. SumFunctionOnSet(qz, Users) = SumFunctionOnSet(qx, Users) + SumFunctionOnSet(qy, Users)
  BY <1>1, <1>2, SumAdd
<1> QED
  BY <1>3, <1>4 DEF bx, by, bz, qx, qy, qz, BaseSum, QuoteSum

-----------------------------------------------------------------------------
\* A job that waits has filled nothing, and no seller is paid for nothing.
NothingForNothing ==
  \A j \in Jobs : /\ pc[j] = "queued" => filled[j] = Nothing
                  /\ taker[j].side = "SELL" /\ filled[j].base = 0 => filled[j].quote = 0

LEMMA NothingMatched ==
  ASSUME IInv, NothingForNothing, NEW j \in Jobs, Match(j) PROVE NothingForNothing'
<1>1. /\ pc[j] = "match" /\ pc' = [pc EXCEPT ![j] = "read"] /\ taker' = taker
  BY DEF Match, Goto, orders
<1>2. PICK s \in snap[j] :
        filled' = [filled EXCEPT ![j] = [base |-> @.base + FillOf(j, s).base,
                                         quote |-> @.quote + FillOf(j, s).quote]]
  BY DEF Match
<1> DEFINE f == FillOf(j, s)
<1>3. f \in [id : {s.id}, base : Nat, quote : Nat] /\ s.id \in Makers
  BY Fill DEF Copy
<1>4. taker[j].side = "SELL" /\ f.base = 0 => f.quote = 0
  <2> SUFFICES ASSUME taker[j].side = "SELL", f.base = 0 PROVE f.quote = 0
    OBVIOUS
  <2>1. f.quote = QuoteFor(f.base, maker[s.id].price)
    BY DEF FillOf
  <2>2. maker[s.id].price \in Nat
    BY <1>3, OrderTypes DEF IInv, TypeOK, Order
  <2>3. 0 * maker[s.id].price = 0
    BY <2>2
  <2>4. 0 \div Scale = 0
    OBVIOUS
  <2> HIDE DEF f
  <2> QED
    BY <2>1, <2>3, <2>4 DEF QuoteFor
<1>5. filled \in [Jobs -> Amounts] /\ pc \in [Jobs -> PcValues]
  BY DEF IInv, TypeOK
<1> HIDE DEF f
<1>6. /\ filled'[j] = [base |-> filled[j].base + f.base, quote |-> filled[j].quote + f.quote]
      /\ \A i \in Jobs \ {j} : filled'[i] = filled[i] /\ pc'[i] = pc[i]
      /\ pc'[j] = "read"
  BY <1>1, <1>2, <1>5 DEF f
<1>7. filled[j].base \in Nat /\ filled[j].quote \in Nat /\ f.base \in Nat /\ f.quote \in Nat
  BY <1>3, <1>5 DEF Amounts
<1>8. taker[j].side = "SELL" /\ filled'[j].base = 0 => filled'[j].quote = 0
  <2> SUFFICES ASSUME taker[j].side = "SELL", filled'[j].base = 0 PROVE filled'[j].quote = 0
    OBVIOUS
  <2>1. filled[j].base = 0 /\ f.base = 0
    BY <1>6, <1>7
  <2>2. filled[j].quote = 0 /\ f.quote = 0
    BY <1>4, <2>1 DEF NothingForNothing
  <2> QED
    BY <1>6, <2>2
<1> QED
  BY <1>1, <1>6, <1>8 DEF NothingForNothing

LEMMA NothingStep == IInv /\ NothingForNothing /\ [Next]_vars => NothingForNothing'
<1> SUFFICES ASSUME IInv, NothingForNothing, [Next]_vars PROVE NothingForNothing'
  OBVIOUS
<1>1. ASSUME filled' = filled, taker' = taker, \A j \in Jobs : pc'[j] = "queued" => pc[j] = "queued"
      PROVE  NothingForNothing'
  BY <1>1 DEF NothingForNothing
<1>2. ASSUME NEW j \in Jobs, JobStep(j), ~Match(j) PROVE NothingForNothing'
  <2>1. UNCHANGED <<filled, taker>>
    BY <1>2 DEF JobStep, Start, ReadMaker, SettleMaker, ReadTaker, FinishTaker, WriteToDB, Reset,
                orders, local
  <2>2. PICK label \in PcValues \ {"queued"} : pc' = [pc EXCEPT ![j] = label]
    BY <1>2 DEF JobStep, Start, ReadMaker, SettleMaker, ReadTaker, FinishTaker, WriteToDB, Reset,
                Goto, PcValues
  <2>3. \A i \in Jobs : pc'[i] = "queued" => pc[i] = "queued"
    BY <2>2 DEF IInv, TypeOK
  <2> QED
    BY <1>1, <2>1, <2>3
<1>3. CASE Crash
  BY <1>1, <1>3 DEF Crash, Active, orders, local
<1>4. CASE UNCHANGED vars
  BY <1>1, <1>4 DEF vars, orders, local
<1> QED
  BY <1>2, <1>3, <1>4, NothingMatched DEF Next, Terminated, JobStep

LEMMA NothingInit == Init => NothingForNothing
  BY DEF Init, NothingForNothing, Nothing

-----------------------------------------------------------------------------
\* What the taker's entry will say, of the fills that are settled.
Settled(j) ==
  CASE pc[j] \in {"match", "close", "finish"} -> filled[j]
    [] pc[j] \in {"read", "settle"} -> [base |-> filled[j].base - fill[j].base,
                                        quote |-> filled[j].quote - fill[j].quote]
    [] OTHER -> Nothing

\* The entries pushed cancel out against it.
Owing(j) ==
  LET e == Entry(Nothing, taker[j].side, Settled(j).base, Settled(j).quote)
  IN  BaseSum(entries) = 0 - e.base /\ QuoteSum(entries) = 0 - e.quote

Balanced ==
  /\ BaseSum(ledger) = 0 /\ QuoteSum(ledger) = 0
  /\ \A j \in Jobs : Active(j) => Owing(j)

Conserving == Without(Anomalies \ {"crash"}) => Balanced

LEMMA SumTypes == IInv => /\ BaseSum(entries) \in Int /\ QuoteSum(entries) \in Int
                          /\ BaseSum(ledger) \in Int /\ QuoteSum(ledger) \in Int
                          /\ entries \in [Users -> Deltas] /\ ledger \in [Users -> Deltas]
<1>1. IInv => entries \in [Users -> Deltas] /\ ledger \in [Users -> Deltas]
  BY DEF IInv, TypeOK, Deltas
<1> QED
  BY <1>1, DeltaSums

\* Nothing is settled while a job starts, fills or reads.
LEMMA BalancedStart ==
  ASSUME IInv, OneJob, NothingForNothing, Balanced, NEW j \in Jobs, Start(j), "overlap" \notin anomaly'
  PROVE  Balanced'
<1>1. UNCHANGED <<taker, ledger, entries, filled, fill>> /\ pc[j] = "queued"
  BY DEF Start, orders, postgres, engine
<1>2. pc \in [Jobs -> PcValues]
  BY DEF IInv, TypeOK
<1>3. BaseSum(ledger)' = 0 /\ QuoteSum(ledger)' = 0
  BY <1>1 DEF Balanced, BaseSum, QuoteSum
<1>4. CASE pc' = [pc EXCEPT ![j] = "unmatched"]
  <2>1. pc'[j] = "unmatched" /\ \A i \in Jobs \ {j} : pc'[i] = pc[i]
    BY <1>2, <1>4
  <2>2. ASSUME NEW i \in Jobs, Active(i)' PROVE Owing(i)'
    <3>1. i # j /\ Active(i) /\ pc'[i] = pc[i]
      BY <2>1, <2>2 DEF Active
    <3>2. Settled(i)' = Settled(i)
      BY <1>1, <3>1 DEF Settled
    <3>3. Owing(i)
      BY <3>1 DEF Balanced
    <3> QED
      BY <1>1, <3>2, <3>3 DEF Owing, BaseSum, QuoteSum
  <2> QED
    BY <1>3, <2>2 DEF Balanced
<1>5. CASE ~ (pc' = [pc EXCEPT ![j] = "unmatched"])
  <2>1. Idle /\ \E label \in {"close", "match"} : pc' = [pc EXCEPT ![j] = label]
    BY <1>5 DEF Start, Goto, Idle
  <2>2. pc'[j] \in {"close", "match"} /\ \A i \in Jobs \ {j} : ~Active(i)'
    BY <1>2, <2>1 DEF Idle, Active
  <2>3. BaseSum(entries) = 0 /\ QuoteSum(entries) = 0
    BY <2>1, NoDeltas DEF OneJob
  <2>4. Settled(j)' = Nothing
    BY <1>1, <2>2 DEF Settled, NothingForNothing
  <2>5. Owing(j)'
    <3>1. /\ Entry(Nothing, taker[j].side, Settled(j)'.base, Settled(j)'.quote).base = 0
          /\ Entry(Nothing, taker[j].side, Settled(j)'.base, Settled(j)'.quote).quote = 0
      BY <2>4 DEF Entry, Nothing
    <3> QED
      BY <1>1, <2>3, <3>1 DEF Owing, BaseSum, QuoteSum
  <2> QED
    BY <1>3, <2>2, <2>5 DEF Balanced
<1> QED
  BY <1>4, <1>5

LEMMA BalancedKept ==
  ASSUME IInv, OneJob, Balanced, NEW j \in Jobs, Active(j), NEW label, pc' = [pc EXCEPT ![j] = label],
         UNCHANGED <<taker, ledger, entries>>, Settled(j)' = Settled(j)
  PROVE  Balanced'
<1>1. \A i \in Jobs \ {j} : ~Active(i)'
  BY Alone
<1>2. Owing(j)'
  <2>1. Owing(j)
    BY DEF Balanced
  <2> QED
    BY <2>1 DEF Owing, BaseSum, QuoteSum
<1>3. BaseSum(ledger)' = 0 /\ QuoteSum(ledger)' = 0
  BY DEF Balanced, BaseSum, QuoteSum
<1> QED
  BY <1>1, <1>2, <1>3 DEF Balanced

LEMMA BalancedMatch ==
  ASSUME IInv, OneJob, Balanced, NEW j \in Jobs, Match(j) PROVE Balanced'
<1>1. /\ pc[j] = "match" /\ pc' = [pc EXCEPT ![j] = "read"] /\ UNCHANGED <<taker, ledger, entries>>
  BY DEF Match, Goto, orders, postgres, engine
<1>2. PICK s \in snap[j] :
        /\ filled' = [filled EXCEPT ![j] = [base |-> @.base + FillOf(j, s).base,
                                            quote |-> @.quote + FillOf(j, s).quote]]
        /\ fill' = [fill EXCEPT ![j] = FillOf(j, s)]
  BY DEF Match
<1> DEFINE f == FillOf(j, s)
<1>3. f \in [id : {s.id}, base : Nat, quote : Nat] /\ s.id \in Makers
  BY Fill DEF Copy
<1>4. /\ filled \in [Jobs -> Amounts] /\ pc \in [Jobs -> PcValues]
      /\ fill \in [Jobs -> [id : Makers \union {NoUser}, base : Nat, quote : Nat]]
  BY DEF IInv, TypeOK
<1> HIDE DEF f
<1>5. /\ filled'[j] = [base |-> filled[j].base + f.base, quote |-> filled[j].quote + f.quote]
      /\ fill'[j] = f /\ pc'[j] = "read"
  BY <1>1, <1>2, <1>4 DEF f
<1>6. /\ filled[j].base \in Nat /\ filled[j].quote \in Nat /\ f.base \in Nat /\ f.quote \in Nat
      /\ filled[j] = [base |-> filled[j].base, quote |-> filled[j].quote]
  BY <1>3, <1>4 DEF Amounts
<1>7. Settled(j) = filled[j]
  BY <1>1 DEF Settled
<1>8. Settled(j)' = filled[j]
  <2>1. Settled(j)' = [base |-> (filled[j].base + f.base) - f.base,
                       quote |-> (filled[j].quote + f.quote) - f.quote]
    BY <1>5 DEF Settled
  <2>2. (filled[j].base + f.base) - f.base = filled[j].base
        /\ (filled[j].quote + f.quote) - f.quote = filled[j].quote
    BY <1>6
  <2> QED
    BY <1>6, <2>1, <2>2
<1> QED
  BY <1>1, <1>7, <1>8, BalancedKept DEF Active

LEMMA BalancedRead ==
  ASSUME IInv, OneJob, Balanced, NEW j \in Jobs, ReadMaker(j) \/ ReadTaker(j) PROVE Balanced'
<1>1. /\ UNCHANGED <<taker, ledger, entries, filled, fill>>
      /\ \/ pc[j] = "read" /\ pc' = [pc EXCEPT ![j] = "settle"]
         \/ pc[j] = "close" /\ pc' = [pc EXCEPT ![j] = "finish"]
  BY DEF ReadMaker, ReadTaker, Goto, orders, postgres, engine
<1>2. pc \in [Jobs -> PcValues]
  BY DEF IInv, TypeOK
<1>3. (pc[j] = "read" /\ pc'[j] = "settle") \/ (pc[j] = "close" /\ pc'[j] = "finish")
  BY <1>1, <1>2
<1>4. Settled(j)' = Settled(j)
  BY <1>1, <1>3 DEF Settled
<1> QED
  BY <1>1, <1>4, BalancedKept DEF Active

\* A push of an entry that makes up the difference.
LEMMA BalancedPush ==
  ASSUME IInv, OneJob, Balanced, NEW j \in Jobs, Active(j), NEW label, pc' = [pc EXCEPT ![j] = label],
         UNCHANGED <<taker, ledger>>,
         NEW v \in Users, NEW e \in Deltas, entries' = [entries EXCEPT ![v] = e],
         LET old == Entry(Nothing, taker[j].side, Settled(j).base, Settled(j).quote)
             new == Entry(Nothing, taker[j].side, Settled(j)'.base, Settled(j)'.quote)
         IN  /\ old \in Deltas /\ new \in Deltas
             /\ e.base - entries[v].base = old.base - new.base
             /\ e.quote - entries[v].quote = old.quote - new.quote
  PROVE  Balanced'
<1> DEFINE old == Entry(Nothing, taker[j].side, Settled(j).base, Settled(j).quote)
           new == Entry(Nothing, taker[j].side, Settled(j)'.base, Settled(j)'.quote)
<1>1. \A i \in Jobs \ {j} : ~Active(i)'
  BY Alone
<1>2. /\ BaseSum(entries) = 0 - old.base /\ QuoteSum(entries) = 0 - old.quote
  BY DEF Balanced, Owing
<1>3. /\ BaseSum(entries)' = BaseSum(entries) - entries[v].base + e.base
      /\ QuoteSum(entries)' = QuoteSum(entries) - entries[v].quote + e.quote
  <2>1. entries \in [Users -> Deltas]
    BY SumTypes
  <2>2. /\ BaseSum([entries EXCEPT ![v] = e]) = BaseSum(entries) - entries[v].base + e.base
        /\ QuoteSum([entries EXCEPT ![v] = e]) = QuoteSum(entries) - entries[v].quote + e.quote
    BY <2>1, DeltaChange
  <2> QED
    BY <2>2 DEF BaseSum, QuoteSum
<1>4. /\ entries[v].base \in Int /\ entries[v].quote \in Int /\ e.base \in Int /\ e.quote \in Int
      /\ old.base \in Int /\ old.quote \in Int /\ new.base \in Int /\ new.quote \in Int
  BY SumTypes DEF Deltas
<1>5. /\ e.base - entries[v].base = old.base - new.base
      /\ e.quote - entries[v].quote = old.quote - new.quote
  OBVIOUS
<1> HIDE DEF old, new
<1>6. BaseSum(entries)' = 0 - new.base
  <2> HIDE MatchingAssumption
  <2> QED
    BY <1>2, <1>3, <1>4, <1>5
<1>7. QuoteSum(entries)' = 0 - new.quote
  <2> HIDE MatchingAssumption
  <2> QED
    BY <1>2, <1>3, <1>4, <1>5
<1>8. Owing(j)'
  BY <1>6, <1>7 DEF Owing, new
<1>9. BaseSum(ledger)' = 0 /\ QuoteSum(ledger)' = 0
  BY DEF Balanced, BaseSum, QuoteSum
<1> QED
  BY <1>1, <1>8, <1>9 DEF Balanced

\* An entry booked is what the taker does not owe any more.
LEMMA Paid ==
  ASSUME NEW x \in Deltas, NEW side \in Sides, NEW b \in Nat, NEW q \in Nat
  PROVE  LET old == Entry(Nothing, side, b, q)
             new == Entry(Nothing, side, Nothing.base, Nothing.quote)
             e == Entry(x, side, b, q)
         IN  /\ old \in Deltas /\ new \in Deltas /\ e \in Deltas
             /\ e.base - x.base = old.base - new.base
             /\ e.quote - x.quote = old.quote - new.quote
<1>1. CASE side = "BUY"
  BY <1>1 DEF Entry, Nothing, Deltas
<1>2. CASE side = "SELL"
  BY <1>2 DEF Entry, Nothing, Deltas
<1> QED
  BY <1>1, <1>2 DEF Sides

\* A fill booked for the maker is owed by the taker.
LEMMA BalancedSettle ==
  ASSUME IInv, OneJob, Explained, Balanced, NEW j \in Jobs, SettleMaker(j), "reread" \notin anomaly'
  PROVE  Balanced'
<1> DEFINE m == maker[fill[j].id]
           v == m.user
           e == Entry(entries[v], m.side, fill[j].base, fill[j].quote)
<1>1. /\ m \in Order /\ fill[j].base \in Nat /\ fill[j].quote \in Nat
      /\ entries' = [entries EXCEPT ![v] = e]
  BY SettleIs DEF Explained, Pushed
<1>2. v \in Users
  BY <1>1 DEF Order
<1>3. /\ UNCHANGED <<taker, ledger, filled, fill>> /\ pc[j] = "settle"
      /\ pc' = [pc EXCEPT ![j] = IF Remaining(j) <= 0 \/ snap[j] = {} THEN "close" ELSE "match"]
  BY DEF SettleMaker, Goto, orders, postgres, local
<1>4. m.side = Opposite(taker[j].side) /\ taker[j].side \in Sides
      /\ filled[j].base \in Nat /\ filled[j].quote \in Nat
  BY <1>3, TypesOfArrays DEF IInv, Settling
<1>5. pc'[j] \in {"close", "match"}
  BY <1>3 DEF IInv, TypeOK
<1>6. Settled(j) = [base |-> filled[j].base - fill[j].base, quote |-> filled[j].quote - fill[j].quote]
      /\ Settled(j)' = filled[j]
  BY <1>3, <1>5 DEF Settled
<1>7. entries[v] \in Deltas
  BY <1>2, SumTypes
<1> HIDE DEF v
<1>8. LET old == Entry(Nothing, taker[j].side, filled[j].base - fill[j].base, filled[j].quote - fill[j].quote)
          new == Entry(Nothing, taker[j].side, filled[j].base, filled[j].quote)
      IN  /\ old \in Deltas /\ new \in Deltas /\ e \in Deltas
          /\ e.base - entries[v].base = old.base - new.base
          /\ e.quote - entries[v].quote = old.quote - new.quote
  <2> DEFINE side == taker[j].side
             b == filled[j].base
             q == filled[j].quote
             fb == fill[j].base
             fq == fill[j].quote
             x == entries[v]
  <2>1. e = Entry(x, Opposite(side), fb, fq)
    BY <1>4
  <2>2. side \in Sides /\ b \in Nat /\ q \in Nat /\ fb \in Nat /\ fq \in Nat /\ x \in Deltas
    BY <1>1, <1>4, <1>7
  <2> HIDE DEF e, side, b, q, fb, fq, x
  <2> HIDE MatchingAssumption
  <2>3. LET old == Entry(Nothing, side, b - fb, q - fq)
            new == Entry(Nothing, side, b, q)
        IN  /\ old \in Deltas /\ new \in Deltas /\ e \in Deltas
            /\ e.base - x.base = old.base - new.base
            /\ e.quote - x.quote = old.quote - new.quote
    <3>1. LET old == Entry(Nothing, side, b - fb, q - fq)
              new == Entry(Nothing, side, b, q)
              y == Entry(x, Opposite(side), fb, fq)
          IN  /\ old \in Deltas /\ new \in Deltas /\ y \in Deltas
              /\ y.base - x.base = old.base - new.base
              /\ y.quote - x.quote = old.quote - new.quote
      <4>1. CASE side = "BUY"
        BY <2>2, <4>1 DEF Entry, Nothing, Opposite, Deltas
      <4>2. CASE side = "SELL"
        BY <2>2, <4>2 DEF Entry, Nothing, Opposite, Deltas
      <4> QED
        BY <2>2, <4>1, <4>2 DEF Sides
    <3> QED
      BY <2>1, <3>1
  <2> QED
    BY <2>3 DEF side, b, q, fb, fq, x
<1> HIDE DEF e
<1>9. /\ Settled(j).base = filled[j].base - fill[j].base /\ Settled(j).quote = filled[j].quote - fill[j].quote
      /\ Settled(j)'.base = filled[j].base /\ Settled(j)'.quote = filled[j].quote
  BY <1>6
<1> QED
  BY <1>1, <1>2, <1>3, <1>8, <1>9, BalancedPush DEF Active

LEMMA BalancedFinish ==
  ASSUME IInv, OneJob, Explained, NothingForNothing, Balanced, NEW j \in Jobs, FinishTaker(j),
         "reread" \notin anomaly', "notReleased" \notin anomaly', "spentForNothing" \notin anomaly'
  PROVE  Balanced'
<1> DEFINE v == taker[j].user
           side == taker[j].side
           left == Remaining(j)
           base == filled[j].base
           quote == filled[j].quote
           e == Entry(entries[v], side, base, quote)
<1>1. v \in Users /\ side \in Sides /\ left \in Nat /\ base \in Nat /\ quote \in Nat /\ taker[j].amount \in Nat
  BY TypesOfArrays
<1>2. \/ entries' = [entries EXCEPT ![v] = e]
      \/ /\ left > 0 /\ base = 0 /\ ~ (taker[j].amount - left > 0)
         /\ entries' = [entries EXCEPT ![v] = Entry(entries[v], side, 0, 0)]
  BY FinishIs DEF Explained, Pushed
<1>3. /\ UNCHANGED <<taker, ledger, filled, fill>> /\ pc[j] = "finish"
      /\ pc' = [pc EXCEPT ![j] = "write"]
  BY DEF FinishTaker, Goto, orders, postgres, local
<1>4. base = 0 /\ ~ (taker[j].amount - left > 0) => quote = 0
  <2> SUFFICES ASSUME base = 0, ~ (taker[j].amount - left > 0) PROVE quote = 0
    OBVIOUS
  <2>1. CASE side = "SELL"
    BY <2>1 DEF NothingForNothing
  <2>2. CASE side = "BUY"
    <3>1. left = taker[j].amount - quote
      BY <2>2 DEF Remaining
    <3> HIDE DEF left, quote
    <3> QED
      BY <1>1, <3>1
  <2> QED
    BY <1>1, <2>1, <2>2 DEF Sides
<1>5. entries' = [entries EXCEPT ![v] = e]
  BY <1>2, <1>4
<1>6. pc'[j] = "write"
  BY <1>3 DEF IInv, TypeOK
<1>7. Settled(j) = filled[j] /\ Settled(j)' = Nothing
  BY <1>3, <1>6 DEF Settled
<1>8. entries[v] \in Deltas
  BY <1>1, SumTypes
<1> HIDE DEF v, left
<1>9. LET old == Entry(Nothing, side, base, quote)
          new == Entry(Nothing, side, Nothing.base, Nothing.quote)
      IN  /\ old \in Deltas /\ new \in Deltas /\ e \in Deltas
          /\ e.base - entries[v].base = old.base - new.base
          /\ e.quote - entries[v].quote = old.quote - new.quote
  <2> DEFINE x == entries[v]
  <2>1. e = Entry(x, side, base, quote)
    OBVIOUS
  <2>2. side \in Sides /\ base \in Nat /\ quote \in Nat /\ x \in Deltas
    BY <1>1, <1>8
  <2> HIDE DEF e, side, base, quote, x
  <2> HIDE MatchingAssumption
  <2>3. LET old == Entry(Nothing, side, base, quote)
            new == Entry(Nothing, side, Nothing.base, Nothing.quote)
        IN  /\ old \in Deltas /\ new \in Deltas /\ e \in Deltas
            /\ e.base - x.base = old.base - new.base
            /\ e.quote - x.quote = old.quote - new.quote
    BY <2>1, <2>2, Paid
  <2> QED
    BY <2>3 DEF side, base, quote, x
<1> HIDE DEF e
<1> QED
  BY <1>1, <1>3, <1>5, <1>7, <1>9, BalancedPush DEF Active

\* Everybody's entries are saved together.
LEMMA BalancedWrite ==
  ASSUME IInv, OneJob, Balanced, NEW j \in Jobs, WriteToDB(j) PROVE Balanced'
<1>1. /\ ledger' = [u \in Users |-> [base |-> ledger[u].base + entries[u].base,
                                     quote |-> ledger[u].quote + entries[u].quote]]
      /\ UNCHANGED <<taker, entries>> /\ pc[j] = "write" /\ pc' = [pc EXCEPT ![j] = "reset"]
  BY DEF WriteToDB, Goto, orders, engine
<1>2. Active(j) /\ \A i \in Jobs \ {j} : ~Active(i)'
  BY <1>1, Alone DEF Active
<1>3. pc'[j] = "reset"
  BY <1>1 DEF IInv, TypeOK
<1>4. Settled(j) = Nothing /\ Settled(j)' = Nothing
  BY <1>1, <1>3 DEF Settled
<1>5. /\ Entry(Nothing, taker[j].side, Nothing.base, Nothing.quote).base = 0
      /\ Entry(Nothing, taker[j].side, Nothing.base, Nothing.quote).quote = 0
  BY DEF Entry, Nothing
<1>6. BaseSum(entries) = 0 /\ QuoteSum(entries) = 0
  BY <1>2, <1>4, <1>5 DEF Balanced, Owing
<1>7. Owing(j)'
  BY <1>1, <1>4, <1>5, <1>6 DEF Owing, BaseSum, QuoteSum
<1>8. BaseSum(ledger') = BaseSum(ledger) + BaseSum(entries) /\ QuoteSum(ledger') = QuoteSum(ledger) + QuoteSum(entries)
  <2>1. \A u \in Users : /\ ledger'[u].base = ledger[u].base + entries[u].base
                         /\ ledger'[u].quote = ledger[u].quote + entries[u].quote
    BY <1>1
  <2>2. ledger \in [Users -> Deltas] /\ entries \in [Users -> Deltas]
    BY SumTypes
  <2> HIDE MatchingAssumption
  <2> QED
    BY <2>1, <2>2, DeltasAdd
<1>9. BaseSum(ledger)' = 0 /\ QuoteSum(ledger)' = 0
  BY <1>6, <1>8 DEF Balanced, BaseSum, QuoteSum
<1> QED
  BY <1>2, <1>7, <1>9 DEF Balanced

LEMMA BalancedEnd ==
  ASSUME IInv, OneJob, Balanced, Crash \/ \E j \in Jobs : Reset(j) PROVE Balanced'
<1>1. ledger' = ledger
  BY DEF Crash, Reset, postgres
<1>2. \A i \in Jobs : ~Active(i)'
  <2>1. CASE Crash
    BY <2>1 DEF Crash, Active
  <2>2. ASSUME NEW j \in Jobs, Reset(j) PROVE \A i \in Jobs : ~Active(i)'
    <3>1. pc[j] = "reset" /\ pc' = [pc EXCEPT ![j] = "done"]
      BY <2>2 DEF Reset, Goto
    <3>2. pc'[j] = "done" /\ \A i \in Jobs \ {j} : ~Active(i)'
      BY <3>1, Alone DEF Active
    <3> QED
      BY <3>2 DEF Active
  <2> QED
    BY <2>1, <2>2
<1> QED
  BY <1>1, <1>2 DEF Balanced, BaseSum, QuoteSum

LEMMA ConservingStep ==
  IInv /\ Single /\ Explaining /\ NothingForNothing /\ Conserving /\ [Next]_vars => Conserving'
<1> SUFFICES ASSUME IInv, Single, Explaining, NothingForNothing, Conserving, [Next]_vars,
                    Without(Anomalies \ {"crash"})'
             PROVE  Balanced'
  BY DEF Conserving
<1>1. Without(Anomalies \ {"crash"})
  BY AnomaliesStay, StayWithout
<1>2. /\ OneJob /\ Explained /\ Balanced
      /\ "reread" \notin anomaly' /\ "notReleased" \notin anomaly' /\ "spentForNothing" \notin anomaly'
      /\ "overlap" \notin anomaly'
  BY <1>1 DEF Single, Explaining, Conserving, Without, Anomalies
<1>3. ASSUME NEW j \in Jobs, JobStep(j) PROVE Balanced'
  BY <1>2, <1>3, BalancedStart, BalancedMatch, BalancedRead, BalancedSettle, BalancedFinish,
     BalancedWrite, BalancedEnd DEF JobStep
<1>4. CASE UNCHANGED vars
  BY <1>2, <1>4 DEF vars, orders, postgres, engine, local, Balanced, Owing, BaseSum, QuoteSum, Settled,
                    Active
<1> QED
  BY <1>2, <1>3, <1>4, BalancedEnd DEF Next, Terminated

LEMMA ConservingInit == Init => Conserving
<1> SUFFICES ASSUME Init PROVE Balanced
  BY DEF Conserving
<1>1. \A j \in Jobs : ~Active(j)
  BY DEF Init, Active
<1>2. BaseSum(ledger) = 0 /\ QuoteSum(ledger) = 0
  BY NoDeltas DEF Init
<1> QED
  BY <1>1, <1>2 DEF Balanced

LEMMA Conservation == Spec => []Conserving
<1>1. IInv /\ Single /\ Explaining /\ NothingForNothing /\ Conserving /\ [Next]_vars => Conserving'
  BY ConservingStep
<1>2. IInv /\ NothingForNothing /\ [Next]_vars => NothingForNothing'
  BY NothingStep
<1> QED
  BY <1>1, <1>2, ConservingInit, NothingInit, Invariance, OneAtATime, Explanation, PTL DEF Spec

\* Matching makes no money and loses none, also when the process dies within a
\* job: what all users own between the jobs is what their orders reserved, for the
\* entries of the makers cancel out against the taker's and one transaction saves
\* them all; only the rounding of a sold part's rest may keep a unit of a job's
\* user (order.matchingengin.ts:848-895, 549-554, 686-694).
THEOREM MoneyIsConserved == Spec => []Conserved
<1>1. IInv /\ Explaining /\ Conserving => Conserved
  <2> SUFFICES ASSUME IInv, Explaining, Conserving, Without(Anomalies \ {"crash"}), Idle
               PROVE  /\ SumFunctionOnSet([u \in Users |-> Owned(u).base], Users)
                           = SumFunctionOnSet([u \in Users |-> Reserve(u, "SELL") - Short(u)], Users)
                      /\ SumFunctionOnSet([u \in Users |-> Owned(u).quote], Users)
                           = SumFunctionOnSet([u \in Users |-> Reserve(u, "BUY")], Users)
    BY DEF Conserved
  <2>1. Balanced /\ Explained
    BY DEF Conserving, Explaining, Without, Anomalies
  <2> DEFINE own == [u \in Users |-> Owned(u)]
             res == [u \in Users |-> [base |-> Reserve(u, "SELL") - Short(u), quote |-> Reserve(u, "BUY")]]
  <2>2. \A u \in Users : Reserve(u, "SELL") \in Int /\ Reserve(u, "BUY") \in Int /\ Short(u) \in Int
    <3>1. (\A m \in Makers : maker[m] \in Order) /\ (\A j \in Jobs : taker[j] \in Taking)
      BY OrderTypes DEF IInv, TypeOK
    <3>2. \A u \in Users : Reserve(u, "SELL") \in Nat /\ Reserve(u, "BUY") \in Nat
      BY <3>1, ReserveTypes
    <3>3. \A u \in Users : Short(u) \in Int
      BY ShortSums
    <3> QED
      BY <3>2, <3>3
  <2>3. res \in [Users -> Deltas] /\ ledger \in [Users -> Deltas]
    BY <2>2, SumTypes DEF Deltas
  <2>4. \A u \in Users : /\ own[u].base = res[u].base + ledger[u].base
                         /\ own[u].quote = res[u].quote + ledger[u].quote
    <3> SUFFICES ASSUME NEW u \in Users
                 PROVE  /\ Owned(u).base = Reserve(u, "SELL") - Short(u) + ledger[u].base
                        /\ Owned(u).quote = Reserve(u, "BUY") + ledger[u].quote
      OBVIOUS
    <3>1. /\ Owned(u).base = Reserve(u, "SELL") + ledger[u].base - Short(u)
          /\ Owned(u).quote = Reserve(u, "BUY") + ledger[u].quote
      BY <2>1, StoredWhenIdle DEF Explained, BalanceExplained, Owned, OwnedBy
    <3>2. ledger[u].base \in Int /\ Reserve(u, "SELL") \in Int /\ Short(u) \in Int
      BY <2>2, <2>3 DEF Deltas
    <3> QED
      BY <3>1, <3>2
  <2>5. BaseSum(own) = BaseSum(res) + BaseSum(ledger) /\ QuoteSum(own) = QuoteSum(res) + QuoteSum(ledger)
    <3> HIDE DEF own, res
    <3> QED
      BY <2>3, <2>4, DeltasAdd
  <2>6. BaseSum(res) \in Int /\ QuoteSum(res) \in Int
    BY <2>3, DeltaSums
  <2>7. BaseSum(own) = BaseSum(res) /\ QuoteSum(own) = QuoteSum(res)
    <3> HIDE DEF own, res
    <3> QED
      BY <2>1, <2>5, <2>6 DEF Balanced
  <2>8. /\ BaseSum(own) = SumFunctionOnSet([u \in Users |-> Owned(u).base], Users)
        /\ QuoteSum(own) = SumFunctionOnSet([u \in Users |-> Owned(u).quote], Users)
    BY DEF BaseSum, QuoteSum
  <2>9. /\ BaseSum(res) = SumFunctionOnSet([u \in Users |-> Reserve(u, "SELL") - Short(u)], Users)
        /\ QuoteSum(res) = SumFunctionOnSet([u \in Users |-> Reserve(u, "BUY")], Users)
    BY DEF BaseSum, QuoteSum
  <2> QED
    BY <2>7, <2>8, <2>9
<1> QED
  BY <1>1, Invariance, Explanation, Conservation, PTL
=============================================================================
