--------------------------- MODULE OrderBookProof ---------------------------
(***************************************************************************)
(* The order book, for any orders, close requests, market orders, prices   *)
(* and crashes.  An order is clean as long as no two callers have worked   *)
(* with it at once and no caller died with it.  A clean order has at most  *)
(* one copy in the list of its price and one caller at work with it, and   *)
(* where that caller is in its commands says what hash, list and amounts   *)
(* must hold (Story).  Unless its level was removed under it, a clean      *)
(* order that is open is listed (Kept).                                    *)
(***************************************************************************)
EXTENDS OrderBook, SumTheorems, SequenceTheorems

\* A copy of an order, with no more filled than there was.
Rec == {e \in [id : Orders, filled : Nat] : e.filled <= Size[e.id]}

\* Order o in a sequence of entries: at most once, at all, only as entry e.
Once(s, o) == \A i, k \in DOMAIN s : s[i].id = o /\ s[k].id = o => i = k
In(s, o) == \E i \in DOMAIN s : s[i].id = o
Only(s, o, e) == \A i \in DOMAIN s : s[i].id = o => s[i] = e

-----------------------------------------------------------------------------
(***************************************************************************)
(* Sequences of entries.                                                   *)
(***************************************************************************)
LEMMA Appended ==
  ASSUME NEW s \in Seq(Rec), NEW e \in Rec, NEW o
  PROVE  LET r == Append(s, e) IN
         /\ r \in Seq(Rec)
         /\ In(r, o) <=> In(s, o) \/ e.id = o
         /\ ~In(s, o) => Once(r, o)
         /\ ~In(s, o) => Only(r, o, e)
         /\ e.id # o => /\ Once(s, o) => Once(r, o)
                        /\ \A x : Only(s, o, x) => Only(r, o, x)
<1> DEFINE r == Append(s, e)
<1>1. /\ r \in Seq(Rec) /\ Len(s) \in Nat /\ DOMAIN s = 1 .. Len(s) /\ DOMAIN r = 1 .. Len(s) + 1
      /\ \A i \in 1 .. Len(s) : r[i] = s[i]
      /\ r[Len(s) + 1] = e
  OBVIOUS
<1> HIDE DEF r
<1>2. DOMAIN r = (DOMAIN s) \union {Len(s) + 1} /\ Len(s) + 1 \notin DOMAIN s
  BY <1>1
<1>3. \A i \in DOMAIN s : r[i] = s[i]
  BY <1>1
<1>4. In(r, o) <=> In(s, o) \/ e.id = o
  BY <1>1, <1>2, <1>3 DEF In
<1>5. ~In(s, o) => Once(r, o) /\ Only(r, o, e)
  BY <1>1, <1>2, <1>3 DEF In, Once, Only
<1>6. e.id # o => /\ Once(s, o) => Once(r, o)
                  /\ \A x : Only(s, o, x) => Only(r, o, x)
  BY <1>1, <1>2, <1>3 DEF Once, Only
<1> QED
  BY <1>1, <1>4, <1>5, <1>6 DEF r

LEMMA RestOf ==
  ASSUME NEW s \in Seq(Rec), s # <<>>, NEW o
  PROVE  /\ Head(s) \in Rec /\ Tail(s) \in Seq(Rec)
         /\ In(Tail(s), o) => In(s, o)
         /\ Once(s, o) => Once(Tail(s), o)
         /\ \A x : Only(s, o, x) => Only(Tail(s), o, x)
         /\ Once(s, o) /\ Head(s).id = o => ~In(Tail(s), o)
         /\ Head(s).id = o => In(s, o) /\ \A x : Only(s, o, x) => Head(s) = x
<1> DEFINE r == Tail(s)
<1>1. /\ Len(s) \in Nat \ {0} /\ DOMAIN s = 1 .. Len(s)
      /\ r \in Seq(Rec) /\ DOMAIN r = 1 .. Len(s) - 1 /\ Head(s) = s[1] /\ s[1] \in Rec
      /\ \A i \in 1 .. Len(s) - 1 : r[i] = s[i + 1]
  OBVIOUS
<1> HIDE DEF r
<1>2. \A i \in DOMAIN r : i \in Nat /\ i + 1 \in DOMAIN s /\ r[i] = s[i + 1] /\ i + 1 # 1
  BY <1>1
<1>3. 1 \in DOMAIN s
  BY <1>1
<1>4. In(r, o) => In(s, o)
  BY <1>2 DEF In
<1>5. Once(s, o) => Once(r, o)
  BY <1>2 DEF Once
<1>6. \A x : Only(s, o, x) => Only(r, o, x)
  BY <1>2 DEF Only
<1>7. Once(s, o) /\ Head(s).id = o => ~In(r, o)
  BY <1>1, <1>2, <1>3 DEF Once, In
<1>8. Head(s).id = o => In(s, o) /\ \A x : Only(s, o, x) => Head(s) = x
  BY <1>1, <1>3 DEF In, Only
<1> QED
  BY <1>1, <1>4, <1>5, <1>6, <1>7, <1>8 DEF r

LEMMA Concatenated ==
  ASSUME NEW s \in Seq(Rec), NEW t \in Seq(Rec), NEW o
  PROVE  LET r == s \o t IN
         /\ r \in Seq(Rec)
         /\ In(r, o) <=> In(s, o) \/ In(t, o)
         /\ Once(s, o) /\ Once(t, o) /\ ~(In(s, o) /\ In(t, o)) => Once(r, o)
         /\ \A x : Only(s, o, x) /\ Only(t, o, x) => Only(r, o, x)
<1> DEFINE r == s \o t
           m == Len(s)
           n == Len(t)
<1>1. /\ r \in Seq(Rec) /\ m \in Nat /\ n \in Nat /\ DOMAIN s = 1 .. m /\ DOMAIN t = 1 .. n
      /\ DOMAIN r = 1 .. m + n
      /\ \A i \in 1 .. m : r[i] = s[i]
      /\ \A i \in 1 .. n : r[m + i] = t[i]
      /\ \A i \in 1 .. m + n : i > m => r[i] = t[i - m]
  OBVIOUS
<1> HIDE DEF r, m, n
<1>2. \A i \in DOMAIN r : \/ i \in DOMAIN s /\ r[i] = s[i]
                          \/ i \in Nat /\ i - m \in DOMAIN t /\ r[i] = t[i - m]
  BY <1>1
<1>3. \A i \in DOMAIN s : i \in DOMAIN r /\ r[i] = s[i]
  BY <1>1
<1>4. \A i \in DOMAIN t : m + i \in DOMAIN r /\ r[m + i] = t[i]
  BY <1>1
<1>5. In(r, o) <=> In(s, o) \/ In(t, o)
  BY <1>2, <1>3, <1>4 DEF In
<1>6. Once(s, o) /\ Once(t, o) /\ ~(In(s, o) /\ In(t, o)) => Once(r, o)
  <2> SUFFICES ASSUME Once(s, o), Once(t, o), ~(In(s, o) /\ In(t, o)),
                      NEW i \in DOMAIN r, NEW k \in DOMAIN r, r[i].id = o, r[k].id = o
               PROVE  i = k
    BY DEF Once
  <2>1. CASE In(s, o)
    <3>1. i \in DOMAIN s /\ r[i] = s[i] /\ k \in DOMAIN s /\ r[k] = s[k]
      BY <1>2, <2>1 DEF In
    <3> QED
      BY <3>1 DEF Once
  <2>2. CASE ~In(s, o)
    <3>1. /\ i \in Nat /\ i - m \in DOMAIN t /\ r[i] = t[i - m]
          /\ k \in Nat /\ k - m \in DOMAIN t /\ r[k] = t[k - m]
      BY <1>2, <2>2 DEF In
    <3>2. i - m = k - m
      BY <3>1 DEF Once
    <3> QED
      BY <1>1, <3>1, <3>2
  <2> QED
    BY <2>1, <2>2
<1>7. \A x : Only(s, o, x) /\ Only(t, o, x) => Only(r, o, x)
  BY <1>2 DEF Only
<1> QED
  BY <1>1, <1>5, <1>6, <1>7 DEF r

\* LREM: the first copy goes, the others stay in their order.
LEMMA Removing ==
  ASSUME NEW s \in Seq(Rec), NEW e
  PROVE  \/ (\A i \in DOMAIN s : s[i] # e) /\ RemoveFirst(s, e) = s
         \/ \E k \in DOMAIN s :
              /\ s[k] = e
              /\ RemoveFirst(s, e) \in Seq(Rec)
              /\ DOMAIN RemoveFirst(s, e) = 1 .. Len(s) - 1
              /\ \A i \in 1 .. Len(s) - 1 :
                   RemoveFirst(s, e)[i] = IF i < k THEN s[i] ELSE s[i + 1]
<1>1. CASE ~ \E i \in 1 .. Len(s) : s[i] = e
  BY <1>1 DEF RemoveFirst
<1>2. CASE \E i \in 1 .. Len(s) : s[i] = e
  <2> DEFINE I == {i \in 1 .. Len(s) : s[i] = e}
             k == Min(I)
             r == SubSeq(s, 1, k - 1) \o SubSeq(s, k + 1, Len(s))
  <2>1. Len(s) \in Nat /\ DOMAIN s = 1 .. Len(s)
    OBVIOUS
  <2>2. k \in I
    <3>1. I \in SUBSET Nat /\ I # {}
      BY <1>2, <2>1
    <3>2. \E i \in I : \A n \in I : i <= n
      BY <3>1, Smallest
    <3> QED
      BY <3>2 DEF Min
  <2>3. RemoveFirst(s, e) = r
    BY <1>2, <2>2 DEF RemoveFirst, RemoveAt, SelectInSeq
  <2> HIDE DEF k
  <2>4. /\ k \in 1 .. Len(s) /\ s[k] = e
    BY <2>2
  <2>5. k \in Int /\ Len(s) \in Int /\ k >= 1 /\ k <= Len(s)
    BY <2>1, <2>4
  <2>6. \A i \in 1 .. Len(s) : s[i] \in Rec
    OBVIOUS
  <2> DEFINE u == SubSeq(s, 1, k - 1)
             v == SubSeq(s, k + 1, Len(s))
  <2>7. u \in Seq(Rec) /\ Len(u) = k - 1 /\ \A i \in 1 .. k - 1 : u[i] = s[i]
    <3>1. \A i \in 1 .. k - 1 : s[i] \in Rec
      BY <2>5, <2>6
    <3>2. 1 \in Int /\ k - 1 \in Int
      BY <2>5
    <3>3. /\ u \in Seq(Rec) /\ Len(u) = IF 1 <= k - 1 THEN (k - 1) - 1 + 1 ELSE 0
          /\ \A i \in 1 .. (k - 1) - 1 + 1 : u[i] = s[1 + i - 1]
      BY <3>1, <3>2, SubSeqProperties
    <3> HIDE DEF u
    <3> QED
      BY <2>5, <3>3
  <2>8. /\ v \in Seq(Rec) /\ Len(v) = Len(s) - k
        /\ \A i \in 1 .. Len(s) - k : v[i] = s[k + i]
    <3>1. \A i \in k + 1 .. Len(s) : s[i] \in Rec
      BY <2>5, <2>6
    <3>2. k + 1 \in Int
      BY <2>5
    <3>3. /\ v \in Seq(Rec)
          /\ Len(v) = IF k + 1 <= Len(s) THEN Len(s) - (k + 1) + 1 ELSE 0
          /\ \A i \in 1 .. Len(s) - (k + 1) + 1 : v[i] = s[k + 1 + i - 1]
      BY <2>5, <3>1, <3>2, SubSeqProperties
    <3> HIDE DEF v
    <3> QED
      BY <2>5, <3>3
  <2> HIDE DEF u, v
  <2>9. /\ u \o v \in Seq(Rec) /\ Len(u \o v) = Len(u) + Len(v)
        /\ \A i \in 1 .. Len(u) + Len(v) :
             (u \o v)[i] = IF i <= Len(u) THEN u[i] ELSE v[i - Len(u)]
    BY <2>7, <2>8, ConcatProperties
  <2>10. r = u \o v
    BY DEF u, v
  <2> HIDE DEF r
  <2>11. r \in Seq(Rec) /\ Len(r) = Len(s) - 1 /\ DOMAIN r = 1 .. Len(s) - 1
    BY <2>5, <2>7, <2>8, <2>9, <2>10
  <2>12. ASSUME NEW i \in 1 .. Len(s) - 1 PROVE r[i] = IF i < k THEN s[i] ELSE s[i + 1]
    <3>1. CASE i < k
      BY <2>5, <2>7, <2>8, <2>9, <2>10, <3>1
    <3>2. CASE ~(i < k)
      <4>1. i - Len(u) \in 1 .. Len(s) - k /\ k + (i - Len(u)) = i + 1 /\ ~(i <= Len(u))
            /\ i \in 1 .. Len(u) + Len(v)
        BY <2>5, <2>7, <2>8, <3>2
      <4>2. v[i - Len(u)] = s[k + (i - Len(u))]
        BY <2>8, <4>1
      <4>3. (u \o v)[i] = v[i - Len(u)]
        BY <2>9, <4>1
      <4> QED
        BY <2>10, <3>2, <4>1, <4>2, <4>3
    <3> QED
      BY <3>1, <3>2
  <2> QED
    BY <2>1, <2>3, <2>4, <2>11, <2>12
<1> QED
  BY <1>1, <1>2

LEMMA Removed ==
  ASSUME NEW s \in Seq(Rec), NEW e \in Rec, NEW o
  PROVE  LET r == RemoveFirst(s, e) IN
         /\ r \in Seq(Rec)
         /\ \A i \in DOMAIN r : \E k \in DOMAIN s : r[i] = s[k]
         /\ Once(s, o) => Once(r, o)
         /\ \A x : Only(s, o, x) => Only(r, o, x)
         /\ In(r, o) => In(s, o)
         /\ e.id # o => (In(s, o) => In(r, o))
         /\ Once(s, o) /\ Only(s, o, e) => ~In(r, o)
<1> DEFINE r == RemoveFirst(s, e)
<1> HIDE DEF r
<1>1. CASE (\A i \in DOMAIN s : s[i] # e) /\ r = s
  BY <1>1 DEF Once, Only, In, r
<1>2. CASE \E k \in DOMAIN s :
             /\ s[k] = e /\ r \in Seq(Rec) /\ DOMAIN r = 1 .. Len(s) - 1
             /\ \A i \in 1 .. Len(s) - 1 : r[i] = IF i < k THEN s[i] ELSE s[i + 1]
  <2>1. PICK k \in DOMAIN s :
             /\ s[k] = e /\ r \in Seq(Rec) /\ DOMAIN r = 1 .. Len(s) - 1
             /\ \A i \in 1 .. Len(s) - 1 : r[i] = IF i < k THEN s[i] ELSE s[i + 1]
    BY <1>2
  <2>2. Len(s) \in Nat /\ DOMAIN s = 1 .. Len(s)
    OBVIOUS
  <2> DEFINE old(i) == IF i < k THEN i ELSE i + 1
  <2>3. \A i \in DOMAIN r : old(i) \in DOMAIN s /\ old(i) # k /\ r[i] = s[old(i)]
    BY <2>1, <2>2
  <2>4. \A i, l \in DOMAIN r : old(i) = old(l) => i = l
    BY <2>1, <2>2
  <2>5. \A i \in DOMAIN s : i # k => \E l \in DOMAIN r : r[l] = s[i]
    <3> SUFFICES ASSUME NEW i \in DOMAIN s, i # k PROVE \E l \in DOMAIN r : r[l] = s[i]
      OBVIOUS
    <3>1. CASE i < k
      <4>1. i \in 1 .. Len(s) - 1 /\ r[i] = s[i]
        BY <2>1, <2>2, <3>1
      <4> QED
        BY <2>1, <4>1
    <3>2. CASE ~(i < k)
      <4>1. i - 1 \in 1 .. Len(s) - 1 /\ ~(i - 1 < k) /\ (i - 1) + 1 = i
        BY <2>1, <2>2, <3>2
      <4>2. r[i - 1] = s[i]
        BY <2>1, <4>1
      <4> QED
        BY <2>1, <4>1, <4>2
    <3> QED
      BY <3>1, <3>2
  <2> HIDE DEF old
  <2>6. \A i \in DOMAIN r : \E l \in DOMAIN s : r[i] = s[l]
    BY <2>3
  <2>7. Once(s, o) => Once(r, o)
    BY <2>3, <2>4 DEF Once
  <2>8. \A x : Only(s, o, x) => Only(r, o, x)
    BY <2>3 DEF Only
  <2>9. In(r, o) => In(s, o)
    BY <2>3 DEF In
  <2>10. e.id # o => (In(s, o) => In(r, o))
    BY <2>1, <2>5 DEF In
  <2>11. Once(s, o) /\ Only(s, o, e) => ~In(r, o)
    <3> SUFFICES ASSUME Once(s, o), Only(s, o, e), NEW i \in DOMAIN r, r[i].id = o PROVE FALSE
      BY DEF In
    <3>1. s[old(i)] = e /\ s[old(i)].id = o /\ old(i) \in DOMAIN s
      BY <2>3 DEF Only
    <3> QED
      BY <2>1, <2>3, <3>1 DEF Once
  <2> QED
    BY <2>1, <2>6, <2>7, <2>8, <2>9, <2>10, <2>11 DEF r
<1> QED
  BY <1>1, <1>2, Removing DEF r


-----------------------------------------------------------------------------
(***************************************************************************)
(* The inductive invariant.                                                *)
(***************************************************************************)

\* Every variable has its type, and a list has orders of its price only.
Typed ==
  /\ levels \subseteq Prices
  /\ list \in [Prices -> Seq(Rec)]
  /\ \A c \in Prices, o \in Orders : In(list[c], o) => PriceOf[o] = c
  /\ hash \in [Orders -> Rec \union {None}]
  /\ \A o \in Orders : hash[o] # None => hash[o].id = o
  /\ pc \in [Procs -> PcValues]
  /\ held \in [Procs -> Rec \union {None}]
  /\ found \in [Procs -> Rec \union {None}]
  /\ todo \in [Matchers -> SUBSET Prices]
  /\ queue \in [Matchers -> Seq(Rec)]
  /\ left \in [Matchers -> Nat]
  /\ traded \in [Orders -> Nat]
  /\ returned \in [Orders -> Nat]
  /\ faults \in 0 .. MaxFaults
  /\ contested \subseteq Orders /\ swept \subseteq Orders /\ cut \subseteq Orders

\* What each caller does, and when it holds a copy.
Roles ==
  /\ \A o \in Orders : /\ pc[o] \in {"new", "zadd", "rpush", "hset", "done"}
                       /\ held[o] # None => held[o] = Entry(o, 0)
  /\ \A c \in Closers : pc[c] \in {"new", "lrange", "lrem", "llen", "del", "zrem",
                                   "hdel", "refund", "done"}
  /\ \A j \in Matchers : pc[j] # "refund"
  /\ \A p \in Procs : /\ held[p] = None <=> pc[p] \in {"new", "done", "read", "take"}
                      /\ pc[p] = "lrem" => found[p] # None /\ found[p].id = held[p].id
  /\ \A j \in Matchers :
       /\ pc[j] = "new" => queue[j] = <<>>
       /\ pc[j] = "read" => \A o \in Orders : In(queue[j], o) => PriceOf[o] \notin todo[j]

Has(p, o) == held[p] # None /\ held[p].id = o
Lined(p, o) == p \in Matchers /\ pc[p] # "done" /\ In(queue[p], o)
Works(p, o) == Has(p, o) \/ Lined(p, o)
At(o) == list[PriceOf[o]]
Clean == Orders \ (contested \union cut)
Booked(o) == traded[o] + returned[o]

\* At most one caller works with the order, and nothing lists it twice.
OneWorker(o) ==
  /\ \A p, q \in Procs : Works(p, o) /\ Works(q, o) => p = q
  /\ \A p \in Procs : Has(p, o) => ~ Lined(p, o)
  /\ \A j \in Matchers : pc[j] # "done" => Once(queue[j], o)
  /\ Once(At(o), o)

\* Before its RPUSH nobody but its adder knows it.
Early(o) ==
  pc[o] \in {"new", "zadd", "rpush"} =>
    /\ hash[o] = None /\ ~ In(At(o), o)
    /\ \A p \in Procs \ {o} : ~ Works(p, o)
    /\ Booked(o) = 0

\* What list, hash and amounts are while a caller has a copy.
Fits(p, o) ==
  /\ pc[p] \in {"lrange", "lrem", "llen", "del", "zrem", "hdel"} => hash[o] # None
  /\ pc[p] \in {"zadd", "rpush", "hset", "refund"} => hash[o] = None
  /\ pc[p] \in {"llen", "del", "zrem", "hdel", "zadd", "rpush", "refund"} => ~ In(At(o), o)
  /\ pc[p] = "hset" => Only(At(o), o, held[p])
  /\ pc[p] \in {"lrange", "lrem"} => Only(At(o), o, hash[o])
  /\ pc[p] = "lrem" => Only(At(o), o, found[p])
  /\ Booked(o) = held[p].filled
InHand(o) == \A p \in Procs : Has(p, o) => Fits(p, o)

\* A copy the engine has read and not yet taken is the current one.
InLine(o) == \A j \in Matchers : pc[j] # "done" => Only(queue[j], o, hash[o])

\* And while nobody has.
AtRest(o) ==
  pc[o] = "done" /\ (\A p \in Procs : ~ Has(p, o)) =>
    /\ Only(At(o), o, hash[o])
    /\ Booked(o) = IF hash[o] = None THEN Size[o] ELSE hash[o].filled

Story(o) == OneWorker(o) /\ Early(o) /\ InHand(o) /\ InLine(o) /\ AtRest(o)

\* An open order is in the list of a price that is listed.
Kept(o) ==
  /\ In(At(o), o) => PriceOf[o] \in levels
  /\ \A p \in Procs : Has(p, o) /\ pc[p] = "rpush" => PriceOf[o] \in levels
  /\ \A p \in Procs : Has(p, o) /\ pc[p] = "hset" => In(At(o), o)
  /\ pc[o] = "done" /\ (\A p \in Procs : ~ Has(p, o)) /\ hash[o] # None => In(At(o), o)

IInv ==
  /\ Typed
  /\ Roles
  /\ \A o \in Clean : Story(o)
  /\ \A o \in Clean \ swept : Kept(o)

-----------------------------------------------------------------------------
(***************************************************************************)
(* A step that does not touch an order.                                    *)
(***************************************************************************)

\* r says no more of order o than s.
NoMore(s, r, o) ==
  /\ In(r, o) => In(s, o)
  /\ Once(s, o) => Once(r, o)
  /\ \A x : Only(s, o, x) => Only(r, o, x)

Apart(o) ==
  /\ hash'[o] = hash[o] /\ traded'[o] = traded[o] /\ returned'[o] = returned[o]
  /\ pc'[o] = pc[o]
  /\ \A q \in Procs : \/ held'[q] = held[q] /\ pc'[q] = pc[q] /\ found'[q] = found[q]
                      \/ ~ Has(q, o) /\ ~ Has(q, o)'
  /\ \A j \in Matchers : pc'[j] # "done" =>
                           pc[j] # "done" /\ NoMore(queue[j], queue'[j], o)
  /\ NoMore(list[PriceOf[o]], list'[PriceOf[o]], o)

LEMMA Records ==
  /\ None \notin Rec
  /\ \A e \in Rec : e.id \in Orders /\ e.filled \in Nat /\ e.filled <= Size[e.id]
  /\ \A o \in Orders, n \in Nat : n <= Size[o] =>
       Entry(o, n) \in Rec /\ Entry(o, n).id = o /\ Entry(o, n).filled = n
BY OrderBookAssumption DEF Rec, Entry

LEMMA Members == Orders \subseteq Procs /\ Closers \subseteq Procs /\ Matchers \subseteq Procs
BY DEF Procs

LEMMA ApartStory ==
  ASSUME NEW o \in Orders, Story(o), Apart(o)
  PROVE  Story(o)'
<1>1. \A q \in Procs : Has(q, o)' <=> Has(q, o)
  BY DEF Apart, Has
<1>2. \A q \in Procs : Has(q, o) =>
        held'[q] = held[q] /\ pc'[q] = pc[q] /\ found'[q] = found[q]
  BY DEF Apart
<1>3. \A q \in Procs : Lined(q, o)' => Lined(q, o)
  BY DEF Apart, Lined, NoMore
<1>4. Booked(o)' = Booked(o) /\ pc'[o] = pc[o] /\ hash'[o] = hash[o]
  BY DEF Apart, Booked
<1>5. /\ In(At(o), o)' => In(At(o), o)
      /\ Once(At(o), o) => Once(At(o), o)'
      /\ \A x : Only(At(o), o, x) => Only(At(o)', o, x)
  BY DEF Apart, NoMore, At, In, Once
<1>6. OneWorker(o)'
  <2>1. \A q \in Procs : Works(q, o)' => Works(q, o)
    BY <1>1, <1>3 DEF Works
  <2>2. \A j \in Matchers : pc'[j] # "done" => Once(queue[j], o)'
    BY DEF Apart, NoMore, Story, OneWorker, Once
  <2>3. Once(At(o), o)'
    BY <1>5 DEF Story, OneWorker
  <2>4. \A p \in Procs : Has(p, o)' => ~ Lined(p, o)'
    BY <1>1, <1>3 DEF Story, OneWorker
  <2> QED
    BY <2>1, <2>2, <2>3, <2>4 DEF Story, OneWorker
<1>7. Early(o)'
  <2>1. \A q \in Procs : Works(q, o)' => Works(q, o)
    BY <1>1, <1>3 DEF Works
  <2> QED
    BY <2>1, <1>4, <1>5 DEF Story, Early
<1>8. InHand(o)'
  <2> SUFFICES ASSUME NEW p \in Procs, Has(p, o)'
               PROVE  Fits(p, o)'
    BY DEF InHand
  <2>1. Has(p, o) /\ held'[p] = held[p] /\ pc'[p] = pc[p] /\ found'[p] = found[p]
    BY <1>1, <1>2
  <2>2. Fits(p, o)
    BY <2>1 DEF Story, InHand
  <2>3. \A x : Only(At(o)', o, x) <=> Only(At(o), o, x)'
    BY DEF Only
  <2> QED
    BY <2>1, <2>2, <2>3, <1>4, <1>5 DEF Fits
<1>9. InLine(o)'
  BY <1>4 DEF Story, InLine, Apart, NoMore, Only
<1>10. AtRest(o)'
  BY <1>1, <1>4, <1>5 DEF Story, AtRest, Only
<1> QED
  BY <1>6, <1>7, <1>8, <1>9, <1>10 DEF Story

\* A step of one caller that has another order in hand.
LEMMA OthersApart ==
  ASSUME Typed, Roles, NEW p \in Procs, held[p] # None,
         NEW o \in Orders, o # held[p].id,
         \A q \in Procs \ {p} : held'[q] = held[q] /\ pc'[q] = pc[q] /\ found'[q] = found[q],
         held'[p] = held[p] \/ held'[p] = None,
         UNCHANGED <<queue, traded>>, returned'[o] = returned[o], hash'[o] = hash[o],
         NoMore(list[PriceOf[o]], list'[PriceOf[o]], o)
  PROVE  Apart(o)
<1>1. o # p
  <2>1. p \in Orders => held[p] = Entry(p, 0)
    BY DEF Roles
  <2> QED
    BY <2>1 DEF Entry
<1>2. pc'[o] = pc[o]
  BY <1>1, Members
<1>3. ~ Has(p, o) /\ ~ Has(p, o)'
  BY DEF Has
<1>4. \A j \in Matchers : pc'[j] # "done" =>
                           pc[j] # "done" /\ NoMore(queue[j], queue'[j], o)
  <2>1. pc[p] # "done"
    BY DEF Roles
  <2> QED
    BY <2>1, Members DEF NoMore
<1> QED
  BY <1>2, <1>3, <1>4 DEF Apart

LEMMA NoMoreSame == \A s, o : NoMore(s, s, o)
BY DEF NoMore

LEMMA NoMoreEmpty == \A s, o : NoMore(s, <<>>, o)
BY DEF NoMore, In, Once, Only

\* The only caller at work with a clean order.
LEMMA Alone ==
  ASSUME NEW o \in Orders, Story(o), NEW p \in Procs, Has(p, o)
  PROVE  /\ \A q \in Procs \ {p} : ~ Works(q, o) /\ ~ Has(q, o) /\ ~ Lined(q, o)
         /\ ~ Lined(p, o)
         /\ p # o => pc[o] \notin {"new", "zadd", "rpush"}
         /\ \A j \in Matchers : pc[j] # "done" => ~ In(queue[j], o)
<1>1. \A q \in Procs \ {p} : ~ Works(q, o) /\ ~ Has(q, o) /\ ~ Lined(q, o)
  BY DEF Story, OneWorker, Works
<1>2. ~ Lined(p, o)
  BY DEF Story, OneWorker
<1>3. p # o => pc[o] \notin {"new", "zadd", "rpush"}
  BY DEF Story, Early, Works
<1>4. \A j \in Matchers : pc[j] # "done" => ~ In(queue[j], o)
  BY <1>1, <1>2, Members DEF Lined
<1> QED
  BY <1>1, <1>2, <1>3, <1>4

-----------------------------------------------------------------------------
(***************************************************************************)
(* Types and roles.                                                        *)
(***************************************************************************)
Commands == {"zadd", "rpush", "hset", "lrange", "lrem", "llen", "del", "zrem", "hdel", "refund"}

\* Whoever is at a command of the book has a copy, and its price is a price.
LEMMA InCommand ==
  ASSUME Typed, Roles, NEW p \in Procs, pc[p] \in Commands
  PROVE  /\ held[p] # None /\ held[p] \in Rec /\ held[p].id \in Orders
         /\ held[p].filled \in Nat /\ held[p].filled <= Size[held[p].id]
         /\ PriceHeld(p) = PriceOf[held[p].id] /\ PriceHeld(p) \in Prices
<1>1. held[p] # None
  BY DEF Roles, Commands
<1>2. held[p] \in Rec
  BY <1>1 DEF Typed
<1> QED
  BY <1>1, <1>2, Records, OrderBookAssumption DEF PriceHeld

\* One caller moves, and what it becomes fits its role.
LEMMA RoleStep ==
  ASSUME Roles, NEW p \in Procs,
         \A q \in Procs \ {p} : pc'[q] = pc[q] /\ held'[q] = held[q] /\ found'[q] = found[q],
         p \in Orders => /\ pc'[p] \in {"new", "zadd", "rpush", "hset", "done"}
                         /\ held'[p] # None => held'[p] = Entry(p, 0),
         p \in Closers => pc'[p] \in {"new", "lrange", "lrem", "llen", "del", "zrem",
                                      "hdel", "refund", "done"},
         p \in Matchers => pc'[p] # "refund",
         held'[p] = None <=> pc'[p] \in {"new", "done", "read", "take"},
         pc'[p] = "lrem" => found'[p] # None /\ found'[p].id = held'[p].id,
         \A j \in Matchers \ {p} : queue'[j] = queue[j] /\ todo'[j] = todo[j],
         p \in Matchers =>
           /\ pc'[p] = "new" => queue'[p] = <<>>
           /\ pc'[p] = "read" =>
                \A o \in Orders : In(queue'[p], o) => PriceOf[o] \notin todo'[p]
  PROVE  Roles'
<1>1. \A o \in Orders : /\ pc'[o] \in {"new", "zadd", "rpush", "hset", "done"}
                        /\ held'[o] # None => held'[o] = Entry(o, 0)
  BY Members DEF Roles
<1>2. \A c \in Closers : pc'[c] \in {"new", "lrange", "lrem", "llen", "del", "zrem",
                                     "hdel", "refund", "done"}
  BY Members DEF Roles
<1>3. \A j \in Matchers : pc'[j] # "refund"
  BY Members DEF Roles
<1>4. \A q \in Procs : /\ held'[q] = None <=> pc'[q] \in {"new", "done", "read", "take"}
                       /\ pc'[q] = "lrem" => found'[q] # None /\ found'[q].id = held'[q].id
  BY DEF Roles
<1>5. \A j \in Matchers :
       /\ pc'[j] = "new" => queue'[j] = <<>>
       /\ pc'[j] = "read" => \A o \in Orders : In(queue'[j], o) => PriceOf[o] \notin todo'[j]
  BY Members DEF Roles
<1>6. \A j \in Matchers, o \in Orders : In(queue[j], o)' = In(queue'[j], o)
  BY DEF In
<1>7. \A o \in Orders : Entry(o, 0)' = Entry(o, 0)
  BY DEF Entry
<1> QED
  BY <1>1, <1>2, <1>3, <1>4, <1>5, <1>6, <1>7 DEF Roles, Entry, In

\* The changes of one caller, as functions.
LEMMA Moved ==
  ASSUME Typed, NEW p \in Procs, NEW l \in PcValues, Goto(p, l)
  PROVE  /\ pc' \in [Procs -> PcValues] /\ pc'[p] = l
         /\ \A q \in Procs \ {p} : pc'[q] = pc[q]
BY DEF Typed, Goto

LEMMA Handed ==
  ASSUME Typed, NEW p \in Procs, NEW e \in Rec \union {None}, held' = [held EXCEPT ![p] = e]
  PROVE  /\ held' \in [Procs -> Rec \union {None}] /\ held'[p] = e
         /\ \A q \in Procs \ {p} : held'[q] = held[q]
BY DEF Typed

\* A list changes: it still has orders of its price only.
LEMMA ListStep ==
  ASSUME Typed, NEW c \in Prices, NEW s \in Seq(Rec), list' = [list EXCEPT ![c] = s],
         \A o \in Orders : In(s, o) => PriceOf[o] = c
  PROVE  /\ list' \in [Prices -> Seq(Rec)]
         /\ (\A d \in Prices, o \in Orders : In(list[d], o) => PriceOf[o] = d)'
         /\ list'[c] = s
         /\ \A d \in Prices \ {c} : list'[d] = list[d]
<1>1. list' \in [Prices -> Seq(Rec)] /\ list'[c] = s /\ \A d \in Prices \ {c} : list'[d] = list[d]
  BY DEF Typed
<1>2. \A d \in Prices, o \in Orders : In(list'[d], o) => PriceOf[o] = d
  BY <1>1 DEF Typed
<1> QED
  BY <1>1, <1>2 DEF In

LEMMA PlaceTypes ==
  ASSUME Typed, Roles, NEW o \in Orders, Place(o)
  PROVE  Typed' /\ Roles'
<1>1. Entry(o, 0) \in Rec /\ Entry(o, 0) # None
  BY Records, OrderBookAssumption
<1>2. /\ held' \in [Procs -> Rec \union {None}] /\ held'[o] = Entry(o, 0)
      /\ \A q \in Procs \ {o} : held'[q] = held[q]
  BY <1>1, Handed, Members DEF Place
<1>3. /\ pc' \in [Procs -> PcValues] /\ pc'[o] = "zadd"
      /\ \A q \in Procs \ {o} : pc'[q] = pc[q]
  BY Moved, Members DEF Place, PcValues
<1>4. UNCHANGED <<levels, list, hash, found, todo, queue, left, traded, returned, faults,
                  contested, swept, cut>>
  BY DEF Place, store, matching, history
<1>5. Typed'
  BY <1>2, <1>3, <1>4 DEF Typed, In
<1>6. o \notin Closers /\ o \notin Matchers
  BY OrderBookAssumption
<1>7. Roles'
  BY <1>1, <1>2, <1>3, <1>4, <1>6, RoleStep, Members
<1> QED
  BY <1>5, <1>7

LEMMA PushTypes ==
  ASSUME Typed, Roles, NEW p \in Procs, Push(p)
  PROVE  Typed' /\ Roles'
<1>1. pc[p] \in {"zadd", "rpush", "hset"}
  BY DEF Push, ZAdd, RPush, HSet
<1> DEFINE e == held[p]
<1>2. /\ e # None /\ e \in Rec /\ e.id \in Orders /\ PriceHeld(p) = PriceOf[e.id]
      /\ PriceHeld(p) \in Prices
  BY <1>1, InCommand DEF Commands
<1>3. p \in Orders => e = Entry(p, 0)
  BY <1>2 DEF Roles
<1>4. p \notin Closers
  BY <1>1 DEF Roles
<1>5. UNCHANGED <<found, todo, queue, left, traded, returned, faults, contested, swept, cut>>
  BY DEF Push, ZAdd, RPush, HSet, store, matching, history
<1>6. CASE ZAdd(p)
  <2>1. UNCHANGED <<list, hash, held>> /\ levels' = levels \union {PriceHeld(p)}
    BY <1>6 DEF ZAdd
  <2>2. /\ pc' \in [Procs -> PcValues] /\ pc'[p] = "rpush"
        /\ \A q \in Procs \ {p} : pc'[q] = pc[q]
    BY <1>6, Moved DEF ZAdd, PcValues
  <2>3. Typed'
    BY <1>2, <1>5, <2>1, <2>2 DEF Typed, In
  <2>4. Roles'
    BY <1>2, <1>3, <1>4, <1>5, <2>1, <2>2, RoleStep
  <2> QED
    BY <2>3, <2>4
<1>7. CASE RPush(p)
  <2>1. /\ UNCHANGED <<levels, hash, held>>
        /\ list' = [list EXCEPT ![PriceHeld(p)] = Append(list[PriceHeld(p)], e)]
    BY <1>7 DEF RPush
  <2>2. /\ pc' \in [Procs -> PcValues] /\ pc'[p] = "hset"
        /\ \A q \in Procs \ {p} : pc'[q] = pc[q]
    BY <1>7, Moved DEF RPush, PcValues
  <2>3. list[PriceHeld(p)] \in Seq(Rec)
    BY <1>2 DEF Typed
  <2>4. /\ Append(list[PriceHeld(p)], e) \in Seq(Rec)
        /\ \A o \in Orders : In(Append(list[PriceHeld(p)], e), o) => PriceOf[o] = PriceHeld(p)
    <3>1. \A o \in Orders : In(Append(list[PriceHeld(p)], e), o) <=> In(list[PriceHeld(p)], o) \/ e.id = o
      BY <1>2, <2>3, Appended
    <3>2. Append(list[PriceHeld(p)], e) \in Seq(Rec)
      BY <1>2, <2>3, Appended
    <3> QED
      BY <1>2, <3>1, <3>2 DEF Typed
  <2>5. /\ list' \in [Prices -> Seq(Rec)]
        /\ (\A d \in Prices, o \in Orders : In(list[d], o) => PriceOf[o] = d)'
    BY <1>2, <2>1, <2>4, ListStep
  <2>6. Typed'
    BY <1>5, <2>1, <2>2, <2>5 DEF Typed
  <2>7. Roles'
    BY <1>2, <1>3, <1>4, <1>5, <2>1, <2>2, RoleStep
  <2> QED
    BY <2>6, <2>7
<1>8. CASE HSet(p)
  <2>1. /\ UNCHANGED <<levels, list>> /\ hash' = [hash EXCEPT ![e.id] = e]
        /\ held' = [held EXCEPT ![p] = None]
    BY <1>8 DEF HSet
  <2>2. /\ pc' \in [Procs -> PcValues] /\ pc'[p] = "done"
        /\ \A q \in Procs \ {p} : pc'[q] = pc[q]
    BY <1>8, Moved DEF HSet, PcValues
  <2>3. /\ held' \in [Procs -> Rec \union {None}] /\ held'[p] = None
        /\ \A q \in Procs \ {p} : held'[q] = held[q]
    BY <2>1, Handed
  <2>4. hash' \in [Orders -> Rec \union {None}] /\ \A o \in Orders : hash'[o] # None => hash'[o].id = o
    BY <1>2, <2>1 DEF Typed
  <2>5. Typed'
    BY <1>5, <2>1, <2>2, <2>3, <2>4 DEF Typed, In
  <2>6. Roles'
    BY <1>4, <1>5, <2>2, <2>3, RoleStep
  <2> QED
    BY <2>5, <2>6
<1> QED
  BY <1>6, <1>7, <1>8 DEF Push

LEMMA DeleteTypes ==
  ASSUME Typed, Roles, NEW p \in Procs, Delete(p)
  PROVE  Typed' /\ Roles'
<1>1. pc[p] \in {"lrange", "lrem", "llen", "del", "zrem", "hdel"}
  BY DEF Delete, LRange, LRem, LLen, Del, ZRem, HDel
<1> DEFINE e == held[p]
           c == PriceHeld(p)
<1>2. /\ e # None /\ e \in Rec /\ e.id \in Orders /\ c = PriceOf[e.id]
      /\ c \in Prices /\ list[c] \in Seq(Rec)
  <2>1. e # None /\ e \in Rec /\ e.id \in Orders /\ c = PriceOf[e.id] /\ c \in Prices
    BY <1>1, InCommand DEF Commands
  <2> QED
    BY <2>1 DEF Typed
<1>3. p \notin Orders
  BY <1>1 DEF Roles
<1>4. UNCHANGED <<todo, queue, left, traded, returned, faults, contested, cut>>
  BY DEF Delete, LRange, LRem, LLen, Del, ZRem, HDel, store, matching, history
<1> HIDE DEF e, c
<1>5. CASE LRange(p)
  <2>1. UNCHANGED <<levels, list, hash, held, swept>>
    BY <1>5 DEF LRange, store, history
  <2>2. CASE /\ Goto(p, "lrem")
             /\ \E i \in DOMAIN list[c] : /\ list[c][i].id = e.id
                                          /\ found' = [found EXCEPT ![p] = list[c][i]]
    <3>1. PICK i \in DOMAIN list[c] : /\ list[c][i].id = e.id
                                      /\ found' = [found EXCEPT ![p] = list[c][i]]
      BY <2>2
    <3>2. list[c][i] \in Rec
      BY <1>2
    <3>3. /\ found' \in [Procs -> Rec \union {None}] /\ found'[p] = list[c][i]
          /\ \A q \in Procs \ {p} : found'[q] = found[q]
      BY <3>1, <3>2 DEF Typed
    <3>4. /\ pc' \in [Procs -> PcValues] /\ pc'[p] = "lrem"
          /\ \A q \in Procs \ {p} : pc'[q] = pc[q]
      BY <2>2, Moved DEF PcValues
    <3>5. Typed'
      BY <1>4, <2>1, <3>3, <3>4 DEF Typed, In
    <3>6. found'[p] # None /\ found'[p].id = held'[p].id
      BY <2>1, <3>1, <3>2, <3>3, Records DEF e
    <3>7. Roles'
      BY <1>2, <1>3, <1>4, <2>1, <3>3, <3>4, <3>6, RoleStep DEF e
    <3> QED
      BY <3>5, <3>7
  <2>3. CASE Goto(p, "llen") /\ UNCHANGED found
    <3>1. /\ pc' \in [Procs -> PcValues] /\ pc'[p] = "llen"
          /\ \A q \in Procs \ {p} : pc'[q] = pc[q]
      BY <2>3, Moved DEF PcValues
    <3>2. Typed'
      BY <1>4, <2>1, <2>3, <3>1 DEF Typed, In
    <3>3. Roles'
      BY <1>2, <1>3, <1>4, <2>1, <2>3, <3>1, RoleStep DEF e
    <3> QED
      BY <3>2, <3>3
  <2> QED
    BY <1>5, <2>2, <2>3 DEF LRange, e, c
<1>6. CASE LRem(p)
  <2> DEFINE f == found[p]
  <2>1. f \in Rec
    BY <1>6 DEF LRem, Roles, Typed
  <2>2. /\ UNCHANGED <<levels, hash, held, swept>>
        /\ list' = [list EXCEPT ![c] = RemoveFirst(list[c], f)]
        /\ found' = [found EXCEPT ![p] = None]
    BY <1>6 DEF LRem, history, c
  <2> HIDE DEF f
  <2>3. /\ pc' \in [Procs -> PcValues] /\ pc'[p] = "llen"
        /\ \A q \in Procs \ {p} : pc'[q] = pc[q]
    BY <1>6, Moved DEF LRem, PcValues
  <2>4. RemoveFirst(list[c], f) \in Seq(Rec)
    <3>1. e.id \in Orders
      BY <1>2
    <3> QED
      BY <1>2, <2>1, Removed
  <2>5. \A o \in Orders : In(RemoveFirst(list[c], f), o) => In(list[c], o)
    BY <1>2, <2>1, Removed
  <2>6. /\ list' \in [Prices -> Seq(Rec)]
        /\ (\A d \in Prices, o \in Orders : In(list[d], o) => PriceOf[o] = d)'
    <3>1. \A o \in Orders : In(RemoveFirst(list[c], f), o) => PriceOf[o] = c
      BY <1>2, <2>5 DEF Typed
    <3> QED
      BY <1>2, <2>2, <2>4, <3>1, ListStep
  <2>7. /\ found' \in [Procs -> Rec \union {None}]
        /\ \A q \in Procs \ {p} : found'[q] = found[q]
    BY <2>2 DEF Typed
  <2>8. Typed'
    BY <1>4, <2>2, <2>3, <2>6, <2>7 DEF Typed
  <2>9. Roles'
    BY <1>2, <1>3, <1>4, <2>2, <2>3, <2>7, RoleStep DEF e
  <2> QED
    BY <2>8, <2>9
<1>7. CASE LLen(p)
  <2>1. UNCHANGED <<levels, list, hash, held, found, swept>>
    BY <1>7 DEF LLen, store, history
  <2>2. /\ pc' \in [Procs -> PcValues] /\ pc'[p] \in {"del", "hdel"}
        /\ \A q \in Procs \ {p} : pc'[q] = pc[q]
    BY <1>7, Moved DEF LLen, PcValues
  <2>3. Typed'
    BY <1>4, <2>1, <2>2 DEF Typed, In
  <2>4. Roles'
    BY <1>2, <1>3, <1>4, <2>1, <2>2, RoleStep DEF e
  <2> QED
    BY <2>3, <2>4
<1>8. CASE Del(p)
  <2>1. /\ UNCHANGED <<levels, hash, held, found>>
        /\ list' = [list EXCEPT ![c] = <<>>] /\ swept' = swept \union Listed(c)
    BY <1>8 DEF Del, c
  <2>2. /\ pc' \in [Procs -> PcValues] /\ pc'[p] = "zrem"
        /\ \A q \in Procs \ {p} : pc'[q] = pc[q]
    BY <1>8, Moved DEF Del, PcValues
  <2>3. /\ list' \in [Prices -> Seq(Rec)]
        /\ (\A d \in Prices, o \in Orders : In(list[d], o) => PriceOf[o] = d)'
    <3>1. <<>> \in Seq(Rec) /\ \A o \in Orders : In(<<>>, o) => PriceOf[o] = c
      BY DEF In
    <3> QED
      BY <1>2, <2>1, <3>1, ListStep
  <2>4. swept' \subseteq Orders
    <3>1. \A i \in DOMAIN list[c] : list[c][i] \in Rec
      BY <1>2
    <3> QED
      BY <2>1, <3>1, Records DEF Typed, Listed
  <2>5. Typed'
    BY <1>4, <2>1, <2>2, <2>3, <2>4 DEF Typed
  <2>6. Roles'
    BY <1>2, <1>3, <1>4, <2>1, <2>2, RoleStep DEF e
  <2> QED
    BY <2>5, <2>6
<1>9. CASE ZRem(p)
  <2>1. /\ UNCHANGED <<list, hash, held, found>>
        /\ levels' = levels \ {c}
        /\ swept' = swept \union Listed(c)
                      \union {held[q].id : q \in {q \in Procs : pc[q] = "rpush" /\ PriceHeld(q) = c}}
    BY <1>9 DEF ZRem, c
  <2>2. /\ pc' \in [Procs -> PcValues] /\ pc'[p] = "hdel"
        /\ \A q \in Procs \ {p} : pc'[q] = pc[q]
    BY <1>9, Moved DEF ZRem, PcValues
  <2>3. swept' \subseteq Orders
    <3>1. \A i \in DOMAIN list[c] : list[c][i] \in Rec
      BY <1>2
    <3>2. \A q \in Procs : pc[q] = "rpush" => held[q].id \in Orders
      BY InCommand DEF Commands
    <3> QED
      BY <2>1, <3>1, <3>2, Records DEF Typed, Listed
  <2>4. Typed'
    BY <1>4, <2>1, <2>2, <2>3 DEF Typed, In
  <2>5. Roles'
    BY <1>2, <1>3, <1>4, <2>1, <2>2, RoleStep DEF e
  <2> QED
    BY <2>4, <2>5
<1>10. CASE HDel(p)
  <2> DEFINE partly == p \in Matchers /\ e.filled < Size[e.id]
  <2>1. /\ UNCHANGED <<levels, list, found, swept>> /\ hash' = [hash EXCEPT ![e.id] = None]
        /\ held' = IF p \in Matchers /\ ~partly THEN [held EXCEPT ![p] = None] ELSE held
        /\ Goto(p, IF p \in Closers THEN "refund" ELSE IF partly THEN "zadd" ELSE "take")
    BY <1>10 DEF HDel, history, e
  <2> HIDE DEF partly
  <2>2. /\ pc' \in [Procs -> PcValues]
        /\ pc'[p] = IF p \in Closers THEN "refund" ELSE IF partly THEN "zadd" ELSE "take"
        /\ \A q \in Procs \ {p} : pc'[q] = pc[q]
    BY <2>1, Moved DEF PcValues
  <2>3. /\ held' \in [Procs -> Rec \union {None}]
        /\ held'[p] = IF p \in Matchers /\ ~partly THEN None ELSE e
        /\ \A q \in Procs \ {p} : held'[q] = held[q]
    <3>1. CASE p \in Matchers /\ ~partly
      BY <2>1, <3>1, Handed
    <3>2. CASE ~(p \in Matchers /\ ~partly)
      BY <2>1, <3>2 DEF Typed, e
    <3> QED
      BY <3>1, <3>2
  <2>4. hash' \in [Orders -> Rec \union {None}] /\ \A o \in Orders : hash'[o] # None => hash'[o].id = o
    BY <1>2, <2>1 DEF Typed
  <2>5. Typed'
    BY <1>4, <2>1, <2>2, <2>3, <2>4 DEF Typed, In
  <2>6. (p \in Closers /\ p \notin Matchers) \/ (p \notin Closers /\ p \in Matchers)
    BY <1>3, OrderBookAssumption DEF Procs
  <2>7. partly => p \in Matchers
    BY DEF partly
  <2>8. CASE p \in Closers
    <3>1. pc'[p] = "refund" /\ held'[p] = e /\ p \notin Matchers
      BY <2>2, <2>3, <2>6, <2>8
    <3> QED
      BY <1>2, <1>3, <1>4, <2>1, <2>2, <2>3, <2>5, <3>1, RoleStep
  <2>9. CASE p \in Matchers /\ partly
    <3>1. pc'[p] = "zadd" /\ held'[p] = e /\ p \notin Closers
      BY <2>2, <2>3, <2>6, <2>9
    <3> QED
      BY <1>2, <1>3, <1>4, <2>1, <2>2, <2>3, <2>5, <3>1, RoleStep
  <2>10. CASE p \in Matchers /\ ~partly
    <3>1. pc'[p] = "take" /\ held'[p] = None /\ p \notin Closers
      BY <2>2, <2>3, <2>6, <2>10
    <3> QED
      BY <1>2, <1>3, <1>4, <2>1, <2>2, <2>3, <2>5, <3>1, RoleStep
  <2> QED
    BY <2>6, <2>8, <2>9, <2>10
<1> QED
  BY <1>5, <1>6, <1>7, <1>8, <1>9, <1>10 DEF Delete

LEMMA FetchTypes ==
  ASSUME Typed, Roles, NEW c \in Closers, Fetch(c)
  PROVE  Typed' /\ Roles'
<1>1. /\ UNCHANGED <<levels, list, hash, found, todo, queue, left, traded, returned, faults,
                     swept, cut>>
      /\ pc[c] = "new"
  BY DEF Fetch, store, matching
<1>2. c \in Procs /\ c \notin Orders /\ c \notin Matchers
  BY OrderBookAssumption, Members
<1>3. held[c] = None
  BY <1>1, <1>2 DEF Roles
<1>4. CASE Goto(c, "done") /\ UNCHANGED <<held, contested>>
  <2>1. /\ pc' \in [Procs -> PcValues] /\ pc'[c] = "done"
        /\ \A q \in Procs \ {c} : pc'[q] = pc[q]
    BY <1>2, <1>4, Moved DEF PcValues
  <2>2. Typed'
    BY <1>1, <1>4, <2>1 DEF Typed, In
  <2>3. Roles'
    BY <1>1, <1>2, <1>3, <1>4, <2>1, RoleStep
  <2> QED
    BY <2>2, <2>3
<1>5. ASSUME NEW o \in Orders, hash[o] # None, held' = [held EXCEPT ![c] = hash[o]],
             contested' = contested \union Shared(c, {o}), Goto(c, "lrange")
      PROVE  Typed' /\ Roles'
  <2>1. /\ pc' \in [Procs -> PcValues] /\ pc'[c] = "lrange"
        /\ \A q \in Procs \ {c} : pc'[q] = pc[q]
    BY <1>2, <1>5, Moved DEF PcValues
  <2>2. hash[o] \in Rec
    BY <1>5 DEF Typed
  <2>3. /\ held' \in [Procs -> Rec \union {None}] /\ held'[c] = hash[o]
        /\ \A q \in Procs \ {c} : held'[q] = held[q]
    BY <1>2, <1>5, <2>2, Handed
  <2>4. contested' \subseteq Orders
    BY <1>5 DEF Typed, Shared
  <2>5. Typed'
    BY <1>1, <2>1, <2>3, <2>4 DEF Typed, In
  <2>6. Roles'
    BY <1>1, <1>2, <1>5, <2>1, <2>3, RoleStep
  <2> QED
    BY <2>5, <2>6
<1> QED
  BY <1>4, <1>5 DEF Fetch

LEMMA RefundTypes ==
  ASSUME Typed, Roles, NEW c \in Closers, Refund(c)
  PROVE  Typed' /\ Roles'
<1> DEFINE e == held[c]
<1>1. /\ UNCHANGED <<levels, list, hash, found, todo, queue, left, traded, faults,
                     contested, swept, cut>>
      /\ pc[c] = "refund" /\ held' = [held EXCEPT ![c] = None] /\ Goto(c, "done")
      /\ returned' = [returned EXCEPT ![e.id] = returned[e.id] + Size[e.id] - e.filled]
  BY DEF Refund, store, matching, history
<1>2. c \in Procs /\ c \notin Orders /\ c \notin Matchers
  BY OrderBookAssumption, Members
<1>3. /\ e # None /\ e \in Rec /\ e.id \in Orders
      /\ e.filled \in Nat /\ e.filled <= Size[e.id] /\ Size[e.id] \in Nat
  BY <1>1, <1>2, InCommand, OrderBookAssumption DEF Commands
<1> HIDE DEF e
<1>4. /\ pc' \in [Procs -> PcValues] /\ pc'[c] = "done"
      /\ \A q \in Procs \ {c} : pc'[q] = pc[q]
  BY <1>1, <1>2, Moved DEF PcValues
<1>5. /\ held' \in [Procs -> Rec \union {None}] /\ held'[c] = None
      /\ \A q \in Procs \ {c} : held'[q] = held[q]
  BY <1>1, <1>2, Handed
<1>6. returned' \in [Orders -> Nat]
  <2>1. returned[e.id] \in Nat /\ returned \in [Orders -> Nat]
    BY <1>3 DEF Typed
  <2>2. returned[e.id] + Size[e.id] - e.filled \in Nat
    BY <1>3, <2>1
  <2> QED
    BY <1>1, <1>3, <2>1, <2>2
<1>7. Typed'
  BY <1>1, <1>4, <1>5, <1>6 DEF Typed, In
<1>8. Roles'
  BY <1>1, <1>2, <1>4, <1>5, RoleStep
<1> QED
  BY <1>7, <1>8

LEMMA ReadTypes ==
  ASSUME Typed, Roles, NEW j \in Matchers, ReadLevels(j) \/ ReadList(j)
  PROVE  Typed' /\ Roles'
<1>1. UNCHANGED <<levels, list, hash, held, found, left, traded, returned, faults, swept, cut>>
  BY DEF ReadLevels, ReadList, store, history
<1>2. j \in Procs /\ j \notin Orders /\ j \notin Closers
  BY OrderBookAssumption, Members
<1>3. held[j] = None
  BY <1>2 DEF Roles, ReadLevels, ReadList
<1>4. CASE ReadLevels(j)
  <2>1. UNCHANGED <<queue, contested>> /\ todo' = [todo EXCEPT ![j] = levels] /\ pc[j] = "new"
    BY <1>4 DEF ReadLevels, history
  <2>2. /\ pc' \in [Procs -> PcValues] /\ pc'[j] \in {"done", "read"}
        /\ \A q \in Procs \ {j} : pc'[q] = pc[q]
    BY <1>2, <1>4, Moved DEF ReadLevels, PcValues
  <2>3. todo' \in [Matchers -> SUBSET Prices] /\ \A k \in Matchers \ {j} : todo'[k] = todo[k]
    BY <2>1 DEF Typed
  <2>4. Typed'
    BY <1>1, <2>1, <2>2, <2>3 DEF Typed, In
  <2>5. \A o \in Orders : ~ In(queue'[j], o)
    BY <2>1 DEF Roles, In
  <2>6. Roles'
    BY <1>1, <1>2, <1>3, <2>1, <2>2, <2>3, <2>5, RoleStep
  <2> QED
    BY <2>4, <2>6
<1>5. CASE ReadList(j)
  <2>1. PICK c \in todo[j] : /\ todo' = [todo EXCEPT ![j] = @ \ {c}]
                             /\ queue' = [queue EXCEPT ![j] = @ \o list[c]]
                             /\ contested' = contested \union Shared(j, Listed(c))
                             /\ Goto(j, IF todo[j] = {c} THEN "take" ELSE "read")
    BY <1>5 DEF ReadList
  <2>2. c \in Prices /\ list[c] \in Seq(Rec) /\ queue[j] \in Seq(Rec) /\ todo[j] \subseteq Prices
    BY DEF Typed
  <2>3. /\ pc' \in [Procs -> PcValues] /\ pc'[j] \in {"take", "read"}
        /\ \A q \in Procs \ {j} : pc'[q] = pc[q]
    BY <1>2, <2>1, Moved DEF PcValues
  <2>4. /\ todo' \in [Matchers -> SUBSET Prices] /\ todo'[j] = todo[j] \ {c}
        /\ \A k \in Matchers \ {j} : todo'[k] = todo[k]
    BY <2>1, <2>2 DEF Typed
  <2>5. \A o \in Orders : In(queue[j] \o list[c], o) <=> In(queue[j], o) \/ In(list[c], o)
    BY <2>2, Concatenated
  <2>6. queue[j] \o list[c] \in Seq(Rec)
    BY <2>2
  <2>7. /\ queue' \in [Matchers -> Seq(Rec)] /\ queue'[j] = queue[j] \o list[c]
        /\ \A k \in Matchers \ {j} : queue'[k] = queue[k]
    BY <2>1, <2>6 DEF Typed
  <2>8. contested' \subseteq Orders
    <3>1. \A i \in DOMAIN list[c] : list[c][i] \in Rec
      BY <2>2
    <3> QED
      BY <2>1, <3>1, Records DEF Typed, Shared, Listed
  <2>9. Typed'
    BY <1>1, <2>3, <2>4, <2>7, <2>8 DEF Typed, In
  <2>10. \A o \in Orders : In(queue'[j], o) => PriceOf[o] \notin todo'[j]
    <3> SUFFICES ASSUME NEW o \in Orders, In(queue'[j], o) PROVE PriceOf[o] \notin todo'[j]
      OBVIOUS
    <3>1. CASE In(queue[j], o)
      BY <1>5, <2>4, <3>1 DEF Roles, ReadList
    <3>2. CASE In(list[c], o)
      BY <2>2, <2>4, <3>2 DEF Typed
    <3> QED
      BY <2>5, <2>7, <3>1, <3>2
  <2>11. Roles'
    BY <1>1, <1>2, <1>3, <2>3, <2>4, <2>7, <2>10, RoleStep
  <2> QED
    BY <2>9, <2>11
<1> QED
  BY <1>4, <1>5

\* What the engine takes of an entry.
LEMMA TakeIs ==
  ASSUME Typed, Roles, NEW j \in Matchers, Take(j)
  PROVE  \/ /\ queue' = [queue EXCEPT ![j] = <<>>] /\ Goto(j, "done")
            /\ UNCHANGED <<held, left, traded>>
         \/ \E amount \in Nat :
              LET e == Head(queue[j]) IN
              /\ queue[j] # <<>> /\ e \in Rec /\ amount <= left[j]
              /\ e.filled + amount <= Size[e.id]
              /\ queue' = [queue EXCEPT ![j] = Tail(queue[j])]
              /\ left' = [left EXCEPT ![j] = left[j] - amount]
              /\ traded' = [traded EXCEPT ![e.id] = traded[e.id] + amount]
              /\ held' = [held EXCEPT ![j] = Entry(e.id, e.filled + amount)]
              /\ Goto(j, "lrange")
<1> DEFINE e == Head(queue[j])
           rest == Size[e.id] - e.filled
           amount == IF left[j] < rest THEN left[j] ELSE rest
<1>1. CASE queue[j] = <<>> \/ left[j] = 0
  BY <1>1 DEF Take, Typed
<1>2. CASE queue[j] # <<>> /\ left[j] > 0
  <2>1. queue[j] \in Seq(Rec) /\ left[j] \in Nat
    BY DEF Typed
  <2>2. e \in Rec
    BY <1>2, <2>1
  <2>3. e.id \in Orders /\ e.filled \in Nat /\ e.filled <= Size[e.id] /\ Size[e.id] \in Nat
    BY <2>2, Records, OrderBookAssumption
  <2>4. /\ queue' = [queue EXCEPT ![j] = Tail(queue[j])]
        /\ left' = [left EXCEPT ![j] = left[j] - amount]
        /\ traded' = [traded EXCEPT ![e.id] = traded[e.id] + amount]
        /\ held' = [held EXCEPT ![j] = Entry(e.id, e.filled + amount)]
        /\ Goto(j, "lrange")
    BY <1>2, <2>1 DEF Take
  <2> HIDE DEF e
  <2>5. amount \in Nat /\ amount <= left[j] /\ e.filled + amount <= Size[e.id]
    BY <2>1, <2>3
  <2> HIDE DEF amount
  <2> QED
    BY <1>2, <2>2, <2>4, <2>5 DEF e
<1> QED
  BY <1>1, <1>2 DEF Take

LEMMA TakeTypes ==
  ASSUME Typed, Roles, NEW j \in Matchers, Take(j)
  PROVE  Typed' /\ Roles'
<1>1. /\ UNCHANGED <<levels, list, hash, found, todo, returned, faults, contested, swept, cut>>
      /\ pc[j] = "take"
  BY DEF Take, store, history
<1>2. j \in Procs /\ j \notin Orders /\ j \notin Closers
  BY OrderBookAssumption, Members
<1>3. held[j] = None
  BY <1>1, <1>2 DEF Roles
<1>4. CASE /\ queue' = [queue EXCEPT ![j] = <<>>] /\ Goto(j, "done")
           /\ UNCHANGED <<held, left, traded>>
  <2>1. /\ pc' \in [Procs -> PcValues] /\ pc'[j] = "done"
        /\ \A q \in Procs \ {j} : pc'[q] = pc[q]
    BY <1>2, <1>4, Moved DEF PcValues
  <2>2. queue' \in [Matchers -> Seq(Rec)] /\ \A k \in Matchers \ {j} : queue'[k] = queue[k]
    BY <1>4 DEF Typed
  <2>3. Typed'
    BY <1>1, <1>4, <2>1, <2>2 DEF Typed, In
  <2>4. Roles'
    BY <1>1, <1>2, <1>3, <1>4, <2>1, <2>2, RoleStep
  <2> QED
    BY <2>3, <2>4
<1> DEFINE e == Head(queue[j])
<1>5. ASSUME NEW amount \in Nat, queue[j] # <<>>, e \in Rec, amount <= left[j],
             e.filled + amount <= Size[e.id],
             queue' = [queue EXCEPT ![j] = Tail(queue[j])],
             left' = [left EXCEPT ![j] = left[j] - amount],
             traded' = [traded EXCEPT ![e.id] = traded[e.id] + amount],
             held' = [held EXCEPT ![j] = Entry(e.id, e.filled + amount)],
             Goto(j, "lrange")
      PROVE  Typed' /\ Roles'
  <2>1. /\ pc' \in [Procs -> PcValues] /\ pc'[j] = "lrange"
        /\ \A q \in Procs \ {j} : pc'[q] = pc[q]
    BY <1>2, <1>5, Moved DEF PcValues
  <2>2. queue[j] \in Seq(Rec) /\ left[j] \in Nat
    BY DEF Typed
  <2>3. Tail(queue[j]) \in Seq(Rec)
    BY <1>5, <2>2
  <2>4. queue' \in [Matchers -> Seq(Rec)] /\ \A k \in Matchers \ {j} : queue'[k] = queue[k]
    BY <1>5, <2>3 DEF Typed
  <2>5. e.id \in Orders /\ e.filled \in Nat
    BY <1>5, Records
  <2> HIDE DEF e
  <2>6. left[j] - amount \in Nat
    BY <1>5, <2>2
  <2>7. left' \in [Matchers -> Nat]
    BY <1>5, <2>6 DEF Typed
  <2>8. traded' \in [Orders -> Nat]
    <3>1. traded[e.id] \in Nat
      BY <2>5 DEF Typed
    <3>2. traded[e.id] + amount \in Nat
      BY <3>1
    <3> QED
      BY <1>5, <2>5, <3>2 DEF Typed
  <2>9. Entry(e.id, e.filled + amount) \in Rec
    <3>1. e.filled + amount \in Nat
      BY <2>5
    <3> QED
      BY <1>5, <2>5, <3>1, Records
  <2>10. /\ held' \in [Procs -> Rec \union {None}] /\ held'[j] # None
         /\ \A q \in Procs \ {j} : held'[q] = held[q]
    <3>1. /\ held' \in [Procs -> Rec \union {None}] /\ held'[j] = Entry(e.id, e.filled + amount)
          /\ \A q \in Procs \ {j} : held'[q] = held[q]
      BY <1>2, <1>5, <2>9, Handed
    <3> QED
      BY <2>9, <3>1, Records
  <2>11. Typed'
    BY <1>1, <2>1, <2>4, <2>7, <2>8, <2>10 DEF Typed, In
  <2>12. Roles'
    BY <1>1, <1>2, <2>1, <2>4, <2>10, RoleStep
  <2> QED
    BY <2>11, <2>12
<1> HIDE DEF e
<1> QED
  BY <1>4, <1>5, TakeIs DEF e

LEMMA CrashTypes ==
  ASSUME Typed, Roles, Crash
  PROVE  Typed' /\ Roles'
<1>1. PICK callers \in {Orders \union Matchers, Closers} :
        LET dead == {p \in callers : pc[p] \notin {"new", "done"}} IN
        /\ faults < MaxFaults
        /\ faults' = faults + 1
        /\ cut' = cut \union {held[p].id : p \in {q \in dead : held[q] # None}}
        /\ pc' = [p \in Procs |-> IF p \in dead THEN "done" ELSE pc[p]]
        /\ held' = [p \in Procs |-> IF p \in dead THEN None ELSE held[p]]
        /\ found' = [p \in Procs |-> IF p \in dead THEN None ELSE found[p]]
        /\ UNCHANGED <<store, matching, traded, returned, contested, swept>>
  BY DEF Crash
<1> DEFINE dead == {p \in callers : pc[p] \notin {"new", "done"}}
<1>2. /\ UNCHANGED <<levels, list, hash, todo, queue, left, traded, returned, contested, swept>>
      /\ faults < MaxFaults /\ faults' = faults + 1
      /\ cut' = cut \union {held[p].id : p \in {q \in dead : held[q] # None}}
      /\ pc' = [p \in Procs |-> IF p \in dead THEN "done" ELSE pc[p]]
      /\ held' = [p \in Procs |-> IF p \in dead THEN None ELSE held[p]]
      /\ found' = [p \in Procs |-> IF p \in dead THEN None ELSE found[p]]
  BY <1>1 DEF store, matching
<1>3. dead \subseteq Procs
  BY DEF Procs
<1> HIDE DEF dead
<1>4. /\ pc' \in [Procs -> PcValues] /\ held' \in [Procs -> Rec \union {None}]
      /\ found' \in [Procs -> Rec \union {None}]
  BY <1>2 DEF Typed, PcValues
<1>5. faults' \in 0 .. MaxFaults
  BY <1>2, OrderBookAssumption DEF Typed
<1>6. cut' \subseteq Orders
  <2>1. \A p \in dead : held[p] # None => held[p].id \in Orders
    BY <1>3, Records DEF Typed
  <2> QED
    BY <1>2, <2>1 DEF Typed
<1>7. Typed'
  BY <1>2, <1>4, <1>5, <1>6 DEF Typed, In
<1>8. \A p \in Procs : \/ pc'[p] = "done" /\ held'[p] = None
                       \/ pc'[p] = pc[p] /\ held'[p] = held[p] /\ found'[p] = found[p]
  BY <1>2
<1>9. Roles'
  <2>1. \A o \in Orders : /\ pc'[o] \in {"new", "zadd", "rpush", "hset", "done"}
                          /\ held'[o] # None => held'[o] = Entry(o, 0)
    BY <1>8, Members DEF Roles
  <2>2. \A c \in Closers : pc'[c] \in {"new", "lrange", "lrem", "llen", "del", "zrem",
                                     "hdel", "refund", "done"}
    BY <1>8, Members DEF Roles
  <2>3. \A j \in Matchers : pc'[j] # "refund"
    BY <1>8, Members DEF Roles
  <2>4. \A q \in Procs : /\ held'[q] = None <=> pc'[q] \in {"new", "done", "read", "take"}
                         /\ pc'[q] = "lrem" => found'[q] # None /\ found'[q].id = held'[q].id
    BY <1>8 DEF Roles
  <2>5. \A j \in Matchers :
         /\ pc'[j] = "new" => queue'[j] = <<>>
         /\ pc'[j] = "read" => \A o \in Orders : In(queue'[j], o) => PriceOf[o] \notin todo'[j]
    BY <1>2, <1>8, Members DEF Roles
  <2> QED
    BY <2>1, <2>2, <2>3, <2>4, <2>5 DEF Roles, Entry, In
<1> QED
  BY <1>7, <1>9

-----------------------------------------------------------------------------
(***************************************************************************)
(* The story of a clean order, step by step.                               *)
(***************************************************************************)

\* The caller that has the order moves on with it, or lets it go.
LEMMA OwnStory ==
  ASSUME Typed, Roles, NEW p \in Procs, NEW o \in Orders, Story(o), Has(p, o),
         \A q \in Procs \ {p} : pc'[q] = pc[q] /\ held'[q] = held[q] /\ found'[q] = found[q],
         UNCHANGED queue,
         held'[p] = held[p] \/ held'[p] = None,
         Once(At(o), o)',
         p = o /\ pc'[p] \in {"new", "zadd", "rpush"} =>
           hash'[o] = None /\ ~ In(At(o), o)' /\ Booked(o)' = 0,
         held'[p] = held[p] => Fits(p, o)',
         held'[p] = None => /\ Only(At(o)', o, hash'[o])
                            /\ Booked(o)' = IF hash'[o] = None THEN Size[o] ELSE hash'[o].filled
  PROVE  Story(o)'
<1>1. /\ \A q \in Procs \ {p} : ~ Works(q, o) /\ ~ Has(q, o) /\ ~ Lined(q, o)
      /\ p # o => pc[o] \notin {"new", "zadd", "rpush"}
      /\ \A j \in Matchers : pc[j] # "done" => ~ In(queue[j], o)
  BY Alone
<1>2. held[p] # None /\ pc[p] # "done"
  BY DEF Has, Roles
<1>3. \A q \in Procs \ {p} : ~ Has(q, o)'
  BY <1>1 DEF Has
<1>4. \A j \in Matchers : pc'[j] # "done" => ~ In(queue'[j], o)
  BY <1>1, <1>2, Members
<1>5. \A q \in Procs : ~ Lined(q, o)'
  BY <1>4 DEF Lined, In
<1>6. OneWorker(o)'
  <2>1. \A q \in Procs : Works(q, o)' => q = p
    BY <1>3, <1>5 DEF Works
  <2>2. \A j \in Matchers : pc'[j] # "done" => Once(queue[j], o)'
    BY <1>4 DEF Once, In
  <2> QED
    BY <2>1, <2>2, <1>5 DEF OneWorker
<1>7. Early(o)'
  <2>1. \A q \in Procs \ {p} : ~ Works(q, o)'
    BY <1>3, <1>5 DEF Works
  <2>2. p # o => pc'[o] \notin {"new", "zadd", "rpush"}
    BY <1>1, Members
  <2> QED
    BY <2>1, <2>2 DEF Early
<1>8. InHand(o)'
  <2>1. Has(p, o)' => held'[p] = held[p]
    BY <1>2 DEF Has
  <2> QED
    BY <1>3, <2>1 DEF InHand
<1>9. InLine(o)'
  BY <1>4 DEF InLine, Only, In
<1>10. AtRest(o)'
  <2>1. held'[p] = held[p] => Has(p, o)'
    BY DEF Has
  <2> QED
    BY <2>1 DEF AtRest, Only
<1> QED
  BY <1>6, <1>7, <1>8, <1>9, <1>10 DEF Story

LEMMA PushStory ==
  ASSUME Typed, Roles, NEW p \in Procs, Push(p), NEW o \in Orders, Story(o)
  PROVE  Story(o)'
<1>1. pc[p] \in {"zadd", "rpush", "hset"}
  BY DEF Push, ZAdd, RPush, HSet
<1> DEFINE e == held[p]
           c == PriceHeld(p)
<1>2. /\ e # None /\ e \in Rec /\ e.id \in Orders /\ c = PriceOf[e.id]
      /\ c \in Prices
  BY <1>1, InCommand DEF Commands
<1>3. /\ UNCHANGED <<found, queue, traded, returned>>
      /\ \A q \in Procs \ {p} : held'[q] = held[q]
      /\ list' = [list EXCEPT ![c] = Append(list[c], e)] \/ list' = list
      /\ \A r \in Orders : r # e.id => hash'[r] = hash[r]
      /\ Booked(o)' = Booked(o)
  BY DEF Push, ZAdd, RPush, HSet, store, matching, history, Typed, Booked
<1>4. \A q \in Procs \ {p} : pc'[q] = pc[q]
  BY DEF Push, ZAdd, RPush, HSet, Goto, Typed
<1>5. held'[p] = held[p] \/ held'[p] = None
  BY DEF Push, ZAdd, RPush, HSet, Typed
<1>6. list \in [Prices -> Seq(Rec)] /\ list[c] \in Seq(Rec) /\ list[PriceOf[o]] \in Seq(Rec)
  BY <1>2, OrderBookAssumption DEF Typed
<1> HIDE DEF e, c
<1>7. CASE o # e.id
  <2>1. NoMore(list[PriceOf[o]], list'[PriceOf[o]], o)
    <3>1. CASE list' = list
      BY <3>1, NoMoreSame
    <3>2. CASE list' = [list EXCEPT ![c] = Append(list[c], e)]
      <4>1. CASE c = PriceOf[o]
        <5>1. list'[PriceOf[o]] = Append(list[c], e)
          BY <1>2, <1>6, <3>2, <4>1
        <5>2. /\ In(Append(list[c], e), o) <=> In(list[c], o) \/ e.id = o
              /\ Once(list[c], o) => Once(Append(list[c], e), o)
              /\ \A x : Only(list[c], o, x) => Only(Append(list[c], e), o, x)
          BY <1>2, <1>6, <1>7, Appended
        <5> QED
          BY <1>7, <4>1, <5>1, <5>2 DEF NoMore
      <4>2. CASE c # PriceOf[o]
        <5>1. list'[PriceOf[o]] = list[PriceOf[o]]
          BY <1>6, <3>2, <4>2, OrderBookAssumption
        <5> QED
          BY <5>1, NoMoreSame
      <4> QED
        BY <4>1, <4>2
    <3> QED
      BY <1>3, <3>1, <3>2
  <2>2. Apart(o)
    BY <1>2, <1>3, <1>4, <1>5, <1>7, <2>1, OthersApart DEF e
  <2> QED
    BY <2>2, ApartStory
<1>8. CASE o = e.id
  <2>1. Has(p, o) /\ Fits(p, o) /\ Once(At(o), o) /\ c = PriceOf[o]
    BY <1>2, <1>8 DEF Has, Story, InHand, OneWorker, e
  <2>2. p = o /\ pc[p] # "hset" => Booked(o) = 0
    BY <1>1, <2>1 DEF Story, Early
  <2>3. CASE ZAdd(p)
    <3>1. UNCHANGED <<list, hash, held>> /\ pc'[p] = "rpush"
      BY <2>3 DEF ZAdd, Goto, Typed
    <3>2. hash'[o] = None /\ ~ In(At(o), o)' /\ Once(At(o), o)'
      BY <2>1, <2>3, <3>1 DEF Fits, ZAdd, At, In, Once
    <3>3. Fits(p, o)'
      BY <1>3, <2>1, <3>1, <3>2 DEF Fits
    <3>4. held'[p] # None
      BY <1>2, <3>1 DEF e
    <3>5. p = o => Booked(o)' = 0
      BY <1>3, <2>2, <2>3 DEF ZAdd
    <3> QED
      BY <1>3, <1>4, <1>5, <2>1, <3>2, <3>3, <3>4, <3>5, OwnStory
  <2>4. CASE RPush(p)
    <3>1. /\ UNCHANGED <<hash, held>> /\ pc'[p] = "hset" /\ pc[p] = "rpush"
          /\ list' = [list EXCEPT ![c] = Append(list[c], e)]
      BY <2>4 DEF RPush, Goto, Typed, e, c
    <3>2. ~ In(list[c], o) /\ hash[o] = None
      BY <2>1, <3>1 DEF Fits, At
    <3>3. At(o)' = Append(list[c], e)
      BY <1>2, <1>6, <2>1, <3>1 DEF At
    <3>4. Once(Append(list[c], e), o) /\ Only(Append(list[c], e), o, e)
      BY <1>2, <1>6, <3>2, Appended
    <3>5. Once(At(o), o)'
      BY <3>3, <3>4 DEF Once
    <3>6. Only(At(o), o, held[p])'
      BY <3>1, <3>3, <3>4 DEF Only, e
    <3>7. Fits(p, o)'
      BY <1>3, <2>1, <3>1, <3>2, <3>6 DEF Fits
    <3>8. held'[p] # None
      BY <1>2, <3>1 DEF e
    <3> QED
      BY <1>3, <1>4, <1>5, <2>1, <3>1, <3>5, <3>7, <3>8, OwnStory
  <2>5. CASE HSet(p)
    <3>1. UNCHANGED list /\ pc'[p] = "done" /\ pc[p] = "hset" /\ held'[p] = None /\ hash'[o] = e
      BY <1>2, <1>8, <2>5 DEF HSet, Goto, Typed, e
    <3>2. Once(At(o), o)'
      BY <2>1, <3>1 DEF At, Once
    <3>3. Only(At(o)', o, hash'[o])
      BY <2>1, <3>1 DEF Fits, At, e
    <3>4. Booked(o)' = hash'[o].filled /\ hash'[o] # None
      BY <1>2, <1>3, <2>1, <3>1 DEF Fits, e
    <3>5. held'[p] # held[p]
      BY <1>2, <3>1 DEF e
    <3> QED
      BY <1>3, <1>4, <1>5, <2>1, <3>1, <3>2, <3>3, <3>4, <3>5, OwnStory
  <2> QED
    BY <2>3, <2>4, <2>5 DEF Push
<1> QED
  BY <1>7, <1>8

LEMMA DeleteStory ==
  ASSUME Typed, Roles, NEW p \in Procs, Delete(p), NEW o \in Orders, Story(o)
  PROVE  Story(o)'
<1>1. pc[p] \in {"lrange", "lrem", "llen", "del", "zrem", "hdel"}
  BY DEF Delete, LRange, LRem, LLen, Del, ZRem, HDel
<1> DEFINE e == held[p]
           c == PriceHeld(p)
<1>2. /\ e # None /\ e \in Rec /\ e.id \in Orders /\ c = PriceOf[e.id]
      /\ c \in Prices /\ e.filled \in Nat /\ e.filled <= Size[e.id]
  BY <1>1, InCommand DEF Commands
<1>3. p \notin Orders
  BY <1>1 DEF Roles
<1>4. /\ UNCHANGED <<queue, traded, returned>>
      /\ \A q \in Procs \ {p} : held'[q] = held[q] /\ found'[q] = found[q]
      /\ \/ list' = list
         \/ list' = [list EXCEPT ![c] = <<>>]
         \/ /\ pc[p] = "lrem" /\ list' = [list EXCEPT ![c] = RemoveFirst(list[c], found[p])]
      /\ \A r \in Orders : r # e.id => hash'[r] = hash[r]
      /\ Booked(o)' = Booked(o)
  BY DEF Delete, LRange, LRem, LLen, Del, ZRem, HDel, store, matching, history, Typed, Booked
<1>5. \A q \in Procs \ {p} : pc'[q] = pc[q]
  BY DEF Delete, LRange, LRem, LLen, Del, ZRem, HDel, Goto, Typed
<1>6. held'[p] = held[p] \/ held'[p] = None
  BY DEF Delete, LRange, LRem, LLen, Del, ZRem, HDel, Typed
<1>7. /\ list \in [Prices -> Seq(Rec)] /\ list[c] \in Seq(Rec) /\ list[PriceOf[o]] \in Seq(Rec)
      /\ PriceOf[o] \in Prices
  BY <1>2, OrderBookAssumption DEF Typed
<1>8. pc[p] = "lrem" => found[p] \in Rec /\ found[p].id = e.id
  BY DEF Roles, Typed
<1> HIDE DEF e, c
<1>9. CASE o # e.id
  <2>1. NoMore(list[PriceOf[o]], list'[PriceOf[o]], o)
    <3>1. CASE list'[PriceOf[o]] = list[PriceOf[o]]
      BY <3>1, NoMoreSame
    <3>2. CASE list' = [list EXCEPT ![c] = <<>>] /\ c = PriceOf[o]
      <4>1. list'[PriceOf[o]] = <<>>
        BY <1>7, <3>2
      <4> QED
        BY <4>1, NoMoreEmpty
    <3>3. CASE /\ pc[p] = "lrem" /\ list' = [list EXCEPT ![c] = RemoveFirst(list[c], found[p])]
               /\ c = PriceOf[o]
      <4>1. list'[PriceOf[o]] = RemoveFirst(list[c], found[p])
        BY <1>7, <3>3
      <4>2. /\ In(RemoveFirst(list[c], found[p]), o) => In(list[c], o)
            /\ Once(list[c], o) => Once(RemoveFirst(list[c], found[p]), o)
            /\ \A x : Only(list[c], o, x) => Only(RemoveFirst(list[c], found[p]), o, x)
        BY <1>7, <1>8, <3>3, Removed
      <4> QED
        BY <3>3, <4>1, <4>2 DEF NoMore
    <3>4. c # PriceOf[o] => list'[PriceOf[o]] = list[PriceOf[o]]
      BY <1>4, <1>7
    <3> QED
      BY <1>4, <3>1, <3>2, <3>3, <3>4
  <2>2. Apart(o)
    BY <1>2, <1>4, <1>5, <1>6, <1>9, <2>1, OthersApart DEF e
  <2> QED
    BY <2>2, ApartStory
<1>10. CASE o = e.id
  <2>1. Has(p, o) /\ Fits(p, o) /\ Once(At(o), o) /\ c = PriceOf[o] /\ p # o
    BY <1>2, <1>3, <1>10 DEF Has, Story, InHand, OneWorker, e
  <2>2. CASE LRange(p)
    <3>1. UNCHANGED <<list, hash, held>> /\ pc[p] = "lrange"
      BY <2>2 DEF LRange, store
    <3>2. Once(At(o), o)' /\ Only(At(o), o, hash[o]) /\ hash[o] # None
      BY <2>1, <3>1 DEF At, Once, Fits
    <3>3. CASE /\ Goto(p, "lrem")
               /\ \E i \in DOMAIN list[c] : /\ list[c][i].id = o
                                            /\ found' = [found EXCEPT ![p] = list[c][i]]
      <4>1. PICK i \in DOMAIN list[c] : /\ list[c][i].id = o
                                        /\ found' = [found EXCEPT ![p] = list[c][i]]
        BY <3>3
      <4>2. pc'[p] = "lrem" /\ found'[p] = hash[o]
        BY <2>1, <3>2, <3>3, <4>1 DEF Goto, Typed, Only, At
      <4>3. Only(At(o), o, hash[o])' /\ Only(At(o), o, found[p])'
        BY <3>1, <3>2, <4>2 DEF Only, At
      <4>4. Fits(p, o)'
        BY <1>4, <2>1, <3>1, <3>2, <4>2, <4>3 DEF Fits
      <4> QED
        BY <1>2, <1>4, <1>5, <2>1, <3>1, <3>2, <4>4, OwnStory DEF e
    <3>4. CASE Goto(p, "llen") /\ {i \in DOMAIN list[c] : list[c][i].id = o} = {}
      <4>1. pc'[p] = "llen" /\ ~ In(At(o), o)'
        BY <2>1, <3>1, <3>4 DEF Goto, Typed, In, At
      <4>2. Fits(p, o)'
        BY <1>4, <2>1, <3>1, <3>2, <4>1 DEF Fits
      <4> QED
        BY <1>2, <1>4, <1>5, <2>1, <3>1, <3>2, <4>2, OwnStory DEF e
    <3> QED
      BY <1>10, <2>2, <3>3, <3>4 DEF LRange, e, c
  <2>3. CASE LRem(p)
    <3>1. /\ UNCHANGED <<hash, held>> /\ pc[p] = "lrem" /\ pc'[p] = "llen"
          /\ list' = [list EXCEPT ![c] = RemoveFirst(list[c], found[p])]
      BY <2>3 DEF LRem, Goto, Typed, c
    <3>2. Only(list[c], o, found[p]) /\ Once(list[c], o) /\ hash[o] # None
      BY <2>1, <3>1 DEF Fits, At
    <3>3. At(o)' = RemoveFirst(list[c], found[p])
      BY <1>7, <2>1, <3>1 DEF At
    <3>4. ~ In(RemoveFirst(list[c], found[p]), o)
      BY <1>7, <1>8, <3>1, <3>2, Removed
    <3>5. ~ In(At(o), o)' /\ Once(At(o), o)'
      BY <3>3, <3>4 DEF In, Once
    <3>6. Fits(p, o)'
      BY <1>4, <2>1, <3>1, <3>2, <3>5 DEF Fits
    <3> QED
      BY <1>2, <1>4, <1>5, <2>1, <3>1, <3>5, <3>6, OwnStory DEF e
  <2>4. CASE LLen(p) \/ Del(p) \/ ZRem(p)
    <3>1. /\ UNCHANGED <<hash, held>> /\ pc[p] \in {"llen", "del", "zrem"}
          /\ pc'[p] \in {"del", "zrem", "hdel"}
          /\ list' = list \/ list' = [list EXCEPT ![c] = <<>>]
      BY <2>4 DEF LLen, Del, ZRem, Goto, Typed, store, c
    <3>2. ~ In(list[c], o) /\ hash[o] # None
      BY <2>1, <3>1 DEF Fits, At
    <3>3. At(o)' = list[c] \/ At(o)' = <<>>
      BY <1>7, <2>1, <3>1 DEF At
    <3>4. ~ In(At(o), o)' /\ Once(At(o), o)'
      BY <3>2, <3>3 DEF In, Once
    <3>5. Fits(p, o)'
      BY <1>4, <2>1, <3>1, <3>2, <3>4 DEF Fits
    <3> QED
      BY <1>2, <1>4, <1>5, <2>1, <3>1, <3>4, <3>5, OwnStory DEF e
  <2>5. CASE HDel(p)
    <3> DEFINE partly == p \in Matchers /\ e.filled < Size[o]
    <3>1. /\ UNCHANGED list /\ pc[p] = "hdel" /\ hash'[o] = None
          /\ held'[p] = IF p \in Matchers /\ ~partly THEN None ELSE held[p]
          /\ pc'[p] = IF p \in Closers THEN "refund" ELSE IF partly THEN "zadd" ELSE "take"
      BY <1>2, <1>10, <2>5 DEF HDel, Goto, Typed, e
    <3>2. ~ In(At(o), o)' /\ Once(At(o), o)'
      BY <2>1, <3>1 DEF Fits, At, In, Once
    <3>3. Booked(o)' = e.filled
      BY <1>4, <2>1 DEF Fits, e
    <3>4. (p \in Closers /\ p \notin Matchers) \/ (p \in Matchers /\ p \notin Closers)
      BY <1>3, OrderBookAssumption DEF Procs
    <3>5. CASE p \in Matchers /\ ~partly
      <4>1. e.filled = Size[o]
        BY <1>2, <1>10, <3>5, OrderBookAssumption
      <4>2. held'[p] = None /\ Only(At(o)', o, hash'[o])
        BY <3>1, <3>2, <3>5 DEF Only, In
      <4> QED
        BY <1>2, <1>4, <1>5, <2>1, <3>1, <3>2, <3>3, <4>1, <4>2, OwnStory DEF e
    <3>6. CASE ~ (p \in Matchers /\ ~partly)
      <4>1. held'[p] = held[p] /\ pc'[p] \in {"refund", "zadd"}
        BY <3>1, <3>4, <3>6
      <4>2. Fits(p, o)'
        BY <3>1, <3>2, <3>3, <4>1 DEF Fits, e
      <4> QED
        BY <1>2, <1>4, <1>5, <2>1, <3>2, <4>1, <4>2, OwnStory DEF e
    <3> QED
      BY <3>5, <3>6
  <2> QED
    BY <2>2, <2>3, <2>4, <2>5 DEF Delete
<1> QED
  BY <1>9, <1>10

\* A caller takes up an order nobody works with.
LEMMA TakenUp ==
  ASSUME NEW p \in Procs, NEW o \in Orders,
         \A q \in Procs \ {p} : ~ Works(q, o)',
         \A j \in Matchers : pc'[j] # "done" => ~ In(queue'[j], o),
         Has(p, o)', Fits(p, o)', Once(At(o), o)',
         pc'[o] \in {"new", "zadd", "rpush"} =>
           p = o /\ hash'[o] = None /\ ~ In(At(o), o)' /\ Booked(o)' = 0
  PROVE  Story(o)'
<1>1. \A q \in Procs : ~ Lined(q, o)'
  BY DEF Lined, In
<1>2. \A q \in Procs \ {p} : ~ Has(q, o)'
  BY DEF Works
<1>3. OneWorker(o)'
  BY <1>1 DEF OneWorker, Once, In
<1>4. Early(o)'
  BY DEF Early
<1>5. InHand(o)'
  BY <1>2 DEF InHand
<1>6. InLine(o)'
  BY DEF InLine, Only, In
<1>7. AtRest(o)'
  BY DEF AtRest
<1> QED
  BY <1>3, <1>4, <1>5, <1>6, <1>7 DEF Story

LEMMA PlaceStory ==
  ASSUME Typed, Roles, NEW o \in Orders, Place(o), NEW r \in Orders, Story(r)
  PROVE  Story(r)'
<1>1. /\ UNCHANGED <<list, hash, found, queue, traded, returned>> /\ pc[o] = "new"
      /\ held'[o] = Entry(o, 0) /\ pc'[o] = "zadd"
      /\ \A q \in Procs \ {o} : held'[q] = held[q] /\ pc'[q] = pc[q]
  BY Members DEF Place, Goto, Typed, store, matching
<1>2. held[o] = None /\ Entry(o, 0).id = o /\ Entry(o, 0) # None /\ Entry(o, 0).filled = 0
  BY <1>1, Members, Records, OrderBookAssumption DEF Roles
<1>3. CASE r # o
  <2>1. \A q \in Procs : \/ held'[q] = held[q] /\ pc'[q] = pc[q] /\ found'[q] = found[q]
                         \/ ~ Has(q, r) /\ ~ Has(q, r)'
    BY <1>1, <1>2, <1>3 DEF Has
  <2>2. \A j \in Matchers : pc'[j] = pc[j]
    BY <1>1, Members, OrderBookAssumption
  <2>3. pc'[r] = pc[r]
    BY <1>1, <1>3, Members
  <2>4. Apart(r)
    BY <1>1, <2>1, <2>2, <2>3, NoMoreSame DEF Apart
  <2> QED
    BY <2>4, ApartStory
<1>4. CASE r = o
  <2>1. /\ hash[o] = None /\ ~ In(At(o), o) /\ Booked(o) = 0
        /\ \A q \in Procs \ {o} : ~ Works(q, o)
    BY <1>1, <1>4 DEF Story, Early
  <2>2. \A q \in Procs \ {o} : ~ Works(q, o)'
    BY <1>1, <2>1 DEF Works, Has, Lined, In
  <2>3. \A j \in Matchers : pc'[j] # "done" => ~ In(queue'[j], o)
    <3>1. \A j \in Matchers : j # o
      BY OrderBookAssumption
    <3> QED
      BY <1>1, <2>1, <3>1, Members DEF Works, Lined
  <2>4. hash'[o] = None /\ ~ In(At(o), o)' /\ Booked(o)' = 0 /\ Once(At(o), o)'
    BY <1>1, <2>1 DEF Booked, At, In, Once
  <2>5. Has(o, o)' /\ Fits(o, o)'
    BY <1>1, <1>2, <2>4 DEF Has, Fits
  <2> QED
    BY <1>4, <2>2, <2>3, <2>4, <2>5, Members, TakenUp
<1> QED
  BY <1>3, <1>4

\* Who takes up an order that is not contested is alone with it.
LEMMA Unshared ==
  ASSUME Typed, Roles, NEW p \in Procs, p \notin Orders, NEW o \in Orders, Story(o),
         NEW S, o \in S, o \notin Shared(p, S),
         In(At(o), o) \/ hash[o] # None
  PROVE  pc[o] = "done" /\ \A q \in Procs \ {p} : ~ Works(q, o)
<1>1. \A q \in Procs \ {p} : ~ Holds(q, o)
  BY DEF Shared
<1>2. pc[o] \notin {"new", "zadd", "rpush"}
  BY DEF Story, Early
<1>3. pc[o] # "hset"
  BY <1>1, Members DEF Holds
<1>4. pc[o] = "done"
  BY <1>2, <1>3 DEF Roles
<1>5. ASSUME NEW q \in Procs \ {p} PROVE ~ Works(q, o)
  <2>1. CASE q \in Orders
    <3>1. q \notin Matchers
      BY <2>1, OrderBookAssumption
    <3>2. Has(q, o) => q = o
      <4>1. held[q] # None => held[q] = Entry(q, 0)
        BY <2>1 DEF Roles
      <4> QED
        BY <4>1 DEF Has, Entry
    <3>3. held[o] = None
      BY <1>4, Members DEF Roles
    <3> QED
      BY <3>1, <3>2, <3>3 DEF Works, Has, Lined
  <2>2. CASE q \notin Orders
    <3>1. Has(q, o) => Holds(q, o)
      BY <2>2 DEF Has, Holds, Roles
    <3>2. Lined(q, o) => Holds(q, o)
      BY <2>2 DEF Lined, Holds, Roles, In
    <3> QED
      BY <1>1, <3>1, <3>2 DEF Works
  <2> QED
    BY <2>1, <2>2
<1> QED
  BY <1>4, <1>5

LEMMA FetchStory ==
  ASSUME Typed, Roles, NEW c \in Closers, Fetch(c), NEW r \in Orders, Story(r),
         r \notin contested'
  PROVE  Story(r)'
<1>1. /\ UNCHANGED <<list, hash, found, queue, traded, returned>>
      /\ pc[c] = "new"
      /\ \A q \in Procs \ {c} : pc'[q] = pc[q]
  BY DEF Fetch, Goto, Typed, store, matching
<1>2. c \in Procs /\ c \notin Orders /\ c \notin Matchers
  BY OrderBookAssumption, Members
<1>3. held[c] = None
  BY <1>1, <1>2 DEF Roles
<1>4. \A q \in Procs \ {c} : held'[q] = held[q]
  BY DEF Fetch, Typed
<1>5. ~ Has(c, r)' => Story(r)'
  <2> SUFFICES ASSUME ~ Has(c, r)' PROVE Story(r)'
    OBVIOUS
  <2>1. \A q \in Procs : \/ held'[q] = held[q] /\ pc'[q] = pc[q] /\ found'[q] = found[q]
                         \/ ~ Has(q, r) /\ ~ Has(q, r)'
    BY <1>1, <1>3, <1>4 DEF Has
  <2>2. \A j \in Matchers : pc'[j] = pc[j]
    BY <1>1, <1>2, Members
  <2>3. pc'[r] = pc[r]
    BY <1>1, <1>2, Members
  <2>4. Apart(r)
    BY <1>1, <2>1, <2>2, <2>3, NoMoreSame DEF Apart
  <2> QED
    BY <2>4, ApartStory
<1>6. ASSUME NEW o \in Orders, hash[o] # None, held' = [held EXCEPT ![c] = hash[o]],
             contested' = contested \union Shared(c, {o}), Goto(c, "lrange")
      PROVE  Story(r)'
  <2>1. held'[c] = hash[o] /\ pc'[c] = "lrange" /\ hash[o].id = o
    BY <1>2, <1>6 DEF Typed, Goto
  <2>2. CASE r # o
    BY <1>5, <2>1, <2>2 DEF Has
  <2>3. CASE r = o
    <3>1. o \notin Shared(c, {o})
      BY <1>6, <2>3
    <3>2. pc[o] = "done" /\ \A q \in Procs \ {c} : ~ Works(q, o)
      BY <1>2, <1>6, <2>3, <3>1, Unshared
    <3>3. \A q \in Procs : ~ Has(q, o)
      BY <1>3, <3>2 DEF Works, Has
    <3>4. Only(At(o), o, hash[o]) /\ Booked(o) = hash[o].filled /\ Once(At(o), o)
      BY <1>6, <2>3, <3>2, <3>3 DEF Story, AtRest, OneWorker
    <3>5. \A q \in Procs \ {c} : ~ Works(q, o)'
      BY <1>1, <1>4, <3>2 DEF Works, Has, Lined, In
    <3>6. \A j \in Matchers : pc'[j] # "done" => ~ In(queue'[j], o)
      BY <1>1, <1>2, <3>2, Members DEF Works, Lined
    <3>7. Has(c, o)'
      BY <1>6, <2>1 DEF Has
    <3>8. Only(At(o), o, hash[o])' /\ Booked(o)' = Booked(o) /\ Once(At(o), o)'
      BY <1>1, <3>4 DEF Only, At, Once, Booked
    <3>9. Fits(c, o)'
      BY <1>1, <1>6, <2>1, <3>4, <3>8 DEF Fits
    <3>10. pc'[o] = "done"
      BY <1>1, <1>2, <3>2, Members
    <3> QED
      BY <1>2, <2>3, <3>5, <3>6, <3>7, <3>8, <3>9, <3>10, TakenUp
  <2> QED
    BY <2>2, <2>3
<1>7. CASE UNCHANGED <<held, contested>>
  BY <1>3, <1>5, <1>7 DEF Has
<1> QED
  BY <1>6, <1>7 DEF Fetch

LEMMA RefundStory ==
  ASSUME Typed, Roles, NEW c \in Closers, Refund(c), NEW o \in Orders, Story(o)
  PROVE  Story(o)'
<1> DEFINE e == held[c]
<1>1. /\ UNCHANGED <<list, hash, found, queue, traded>>
      /\ pc[c] = "refund" /\ held' = [held EXCEPT ![c] = None] /\ Goto(c, "done")
      /\ returned' = [returned EXCEPT ![e.id] = returned[e.id] + Size[e.id] - e.filled]
  BY DEF Refund, store, matching, history
<1>2. c \in Procs /\ c \notin Orders /\ c \notin Matchers
  BY OrderBookAssumption, Members
<1>3. /\ e # None /\ e \in Rec /\ e.id \in Orders
      /\ e.filled \in Nat /\ Size[e.id] \in Nat
  BY <1>1, <1>2, InCommand, OrderBookAssumption DEF Commands
<1> HIDE DEF e
<1>4. /\ held'[c] = None /\ pc'[c] = "done"
      /\ \A q \in Procs \ {c} : held'[q] = held[q] /\ pc'[q] = pc[q]
  BY <1>1, <1>2 DEF Typed, Goto
<1>5. CASE o # e.id
  <2>1. returned'[o] = returned[o]
    BY <1>1, <1>3, <1>5 DEF Typed
  <2>2. NoMore(list[PriceOf[o]], list'[PriceOf[o]], o)
    BY <1>1, NoMoreSame
  <2>3. Apart(o)
    BY <1>1, <1>2, <1>3, <1>4, <1>5, <2>1, <2>2, OthersApart DEF e
  <2> QED
    BY <2>3, ApartStory
<1>6. CASE o = e.id
  <2>1. Has(c, o) /\ Fits(c, o)
    BY <1>2, <1>3, <1>6 DEF Has, Story, InHand, e
  <2>2. ~ In(At(o), o) /\ hash[o] = None /\ Booked(o) = e.filled
    BY <1>1, <2>1 DEF Fits, e
  <2>3. Once(At(o), o)' /\ Only(At(o)', o, hash'[o])
    BY <1>1, <2>2 DEF At, In, Once, Only
  <2>4. Booked(o)' = Size[o]
    <3>1. returned'[o] = returned[o] + Size[o] - e.filled
      BY <1>1, <1>3, <1>6 DEF Typed
    <3>2. traded[o] \in Nat /\ returned[o] \in Nat
      BY DEF Typed
    <3>3. traded[o] + returned[o] = e.filled
      BY <2>2 DEF Booked
    <3>4. traded[o] + (returned[o] + Size[o] - e.filled) = Size[o]
      BY <1>3, <1>6, <3>2, <3>3
    <3> QED
      BY <1>1, <3>1, <3>4 DEF Booked
  <2> QED
    BY <1>1, <1>2, <1>3, <1>4, <2>1, <2>2, <2>3, <2>4, OwnStory DEF e
<1> QED
  BY <1>5, <1>6

LEMMA ReadStory ==
  ASSUME Typed, Roles, NEW j \in Matchers, ReadLevels(j) \/ ReadList(j),
         NEW r \in Orders, Story(r), r \notin contested'
  PROVE  Story(r)'
<1>1. /\ UNCHANGED <<list, hash, held, found, traded, returned>>
      /\ pc[j] \in {"new", "read"}
      /\ \A q \in Procs \ {j} : pc'[q] = pc[q]
  BY DEF ReadLevels, ReadList, Goto, Typed, store
<1>2. j \in Procs /\ j \notin Orders /\ j \notin Closers
  BY OrderBookAssumption, Members
<1>3. held[j] = None
  BY <1>1, <1>2 DEF Roles
<1>4. pc'[r] = pc[r]
  BY <1>1, <1>2, Members
<1>5. \A q \in Procs : \/ held'[q] = held[q] /\ pc'[q] = pc[q] /\ found'[q] = found[q]
                       \/ ~ Has(q, r) /\ ~ Has(q, r)'
  BY <1>1, <1>3 DEF Has
<1>6. (\A k \in Matchers : NoMore(queue[k], queue'[k], r)) => Story(r)'
  <2> SUFFICES ASSUME \A k \in Matchers : NoMore(queue[k], queue'[k], r) PROVE Story(r)'
    OBVIOUS
  <2>1. \A k \in Matchers : pc'[k] # "done" => pc[k] # "done"
    BY <1>1, Members
  <2>2. Apart(r)
    BY <1>1, <1>4, <1>5, <2>1, NoMoreSame DEF Apart
  <2> QED
    BY <2>2, ApartStory
<1>7. CASE ReadLevels(j)
  BY <1>6, <1>7, NoMoreSame DEF ReadLevels
<1>8. CASE ReadList(j)
  <2>1. PICK c \in todo[j] : /\ queue' = [queue EXCEPT ![j] = @ \o list[c]]
                             /\ contested' = contested \union Shared(j, Listed(c))
                             /\ Goto(j, IF todo[j] = {c} THEN "take" ELSE "read")
    BY <1>8 DEF ReadList
  <2>2. c \in Prices /\ list[c] \in Seq(Rec) /\ queue[j] \in Seq(Rec)
    BY DEF Typed
  <2>3. queue'[j] = queue[j] \o list[c] /\ \A k \in Matchers \ {j} : queue'[k] = queue[k]
    BY <2>1 DEF Typed
  <2>4. /\ In(queue'[j], r) <=> In(queue[j], r) \/ In(list[c], r)
        /\ Once(queue[j], r) /\ Once(list[c], r) /\ ~(In(queue[j], r) /\ In(list[c], r)) => Once(queue'[j], r)
        /\ \A x : Only(queue[j], r, x) /\ Only(list[c], r, x) => Only(queue'[j], r, x)
    <3> DEFINE s == queue[j]
               t == list[c]
    <3>1. s \in Seq(Rec) /\ t \in Seq(Rec)
      BY <2>2
    <3> HIDE DEF s, t
    <3>2. /\ In(s \o t, r) <=> In(s, r) \/ In(t, r)
          /\ Once(s, r) /\ Once(t, r) /\ ~(In(s, r) /\ In(t, r)) => Once(s \o t, r)
          /\ \A x : Only(s, r, x) /\ Only(t, r, x) => Only(s \o t, r, x)
      BY <3>1, Concatenated
    <3>3. queue'[j] = s \o t
      BY <2>3 DEF s, t
    <3> QED
      BY <3>2, <3>3 DEF s, t
  <2>5. CASE ~ In(list[c], r)
    <3>1. Once(list[c], r) /\ \A x : Only(list[c], r, x)
      BY <2>5 DEF Once, Only, In
    <3>2. NoMore(queue[j], queue'[j], r)
      BY <2>4, <2>5, <3>1 DEF NoMore
    <3> QED
      BY <1>6, <2>3, <3>2, NoMoreSame
  <2>6. CASE In(list[c], r)
    <3>1. PriceOf[r] = c
      BY <2>2, <2>6 DEF Typed
    <3>2. r \in Listed(c)
      BY <2>6 DEF In, Listed
    <3>3. pc[r] = "done" /\ \A q \in Procs \ {j} : ~ Works(q, r)
      <4>1. r \notin Shared(j, Listed(c)) /\ In(At(r), r)
        BY <2>1, <2>6, <3>1 DEF At
      <4> QED
        BY <1>2, <3>2, <4>1, Unshared
    <3>4. ~ In(queue[j], r) /\ pc[j] = "read"
      BY <1>8, <3>1 DEF Roles, ReadList
    <3>5. \A q \in Procs : ~ Has(q, r)
      BY <1>3, <3>3 DEF Works, Has
    <3>6. /\ Only(At(r), r, hash[r]) /\ Once(At(r), r)
          /\ Booked(r) = IF hash[r] = None THEN Size[r] ELSE hash[r].filled
      BY <3>3, <3>5 DEF Story, AtRest, OneWorker
    <3>7. Once(queue[j], r) /\ \A x : Only(queue[j], r, x)
      BY <3>4 DEF In, Once, Only
    <3>8. Once(queue'[j], r) /\ Only(queue'[j], r, hash[r])
      BY <2>4, <3>1, <3>4, <3>6, <3>7 DEF At
    <3>9. \A q \in Procs : ~ Has(q, r)'
      BY <1>1, <3>5 DEF Has
    <3>10. \A q \in Procs \ {j} : ~ Lined(q, r)'
      BY <1>1, <2>3, <3>3 DEF Works, Lined, In
    <3>11. \A k \in Matchers \ {j} : pc'[k] # "done" => ~ In(queue'[k], r)
      BY <1>1, <2>3, <3>3, Members DEF Works, Lined
    <3>12. OneWorker(r)'
      <4>1. \A q \in Procs : Works(q, r)' => q = j
        BY <3>9, <3>10 DEF Works
      <4>2. \A k \in Matchers : pc'[k] # "done" => Once(queue[k], r)'
        BY <3>8, <3>11 DEF Once, In
      <4>3. Once(At(r), r)'
        BY <1>1, <3>6 DEF At, Once
      <4> QED
        BY <3>9, <4>1, <4>2, <4>3 DEF OneWorker
    <3>13. Early(r)'
      BY <1>4, <3>3 DEF Early
    <3>14. InHand(r)'
      BY <3>9 DEF InHand
    <3>15. InLine(r)'
      BY <1>1, <3>8, <3>11 DEF InLine, Only, In
    <3>16. AtRest(r)'
      BY <1>1, <3>6 DEF AtRest, Only, At, Booked
    <3> QED
      BY <3>12, <3>13, <3>14, <3>15, <3>16 DEF Story
  <2> QED
    BY <2>5, <2>6
<1> QED
  BY <1>7, <1>8

LEMMA TakeStory ==
  ASSUME Typed, Roles, NEW j \in Matchers, Take(j), NEW r \in Orders, Story(r)
  PROVE  Story(r)'
<1>1. UNCHANGED <<list, hash, found, returned>> /\ pc[j] = "take"
  BY DEF Take, store, history
<1>2. j \in Procs /\ j \notin Orders /\ j \notin Closers
  BY OrderBookAssumption, Members
<1>3. held[j] = None
  BY <1>1, <1>2 DEF Roles
<1>4. ASSUME \A q \in Procs \ {j} : pc'[q] = pc[q] /\ held'[q] = held[q],
             ~ Has(j, r)', traded'[r] = traded[r],
             \A k \in Matchers : NoMore(queue[k], queue'[k], r)
      PROVE  Story(r)'
  <2>1. \A q \in Procs : \/ held'[q] = held[q] /\ pc'[q] = pc[q] /\ found'[q] = found[q]
                         \/ ~ Has(q, r) /\ ~ Has(q, r)'
    BY <1>1, <1>3, <1>4 DEF Has
  <2>2. \A k \in Matchers : pc'[k] # "done" => pc[k] # "done"
    BY <1>1, <1>4, Members
  <2>3. pc'[r] = pc[r]
    BY <1>2, <1>4, Members
  <2>4. Apart(r)
    BY <1>1, <1>4, <2>1, <2>2, <2>3, NoMoreSame DEF Apart
  <2> QED
    BY <2>4, ApartStory
<1>5. CASE /\ queue' = [queue EXCEPT ![j] = <<>>] /\ Goto(j, "done")
           /\ UNCHANGED <<held, left, traded>>
  <2>1. \A q \in Procs \ {j} : pc'[q] = pc[q] /\ held'[q] = held[q]
    BY <1>5 DEF Goto, Typed
  <2>2. ~ Has(j, r)'
    BY <1>3, <1>5 DEF Has
  <2>3. queue'[j] = <<>> /\ \A k \in Matchers \ {j} : queue'[k] = queue[k]
    BY <1>5 DEF Typed
  <2> QED
    BY <1>4, <1>5, <2>1, <2>2, <2>3, NoMoreSame, NoMoreEmpty
<1> DEFINE e == Head(queue[j])
<1>6. ASSUME NEW amount \in Nat, queue[j] # <<>>, e \in Rec, amount <= left[j],
             e.filled + amount <= Size[e.id],
             queue' = [queue EXCEPT ![j] = Tail(queue[j])],
             left' = [left EXCEPT ![j] = left[j] - amount],
             traded' = [traded EXCEPT ![e.id] = traded[e.id] + amount],
             held' = [held EXCEPT ![j] = Entry(e.id, e.filled + amount)],
             Goto(j, "lrange")
      PROVE  Story(r)'
  <2>1. e.id \in Orders /\ e.filled \in Nat
    BY <1>6, Records
  <2>2. queue[j] \in Seq(Rec)
    BY DEF Typed
  <2>3. /\ In(Tail(queue[j]), r) => In(queue[j], r)
        /\ Once(queue[j], r) => Once(Tail(queue[j]), r)
        /\ \A x : Only(queue[j], r, x) => Only(Tail(queue[j]), r, x)
        /\ Once(queue[j], r) /\ e.id = r => ~In(Tail(queue[j]), r)
        /\ e.id = r => In(queue[j], r) /\ \A x : Only(queue[j], r, x) => e = x
    BY <1>6, <2>2, RestOf
  <2> HIDE DEF e
  <2>4. queue'[j] = Tail(queue[j]) /\ \A k \in Matchers \ {j} : queue'[k] = queue[k]
    BY <1>6 DEF Typed
  <2>5. /\ \A q \in Procs \ {j} : pc'[q] = pc[q] /\ held'[q] = held[q]
        /\ pc'[j] = "lrange" /\ held'[j] = Entry(e.id, e.filled + amount)
    BY <1>2, <1>6 DEF Goto, Typed
  <2>6. /\ Entry(e.id, e.filled + amount).id = e.id
        /\ Entry(e.id, e.filled + amount).filled = e.filled + amount
        /\ Entry(e.id, e.filled + amount) # None
    <3>1. e.filled + amount \in Nat
      BY <2>1
    <3> QED
      BY <1>6, <2>1, <3>1, Records
  <2>7. CASE r # e.id
    <3>1. ~ Has(j, r)' /\ traded'[r] = traded[r]
      BY <1>6, <2>1, <2>5, <2>6, <2>7 DEF Has, Typed
    <3>2. \A k \in Matchers : NoMore(queue[k], queue'[k], r)
      BY <2>3, <2>4, NoMoreSame DEF NoMore
    <3> QED
      BY <1>4, <2>5, <3>1, <3>2
  <2>8. CASE r = e.id
    <3>1. In(queue[j], r) /\ pc[j] # "done"
      BY <1>1, <2>3, <2>8
    <3>2. Lined(j, r) /\ Works(j, r)
      BY <3>1 DEF Lined, Works
    <3>3. \A q \in Procs \ {j} : ~ Works(q, r)
      BY <1>2, <3>2 DEF Story, OneWorker
    <3>4. Once(queue[j], r) /\ Only(queue[j], r, hash[r]) /\ Once(At(r), r)
      BY <3>1 DEF Story, OneWorker, InLine
    <3>5. e = hash[r] /\ hash[r] # None
      BY <1>6, <2>3, <2>8, <3>4, Records
    <3>6. \A q \in Procs : ~ Has(q, r)
      BY <1>3, <3>3 DEF Works, Has
    <3>7. pc[r] = "done"
      <4>1. r \in Procs /\ held[r] # None => held[r].id = r
        <5>1. held[r] # None => held[r] = Entry(r, 0)
          BY DEF Roles
        <5> QED
          BY <5>1, Members DEF Entry
      <4>2. held[r] = None
        BY <3>6, <4>1, Members DEF Has
      <4>3. pc[r] \in {"new", "done"}
        BY <4>2, Members DEF Roles
      <4>4. pc[r] # "new"
        BY <3>5 DEF Story, Early
      <4> QED
        BY <4>3, <4>4
    <3>8. Only(At(r), r, hash[r]) /\ Booked(r) = e.filled
      BY <3>5, <3>6, <3>7 DEF Story, AtRest
    <3>9. \A q \in Procs \ {j} : ~ Works(q, r)'
      BY <2>4, <2>5, <3>3 DEF Works, Has, Lined, In
    <3>10. \A k \in Matchers : pc'[k] # "done" => ~ In(queue'[k], r)
      BY <2>3, <2>4, <2>5, <2>8, <3>3, <3>4, Members DEF Works, Lined
    <3>11. Has(j, r)'
      BY <2>5, <2>6, <2>8 DEF Has
    <3>12. Only(At(r), r, hash[r])' /\ Once(At(r), r)'
      BY <1>1, <3>4, <3>8 DEF Only, At, Once
    <3>13. Booked(r)' = e.filled + amount
      <4>1. traded'[r] = traded[r] + amount /\ returned'[r] = returned[r]
        BY <1>1, <1>6, <2>1, <2>8 DEF Typed
      <4>2. traded[r] \in Nat /\ returned[r] \in Nat /\ traded[r] + returned[r] = e.filled
        BY <3>8 DEF Typed, Booked
      <4>3. (traded[r] + amount) + returned[r] = e.filled + amount
        BY <4>2
      <4> QED
        BY <4>1, <4>3 DEF Booked
    <3>14. Fits(j, r)'
      BY <1>1, <2>5, <2>6, <3>5, <3>12, <3>13 DEF Fits
    <3>15. pc'[r] = "done"
      BY <1>2, <2>5, <3>7, Members
    <3> QED
      BY <1>2, <3>9, <3>10, <3>11, <3>12, <3>14, <3>15, TakenUp
  <2> QED
    BY <2>7, <2>8
<1> HIDE DEF e
<1> QED
  BY <1>5, <1>6, TakeIs DEF e

\* What a crash does: to a dead caller, and to those with an order in hand.
LEMMA CrashIs ==
  ASSUME Typed, Roles, Crash
  PROVE  /\ UNCHANGED <<levels, list, hash, queue, traded, returned, contested, swept>>
         /\ faults' # 0
         /\ \A p \in Procs :
              \/ pc'[p] = pc[p] /\ held'[p] = held[p] /\ found'[p] = found[p]
              \/ /\ pc'[p] = "done" /\ held'[p] = None
                 /\ pc[p] \notin {"new", "done"}
                 /\ held[p] # None => held[p].id \in cut'
<1>1. PICK callers \in {Orders \union Matchers, Closers} :
        LET dead == {p \in callers : pc[p] \notin {"new", "done"}} IN
        /\ faults < MaxFaults
        /\ faults' = faults + 1
        /\ cut' = cut \union {held[p].id : p \in {q \in dead : held[q] # None}}
        /\ pc' = [p \in Procs |-> IF p \in dead THEN "done" ELSE pc[p]]
        /\ held' = [p \in Procs |-> IF p \in dead THEN None ELSE held[p]]
        /\ found' = [p \in Procs |-> IF p \in dead THEN None ELSE found[p]]
        /\ UNCHANGED <<store, matching, traded, returned, contested, swept>>
  BY DEF Crash
<1> DEFINE dead == {p \in callers : pc[p] \notin {"new", "done"}}
<1>2. /\ UNCHANGED <<levels, list, hash, queue, traded, returned, contested, swept>>
      /\ faults' = faults + 1
      /\ cut' = cut \union {held[p].id : p \in {q \in dead : held[q] # None}}
      /\ pc' = [p \in Procs |-> IF p \in dead THEN "done" ELSE pc[p]]
      /\ held' = [p \in Procs |-> IF p \in dead THEN None ELSE held[p]]
      /\ found' = [p \in Procs |-> IF p \in dead THEN None ELSE found[p]]
  BY <1>1 DEF store, matching
<1>3. \A p \in dead : pc[p] \notin {"new", "done"}
  OBVIOUS
<1> HIDE DEF dead
<1>4. faults' # 0
  BY <1>2, OrderBookAssumption DEF Typed
<1> QED
  BY <1>2, <1>3, <1>4

LEMMA CrashApart ==
  ASSUME Typed, Roles, Crash, NEW r \in Orders, r \notin cut'
  PROVE  Apart(r)
<1>1. /\ UNCHANGED <<list, hash, queue, traded, returned>>
      /\ \A p \in Procs :
           \/ pc'[p] = pc[p] /\ held'[p] = held[p] /\ found'[p] = found[p]
           \/ /\ pc'[p] = "done" /\ held'[p] = None
              /\ pc[p] \notin {"new", "done"}
              /\ held[p] # None => held[p].id \in cut'
  BY CrashIs
<1>2. \A q \in Procs : \/ held'[q] = held[q] /\ pc'[q] = pc[q] /\ found'[q] = found[q]
                       \/ ~ Has(q, r) /\ ~ Has(q, r)'
  BY <1>1 DEF Has
<1>3. pc'[r] = pc[r]
  <2>1. held[r] # None => held[r].id = r
    <3>1. held[r] # None => held[r] = Entry(r, 0)
      BY DEF Roles
    <3> QED
      BY <3>1 DEF Entry
  <2>2. pc[r] \in {"new", "zadd", "rpush", "hset", "done"} /\ r \in Procs
    BY Members DEF Roles
  <2>3. held[r] = None => pc[r] \in {"new", "done"}
    BY <2>2 DEF Roles
  <2> QED
    BY <1>1, <2>1, <2>2, <2>3
<1>4. \A k \in Matchers : pc'[k] # "done" => pc[k] # "done"
  BY <1>1, Members
<1> QED
  BY <1>1, <1>2, <1>3, <1>4, NoMoreSame DEF Apart

-----------------------------------------------------------------------------
(***************************************************************************)
(* A clean order that was not swept away stays where it can be found.      *)
(***************************************************************************)

\* A step that pushes nothing: whoever has the order keeps it or has deleted
\* it, and neither the order nor its level is removed under another caller.
LEMMA KeptStep ==
  ASSUME NEW p \in Procs, NEW o \in Orders, Story(o), Kept(o),
         \A q \in Procs \ {p} : pc'[q] = pc[q] /\ held'[q] = held[q],
         pc'[p] \notin {"rpush", "hset"}, p = o => pc'[p] # "done",
         hash'[o] = hash[o] \/ hash'[o] = None,
         Has(p, o) => Has(p, o)' \/ hash'[o] = None,
         In(list'[PriceOf[o]], o) => In(list[PriceOf[o]], o),
         Has(p, o) \/ (In(list[PriceOf[o]], o) => In(list'[PriceOf[o]], o)),
         In(list'[PriceOf[o]], o) => PriceOf[o] \in levels',
         \A q \in Procs \ {p} : Has(q, o) /\ pc[q] = "rpush" => PriceOf[o] \in levels'
  PROVE  Kept(o)'
<1>1. \A q \in Procs \ {p} : Has(q, o)' <=> Has(q, o)
  BY DEF Has
<1>2. In(At(o), o)' <=> In(list'[PriceOf[o]], o)
  BY DEF At, In
<1>3. \A q \in Procs : Has(q, o)' /\ pc'[q] = "rpush" => PriceOf[o] \in levels'
  BY <1>1
<1>4. \A q \in Procs : Has(q, o)' /\ pc'[q] = "hset" => In(At(o), o)'
  <2> SUFFICES ASSUME NEW q \in Procs, Has(q, o)', pc'[q] = "hset" PROVE In(At(o), o)'
    OBVIOUS
  <2>1. q # p /\ Has(q, o) /\ pc[q] = "hset"
    BY <1>1
  <2>2. ~ Has(p, o)
    BY <2>1, Alone
  <2>3. In(At(o), o)
    BY <2>1 DEF Kept
  <2> QED
    BY <1>2, <2>2, <2>3 DEF At
<1>5. pc'[o] = "done" /\ (\A q \in Procs : ~ Has(q, o)') /\ hash'[o] # None => In(At(o), o)'
  <2> SUFFICES ASSUME pc'[o] = "done", \A q \in Procs : ~ Has(q, o)', hash'[o] # None
               PROVE  In(At(o), o)'
    OBVIOUS
  <2>1. \A q \in Procs : ~ Has(q, o)
    BY <1>1
  <2>2. pc[o] = "done"
    BY Members
  <2>3. In(At(o), o)
    BY <2>1, <2>2 DEF Kept
  <2> QED
    BY <1>2, <2>1, <2>3 DEF At
<1> QED
  BY <1>2, <1>3, <1>4, <1>5 DEF Kept

LEMMA PushKept ==
  ASSUME Typed, Roles, NEW p \in Procs, Push(p), NEW o \in Orders, Story(o), Kept(o)
  PROVE  Kept(o)'
<1>1. pc[p] \in {"zadd", "rpush", "hset"}
  BY DEF Push, ZAdd, RPush, HSet
<1> DEFINE e == held[p]
           c == PriceHeld(p)
<1>2. /\ e # None /\ e \in Rec /\ e.id \in Orders /\ c = PriceOf[e.id]
      /\ c \in Prices
  BY <1>1, InCommand DEF Commands
<1>3. /\ \A q \in Procs \ {p} : held'[q] = held[q]
      /\ list' = [list EXCEPT ![c] = Append(list[c], e)] \/ list' = list
      /\ \A r \in Orders : r # e.id => hash'[r] = hash[r]
      /\ levels \subseteq levels'
  BY DEF Push, ZAdd, RPush, HSet, Typed
<1>4. \A q \in Procs \ {p} : pc'[q] = pc[q]
  BY DEF Push, ZAdd, RPush, HSet, Goto, Typed
<1>5. held'[p] = held[p] \/ held'[p] = None
  BY DEF Push, ZAdd, RPush, HSet, Typed
<1>6. /\ list \in [Prices -> Seq(Rec)] /\ list[c] \in Seq(Rec) /\ list[PriceOf[o]] \in Seq(Rec)
      /\ PriceOf[o] \in Prices
  BY <1>2, OrderBookAssumption DEF Typed
<1>7. p \in Orders => e.id = p
  <2>1. p \in Orders => e = Entry(p, 0)
    BY <1>2 DEF Roles
  <2> QED
    BY <2>1 DEF Entry
<1>8. CASE o # e.id
  <2>1. In(At(o), o)' <=> In(At(o), o)
    <3>1. In(Append(list[c], e), o) <=> In(list[c], o)
      BY <1>2, <1>6, <1>8, Appended
    <3>2. list'[PriceOf[o]] = list[PriceOf[o]] \/ (c = PriceOf[o] /\ list'[c] = Append(list[c], e))
      BY <1>3, <1>6
    <3>3. In(At(o), o)' <=> In(list'[PriceOf[o]], o)
      BY DEF At, In
    <3> HIDE DEF e, c
    <3> QED
      BY <3>1, <3>2, <3>3 DEF At
  <2>2. \A q \in Procs : (Has(q, o)' <=> Has(q, o)) /\ (Has(q, o) => pc'[q] = pc[q])
    BY <1>3, <1>4, <1>5, <1>8 DEF Has
  <2>3. pc'[o] = pc[o] /\ hash'[o] = hash[o]
    BY <1>3, <1>4, <1>7, <1>8, Members
  <2> HIDE DEF e, c
  <2> QED
    BY <1>3, <2>1, <2>2, <2>3 DEF Kept
<1>9. CASE o = e.id
  <2>1. Has(p, o) /\ Fits(p, o) /\ c = PriceOf[o]
    BY <1>2, <1>9 DEF Has, Story, InHand
  <2>2. \A q \in Procs \ {p} : ~ Has(q, o)'
    BY <1>3, <2>1, Alone DEF Has
  <2>3. CASE ZAdd(p)
    <3>1. UNCHANGED <<list, held>> /\ pc'[p] = "rpush" /\ c \in levels'
      BY <2>3 DEF ZAdd, Goto, Typed
    <3>2. Has(p, o)'
      BY <2>1, <3>1 DEF Has
    <3> HIDE DEF e, c
    <3> QED
      BY <2>1, <2>2, <3>1, <3>2 DEF Kept
  <2>4. CASE RPush(p)
    <3>1. /\ UNCHANGED <<hash, held, levels>> /\ pc'[p] = "hset" /\ pc[p] = "rpush"
          /\ list' = [list EXCEPT ![c] = Append(list[c], e)]
      BY <2>4 DEF RPush, Goto, Typed
    <3>2. list'[PriceOf[o]] = Append(list[c], e)
      BY <1>2, <1>6, <2>1, <3>1
    <3>3. In(Append(list[c], e), o)
      BY <1>2, <1>6, <1>9, Appended
    <3>4. In(At(o), o)'
      BY <3>2, <3>3 DEF At, In
    <3>5. Has(p, o)' /\ PriceOf[o] \in levels'
      BY <2>1, <3>1 DEF Has, Kept
    <3> HIDE DEF e, c
    <3> QED
      BY <2>2, <3>1, <3>4, <3>5 DEF Kept
  <2>5. CASE HSet(p)
    <3>1. UNCHANGED <<list, levels>> /\ pc'[p] = "done" /\ pc[p] = "hset" /\ held'[p] = None
      BY <2>5 DEF HSet, Goto, Typed
    <3>2. In(At(o), o) /\ PriceOf[o] \in levels
      BY <2>1, <3>1 DEF Kept
    <3>3. In(At(o), o)'
      BY <3>1, <3>2 DEF At, In
    <3>4. ~ Has(p, o)'
      BY <3>1 DEF Has
    <3> HIDE DEF e, c
    <3> QED
      BY <2>2, <3>1, <3>2, <3>3, <3>4 DEF Kept
  <2> QED
    BY <2>3, <2>4, <2>5 DEF Push
<1> QED
  BY <1>8, <1>9

LEMMA DeleteKept ==
  ASSUME Typed, Roles, NEW p \in Procs, Delete(p), NEW o \in Orders, Story(o), Kept(o),
         o \notin swept'
  PROVE  Kept(o)'
<1>1. pc[p] \in {"lrange", "lrem", "llen", "del", "zrem", "hdel"}
  BY DEF Delete, LRange, LRem, LLen, Del, ZRem, HDel
<1> DEFINE e == held[p]
           c == PriceHeld(p)
<1>2. /\ e # None /\ e \in Rec /\ e.id \in Orders /\ c = PriceOf[e.id] /\ c \in Prices
  BY <1>1, InCommand DEF Commands
<1>3. p \notin Orders
  BY <1>1 DEF Roles
<1>4. /\ \A q \in Procs \ {p} : held'[q] = held[q]
      /\ hash'[o] = hash[o] \/ hash'[o] = None
  BY DEF Delete, LRange, LRem, LLen, Del, ZRem, HDel, store, Typed
<1>5. /\ \A q \in Procs \ {p} : pc'[q] = pc[q]
      /\ pc'[p] \notin {"rpush", "hset"}
  BY DEF Delete, LRange, LRem, LLen, Del, ZRem, HDel, Goto, Typed
<1>6. Has(p, o) => Has(p, o)' \/ hash'[o] = None
  <2>1. CASE HDel(p)
    BY <2>1, <1>2 DEF HDel, Has, Typed
  <2>2. CASE ~ HDel(p)
    <3>1. held' = held
      BY <2>2 DEF Delete, LRange, LRem, LLen, Del, ZRem
    <3> QED
      BY <3>1 DEF Has
  <2> QED
    BY <2>1, <2>2
<1>7. /\ list \in [Prices -> Seq(Rec)] /\ list[c] \in Seq(Rec) /\ list[PriceOf[o]] \in Seq(Rec)
      /\ PriceOf[o] \in Prices
  BY <1>2, OrderBookAssumption DEF Typed
<1>8. In(list[PriceOf[o]], o) => PriceOf[o] \in levels
  BY DEF Kept, At
<1>9. \A q \in Procs : Has(q, o) /\ pc[q] = "rpush" => PriceOf[o] \in levels
  BY DEF Kept
<1> HIDE DEF e, c
<1>10. CASE UNCHANGED <<levels, list>>
  BY <1>3, <1>4, <1>5, <1>6, <1>8, <1>9, <1>10, KeptStep
<1>11. CASE LRem(p)
  <2>1. UNCHANGED levels /\ list' = [list EXCEPT ![c] = RemoveFirst(list[c], found[p])]
    BY <1>11 DEF LRem, c
  <2>2. found[p] \in Rec /\ found[p].id = e.id
    BY <1>11 DEF LRem, Roles, Typed, e
  <2>3. /\ In(RemoveFirst(list[c], found[p]), o) => In(list[c], o)
        /\ found[p].id # o => (In(list[c], o) => In(RemoveFirst(list[c], found[p]), o))
    BY <1>7, <2>2, Removed
  <2>4. \/ list'[PriceOf[o]] = list[PriceOf[o]]
        \/ c = PriceOf[o] /\ list'[PriceOf[o]] = RemoveFirst(list[c], found[p])
    BY <1>7, <2>1
  <2>5. e.id = o => Has(p, o)
    BY <1>2 DEF Has, e
  <2>6. /\ In(list'[PriceOf[o]], o) => In(list[PriceOf[o]], o)
        /\ Has(p, o) \/ (In(list[PriceOf[o]], o) => In(list'[PriceOf[o]], o))
    BY <2>2, <2>3, <2>4, <2>5
  <2> QED
    BY <1>3, <1>4, <1>5, <1>6, <1>8, <1>9, <2>1, <2>6, KeptStep
<1>12. CASE Del(p)
  <2>1. UNCHANGED levels /\ list' = [list EXCEPT ![c] = <<>>] /\ swept' = swept \union Listed(c)
    BY <1>12 DEF Del, c
  <2>2. ~ In(list[c], o)
    BY <2>1 DEF In, Listed
  <2>3. ~ In(<<>>, o)
    BY DEF In
  <2>4. In(list'[PriceOf[o]], o) <=> In(list[PriceOf[o]], o)
    <3>1. CASE PriceOf[o] = c
      <4>1. list'[PriceOf[o]] = <<>>
        BY <1>7, <2>1, <3>1
      <4> QED
        BY <2>2, <2>3, <3>1, <4>1
    <3>2. CASE PriceOf[o] # c
      BY <1>7, <2>1, <3>2
    <3> QED
      BY <3>1, <3>2
  <2> QED
    BY <1>3, <1>4, <1>5, <1>6, <1>8, <1>9, <2>1, <2>4, KeptStep
<1>13. CASE ZRem(p)
  <2>1. /\ UNCHANGED list /\ levels' = levels \ {c}
        /\ swept' = swept \union Listed(c)
                      \union {held[q].id : q \in {q \in Procs : pc[q] = "rpush" /\ PriceHeld(q) = c}}
    BY <1>13 DEF ZRem, c
  <2>2. ~ In(list[c], o)
    BY <2>1 DEF In, Listed
  <2>3. In(list'[PriceOf[o]], o) => PriceOf[o] \in levels'
    BY <1>8, <2>1, <2>2
  <2>4. \A q \in Procs \ {p} : Has(q, o) /\ pc[q] = "rpush" => PriceOf[o] \in levels'
    <3> SUFFICES ASSUME NEW q \in Procs, Has(q, o), pc[q] = "rpush" PROVE PriceOf[o] # c
      BY <1>9, <2>1
    <3>1. PriceHeld(q) # c
      BY <2>1 DEF Has
    <3> QED
      BY <3>1 DEF Has, PriceHeld
  <2> QED
    BY <1>3, <1>4, <1>5, <1>6, <2>1, <2>3, <2>4, KeptStep
<1> QED
  BY <1>10, <1>11, <1>12, <1>13 DEF Delete, LRange, LLen, HDel, store

LEMMA OtherKept ==
  ASSUME Typed, Roles, NEW p \in Procs,
         \/ p \in Orders /\ Place(p)
         \/ p \in Closers /\ (Fetch(p) \/ Refund(p))
         \/ p \in Matchers /\ (ReadLevels(p) \/ ReadList(p) \/ Take(p)),
         NEW o \in Orders, Story(o), Kept(o)
  PROVE  Kept(o)'
<1>1. /\ UNCHANGED <<levels, list, hash>>
      /\ \A q \in Procs \ {p} : pc'[q] = pc[q]
      /\ pc'[p] \notin {"rpush", "hset"}
  BY Members DEF Place, Fetch, Refund, ReadLevels, ReadList, Take, Goto, store, Typed
<1>2. \A q \in Procs \ {p} : held'[q] = held[q]
  <2>1. CASE p \in Matchers /\ Take(p)
    BY <2>1, TakeIs DEF Typed
  <2>2. CASE ~ (p \in Matchers /\ Take(p))
    BY <2>2 DEF Place, Fetch, Refund, ReadLevels, ReadList, Typed
  <2> QED
    BY <2>1, <2>2
<1>3. p = o => pc'[p] # "done"
  <2>1. p \in Orders => Place(p)
    BY OrderBookAssumption
  <2> QED
    BY <2>1 DEF Place, Goto, Typed, Procs
<1>4. Has(p, o) => Has(p, o)' \/ hash'[o] = None
  <2>1. CASE p \in Closers /\ Refund(p)
    <3>1. pc[p] = "refund"
      BY <2>1 DEF Refund
    <3> QED
      BY <1>1, <3>1 DEF Story, InHand, Fits
  <2>2. CASE ~ (p \in Closers /\ Refund(p))
    <3>1. pc[p] \in {"new", "read", "take"}
      BY <2>2 DEF Place, Fetch, ReadLevels, ReadList, Take
    <3> QED
      BY <3>1 DEF Roles, Has
  <2> QED
    BY <2>1, <2>2
<1>5. In(list[PriceOf[o]], o) => PriceOf[o] \in levels
  BY DEF Kept, At
<1>6. \A q \in Procs : Has(q, o) /\ pc[q] = "rpush" => PriceOf[o] \in levels
  BY DEF Kept
<1> QED
  BY <1>1, <1>2, <1>3, <1>4, <1>5, <1>6, KeptStep

LEMMA CrashKept ==
  ASSUME Typed, Roles, Crash, NEW o \in Orders, o \notin cut', Kept(o)
  PROVE  Kept(o)'
<1>1. Apart(o) /\ UNCHANGED <<levels, list>>
  BY CrashApart, CrashIs
<1>2. \A q \in Procs : (Has(q, o)' <=> Has(q, o)) /\ (Has(q, o) => pc'[q] = pc[q])
  BY <1>1 DEF Apart, Has
<1>3. In(At(o), o)' <=> In(At(o), o)
  BY <1>1 DEF At, In
<1> QED
  BY <1>1, <1>2, <1>3 DEF Kept, Apart

-----------------------------------------------------------------------------
(***************************************************************************)
(* The invariant holds.                                                    *)
(***************************************************************************)
LEMMA InitialStates == Init => IInv
<1> SUFFICES ASSUME Init PROVE IInv
  OBVIOUS
<1>1. Typed
  <2>1. list \in [Prices -> Seq(Rec)] /\ queue \in [Matchers -> Seq(Rec)]
    BY DEF Init
  <2>2. \A c \in Prices, o \in Orders : ~ In(list[c], o)
    BY DEF Init, In
  <2>3. /\ left \in [Matchers -> Nat] /\ 0 \in 0 .. MaxFaults
    BY OrderBookAssumption DEF Init
  <2> QED
    BY <2>1, <2>2, <2>3 DEF Init, Typed, PcValues
<1>2. Roles
  BY Members DEF Init, Roles
<1>3. ASSUME NEW o \in Orders PROVE Story(o) /\ Kept(o)
  <2>1. \A p \in Procs : ~ Has(p, o)
    BY DEF Init, Has
  <2>2. \A j \in Matchers : queue[j] = <<>>
    BY DEF Init
  <2>3. \A p \in Procs : ~ Lined(p, o)
    BY <2>2 DEF Lined, In
  <2>4. At(o) = <<>>
    BY OrderBookAssumption DEF Init, At
  <2>5. Booked(o) = 0 /\ hash[o] = None /\ pc[o] = "new"
    BY Members DEF Init, Booked
  <2>6. OneWorker(o)
    BY <2>1, <2>2, <2>3, <2>4 DEF OneWorker, Works, Once
  <2>7. Early(o)
    BY <2>1, <2>3, <2>4, <2>5 DEF Early, Works, In
  <2>8. InHand(o) /\ InLine(o) /\ AtRest(o)
    BY <2>1, <2>2, <2>5 DEF InHand, InLine, AtRest, Only
  <2>9. Kept(o)
    BY <2>1, <2>4, <2>5 DEF Kept, In
  <2> QED
    BY <2>6, <2>7, <2>8, <2>9 DEF Story
<1> QED
  BY <1>1, <1>2, <1>3 DEF IInv, Clean

\* The histories only grow.
LEMMA HistoriesGrow ==
  ASSUME [Next]_vars
  PROVE  contested \subseteq contested' /\ swept \subseteq swept' /\ cut \subseteq cut'
<1>1. CASE \E o \in Orders : Place(o)
  BY <1>1 DEF Place, history
<1>2. CASE \E c \in Closers : Fetch(c) \/ Refund(c)
  BY <1>2 DEF Fetch, Refund, history
<1>3. CASE \E j \in Matchers : ReadLevels(j) \/ ReadList(j) \/ Take(j)
  BY <1>3 DEF ReadLevels, ReadList, Take, history
<1>4. CASE \E p \in Procs : Push(p) \/ Delete(p)
  BY <1>4 DEF Push, ZAdd, RPush, HSet, Delete, LRange, LRem, LLen, Del, ZRem, HDel, history
<1>5. CASE Crash
  BY <1>5 DEF Crash
<1>6. CASE Terminated \/ UNCHANGED vars
  BY <1>6 DEF Terminated, vars, history
<1> QED
  BY <1>1, <1>2, <1>3, <1>4, <1>5, <1>6 DEF Next

LEMMA Step == IInv /\ [Next]_vars => IInv'
<1> SUFFICES ASSUME IInv, [Next]_vars PROVE IInv'
  OBVIOUS
<1>1. Typed /\ Roles
  BY DEF IInv
<1>2. Typed' /\ Roles'
  <2>1. CASE \E o \in Orders : Place(o)
    BY <1>1, <2>1, PlaceTypes
  <2>2. CASE \E c \in Closers : Fetch(c) \/ Refund(c)
    BY <1>1, <2>2, FetchTypes, RefundTypes
  <2>3. CASE \E j \in Matchers : ReadLevels(j) \/ ReadList(j) \/ Take(j)
    BY <1>1, <2>3, ReadTypes, TakeTypes
  <2>4. CASE \E p \in Procs : Push(p) \/ Delete(p)
    BY <1>1, <2>4, PushTypes, DeleteTypes
  <2>5. CASE Crash
    BY <1>1, <2>5, CrashTypes
  <2>6. CASE Terminated \/ UNCHANGED vars
    BY <1>1, <2>6 DEF Terminated, vars, store, matching, history, Typed, Roles, In, Entry
  <2> QED
    BY <2>1, <2>2, <2>3, <2>4, <2>5, <2>6 DEF Next
<1>3. ASSUME NEW o \in Clean' PROVE Story(o)'
  <2>1. o \in Orders /\ o \notin contested' /\ o \notin cut' /\ o \in Clean
    BY HistoriesGrow DEF Clean
  <2>2. Story(o)
    BY <2>1 DEF IInv
  <2>3. CASE \E r \in Orders : Place(r)
    BY <1>1, <2>1, <2>2, <2>3, PlaceStory
  <2>4. CASE \E c \in Closers : Fetch(c) \/ Refund(c)
    BY <1>1, <2>1, <2>2, <2>4, FetchStory, RefundStory
  <2>5. CASE \E j \in Matchers : ReadLevels(j) \/ ReadList(j) \/ Take(j)
    BY <1>1, <2>1, <2>2, <2>5, ReadStory, TakeStory
  <2>6. CASE \E p \in Procs : Push(p) \/ Delete(p)
    BY <1>1, <2>1, <2>2, <2>6, PushStory, DeleteStory
  <2>7. CASE Crash
    BY <1>1, <2>1, <2>2, <2>7, CrashApart, ApartStory
  <2>8. CASE Terminated \/ UNCHANGED vars
    <3>1. Apart(o)
      BY <2>8, NoMoreSame DEF Terminated, vars, store, matching, history, Apart
    <3> QED
      BY <2>1, <2>2, <3>1, ApartStory
  <2> QED
    BY <2>3, <2>4, <2>5, <2>6, <2>7, <2>8 DEF Next
<1>4. ASSUME NEW o \in (Clean \ swept)' PROVE Kept(o)'
  <2>1. /\ o \in Orders /\ o \notin swept' /\ o \notin cut'
        /\ o \in Clean \ swept
    BY HistoriesGrow DEF Clean
  <2>2. Story(o) /\ Kept(o)
    BY <2>1 DEF IInv
  <2>3. CASE \/ \E r \in Orders : Place(r)
             \/ \E c \in Closers : Fetch(c) \/ Refund(c)
             \/ \E j \in Matchers : ReadLevels(j) \/ ReadList(j) \/ Take(j)
    <3>1. CASE \E r \in Orders : Place(r)
      BY <1>1, <2>1, <2>2, <3>1, OtherKept, Members
    <3>2. CASE \E c \in Closers : Fetch(c) \/ Refund(c)
      BY <1>1, <2>1, <2>2, <3>2, OtherKept, Members
    <3>3. CASE \E j \in Matchers : ReadLevels(j) \/ ReadList(j) \/ Take(j)
      BY <1>1, <2>1, <2>2, <3>3, OtherKept, Members
    <3> QED
      BY <2>3, <3>1, <3>2, <3>3
  <2>4. CASE \E p \in Procs : Push(p) \/ Delete(p)
    BY <1>1, <2>1, <2>2, <2>4, PushKept, DeleteKept
  <2>5. CASE Crash
    BY <1>1, <2>1, <2>2, <2>5, CrashKept
  <2>6. CASE Terminated \/ UNCHANGED vars
    <3>1. UNCHANGED <<levels, list, hash, pc, held>>
      BY <2>6 DEF Terminated, vars, store
    <3> QED
      BY <2>2, <3>1 DEF Kept, Has, At, In
  <2> QED
    BY <2>3, <2>4, <2>5, <2>6 DEF Next
<1> QED
  BY <1>2, <1>3, <1>4 DEF IInv

\* The invariant holds in every state of the order book: what each caller that
\* is between two commands may rely on (redis.orderbook.service.ts:43-138).
THEOREM Invariance == Spec => []IInv
<1> QED
  BY InitialStates, Step, PTL DEF Spec

\* Every variable keeps its type (redis.orderbook.service.ts:43-138).
THEOREM TypeCorrect == Spec => []TypeOK
<1>1. IInv => TypeOK
  <2> SUFFICES ASSUME IInv PROVE TypeOK
    OBVIOUS
  <2>1. Typed
    BY DEF IInv
  <2>2. \A p \in Prices : \A i \in DOMAIN list[p] : list[p][i] \in Rec
    <3>1. \A p \in Prices : list[p] \in Seq(Rec)
      BY <2>1 DEF Typed
    <3> QED
      BY <3>1
  <2>3. \A o \in Orders : hash[o] = None \/ (hash[o].id = o /\ hash[o] \in Rec)
    BY <2>1 DEF Typed
  <2>4. \A p \in Procs : /\ held[p] = None \/ held[p] \in Rec
                         /\ found[p] = None \/ found[p] \in Rec
    BY <2>1 DEF Typed
  <2> QED
    BY <2>1, <2>2, <2>3, <2>4, Records DEF Typed, TypeOK
<1> QED
  BY <1>1, Invariance, PTL

\* Nobody is at work: nobody has an order.
LEMMA QuietHands == ASSUME IInv, Quiet PROVE \A p \in Procs, o \in Orders : ~ Has(p, o)
BY DEF IInv, Roles, Quiet, Has

\* When nobody is at work, list, price set and hash agree on every order that
\* was neither raced nor swept nor cut (redis.orderbook.service.ts:43-106).
THEOREM BookIsConsistent == Spec => []BookAgrees
<1>1. IInv => BookAgrees
  <2> SUFFICES ASSUME IInv, Quiet, NEW o \in Orders \ (contested \union swept \union cut)
               PROVE  IF hash[o] = None
                      THEN Copies(o) = {}
                      ELSE /\ PriceOf[o] \in levels
                           /\ \E i \in Copies(o) : Copies(o) = {i} /\ list[PriceOf[o]][i] = hash[o]
    BY DEF BookAgrees
  <2>1. Story(o) /\ Kept(o) /\ Typed
    BY DEF IInv, Clean
  <2>2. \A p \in Procs : ~ Has(p, o)
    BY QuietHands
  <2>3. pc[o] \in {"new", "done"}
    BY Members DEF Quiet
  <2>4. \A i \in DOMAIN list[PriceOf[o]] : list[PriceOf[o]][i] # None
    <3>1. list[PriceOf[o]] \in Seq(Rec)
      BY <2>1, OrderBookAssumption DEF Typed
    <3> QED
      BY <3>1, Records
  <2>5. CASE hash[o] = None
    <3>1. ~ In(At(o), o)
      <4>1. CASE pc[o] = "new"
        BY <2>1, <4>1 DEF Story, Early
      <4>2. CASE pc[o] = "done"
        <5>1. Only(At(o), o, None)
          BY <2>1, <2>2, <2>5, <4>2 DEF Story, AtRest
        <5> QED
          BY <2>4, <5>1 DEF Only, In, At
      <4> QED
        BY <2>3, <4>1, <4>2
    <3> QED
      BY <2>5, <3>1 DEF Copies, In, At
  <2>6. CASE hash[o] # None
    <3>1. pc[o] = "done"
      BY <2>1, <2>3, <2>6 DEF Story, Early
    <3>2. Only(At(o), o, hash[o]) /\ Once(At(o), o)
      BY <2>1, <2>2, <3>1 DEF Story, AtRest, OneWorker
    <3>3. In(At(o), o) /\ PriceOf[o] \in levels
      BY <2>1, <2>2, <2>6, <3>1 DEF Kept
    <3>4. PICK i \in DOMAIN At(o) : At(o)[i].id = o
      BY <3>3 DEF In
    <3>5. i \in Copies(o) /\ Copies(o) = {i} /\ list[PriceOf[o]][i] = hash[o]
      BY <3>2, <3>4 DEF Copies, Once, Only, At
    <3> QED
      BY <2>6, <3>3, <3>5
  <2> QED
    BY <2>5, <2>6
<1> QED
  BY <1>1, Invariance, PTL

\* When nobody is at work, what an order offered is traded, given back, or open
\* in its owner's hash, and no part of it twice (order.service.ts:114-141).
THEOREM AmountsOnce == Spec => []EachAmountOnce
<1>1. IInv => EachAmountOnce
  <2> SUFFICES ASSUME IInv, Quiet, NEW o \in Orders \ (contested \union cut)
               PROVE  traded[o] + returned[o]
                        + (IF hash[o] = None THEN 0 ELSE Size[o] - hash[o].filled)
                      = IF pc[o] = "done" THEN Size[o] ELSE 0
    BY DEF EachAmountOnce
  <2>1. Story(o) /\ Typed
    BY DEF IInv, Clean
  <2>2. \A p \in Procs : ~ Has(p, o)
    BY QuietHands
  <2>3. pc[o] \in {"new", "done"}
    BY Members DEF Quiet
  <2>4. Size[o] \in Nat /\ Booked(o) \in Nat /\ Booked(o) = traded[o] + returned[o]
    BY <2>1, OrderBookAssumption DEF Typed, Booked
  <2>5. CASE pc[o] = "new"
    BY <2>1, <2>4, <2>5 DEF Story, Early
  <2>6. CASE pc[o] = "done"
    <3>1. Booked(o) = IF hash[o] = None THEN Size[o] ELSE hash[o].filled
      BY <2>1, <2>2, <2>6 DEF Story, AtRest
    <3>2. hash[o] # None => hash[o].filled \in Nat
      BY <2>1, Records DEF Typed
    <3> QED
      BY <2>4, <2>6, <3>1, <3>2
  <2> QED
    BY <2>3, <2>5, <2>6
<1> QED
  BY <1>1, Invariance, PTL

-----------------------------------------------------------------------------
(***************************************************************************)
(* Levels: as long as nobody died, an empty level that is listed has a     *)
(* caller who is about to fill it or to remove it.  This holds whatever    *)
(* raced, so it speaks of types and roles only.                            *)
(***************************************************************************)
Keeps(q, c) == held[q] # None /\ PriceHeld(q) = c /\ pc[q] \in {"rpush", "llen", "del", "zrem"}

LevelsInUse ==
  faults = 0 =>
    \A c \in levels : list[c] = <<>> => \E q \in Procs : Keeps(q, c)

\* A step of p that neither lists a level nor empties a list leaves a keeper to
\* every level but p's own.
LEMMA OtherKeepers ==
  ASSUME LevelsInUse, UNCHANGED faults, faults = 0, NEW p \in Procs,
         \A q \in Procs \ {p} : pc'[q] = pc[q] /\ held'[q] = held[q],
         NEW c \in levels, list'[c] = <<>>, list[c] = <<>>,
         ~ Keeps(p, c)
  PROVE  \E q \in Procs : Keeps(q, c)'
<1>1. PICK q \in Procs : Keeps(q, c)
  BY DEF LevelsInUse
<1>2. q # p
  BY <1>1
<1>3. Keeps(q, c)'
  BY <1>1, <1>2 DEF Keeps, PriceHeld
<1> QED
  BY <1>3

LEMMA PushLevels ==
  ASSUME Typed, Roles, LevelsInUse, NEW p \in Procs, Push(p)
  PROVE  LevelsInUse'
<1>1. pc[p] \in {"zadd", "rpush", "hset"} /\ UNCHANGED faults
  BY DEF Push, ZAdd, RPush, HSet
<1> DEFINE e == held[p]
           l == PriceHeld(p)
<1>2. e # None /\ e \in Rec /\ l \in Prices
  BY <1>1, InCommand DEF Commands
<1>3. \A q \in Procs \ {p} : pc'[q] = pc[q] /\ held'[q] = held[q]
  BY DEF Push, ZAdd, RPush, HSet, Goto, Typed
<1>4. list[l] \in Seq(Rec) /\ list \in [Prices -> Seq(Rec)]
  BY <1>2 DEF Typed
<1> SUFFICES ASSUME faults' = 0, NEW c \in levels', list'[c] = <<>>
             PROVE  \E q \in Procs : Keeps(q, c)'
  BY DEF LevelsInUse, Keeps
<1>5. c \in Prices
  BY <1>2 DEF Push, ZAdd, RPush, HSet, Typed
<1>6. CASE ZAdd(p)
  <2>1. UNCHANGED <<list, held>> /\ pc'[p] = "rpush" /\ levels' = levels \union {l}
    BY <1>6 DEF ZAdd, Goto, Typed
  <2>2. CASE c = l
    <3>1. Keeps(p, c)'
      BY <1>2, <2>1, <2>2 DEF Keeps, PriceHeld
    <3> QED
      BY <3>1
  <2>3. CASE c # l
    <3>1. c \in levels /\ list[c] = <<>> /\ ~ Keeps(p, c)
      BY <2>1, <2>3 DEF Keeps
    <3> QED
      BY <1>1, <1>3, <3>1, OtherKeepers
  <2> QED
    BY <2>2, <2>3
<1>7. CASE RPush(p)
  <2>1. UNCHANGED levels /\ list' = [list EXCEPT ![l] = Append(list[l], e)]
    BY <1>7 DEF RPush
  <2>2. c # l
    <3>1. list'[l] = Append(list[l], e)
      BY <1>2, <1>4, <2>1
    <3>2. Append(list[l], e) # <<>>
      BY <1>2, <1>4
    <3> QED
      BY <3>1, <3>2
  <2>3. c \in levels /\ list[c] = <<>> /\ ~ Keeps(p, c)
    BY <1>4, <1>5, <2>1, <2>2 DEF Keeps
  <2> QED
    BY <1>1, <1>3, <2>3, OtherKeepers
<1>8. CASE HSet(p)
  <2>1. UNCHANGED <<levels, list>> /\ pc[p] = "hset"
    BY <1>8 DEF HSet
  <2>2. c \in levels /\ list[c] = <<>> /\ ~ Keeps(p, c)
    BY <2>1 DEF Keeps
  <2> QED
    BY <1>1, <1>3, <2>2, OtherKeepers
<1> QED
  BY <1>6, <1>7, <1>8 DEF Push

LEMMA DeleteLevels ==
  ASSUME Typed, Roles, LevelsInUse, NEW p \in Procs, Delete(p)
  PROVE  LevelsInUse'
<1>1. pc[p] \in {"lrange", "lrem", "llen", "del", "zrem", "hdel"} /\ UNCHANGED faults
  BY DEF Delete, LRange, LRem, LLen, Del, ZRem, HDel
<1> DEFINE e == held[p]
           l == PriceHeld(p)
<1>2. e # None /\ e \in Rec /\ l \in Prices
  BY <1>1, InCommand DEF Commands
<1>3. \A q \in Procs \ {p} : pc'[q] = pc[q] /\ held'[q] = held[q]
  BY DEF Delete, LRange, LRem, LLen, Del, ZRem, HDel, Goto, Typed
<1>4. list[l] \in Seq(Rec) /\ list \in [Prices -> Seq(Rec)]
  BY <1>2 DEF Typed
<1> SUFFICES ASSUME faults' = 0, NEW c \in levels', list'[c] = <<>>
             PROVE  \E q \in Procs : Keeps(q, c)'
  BY DEF LevelsInUse, Keeps
<1>5. c \in Prices /\ c \in levels
  BY DEF Delete, LRange, LRem, LLen, Del, ZRem, HDel, store, Typed
<1>6. CASE held' = held /\ pc'[p] \in {"llen", "del", "zrem"} /\ c = l
  <2>1. Keeps(p, c)'
    BY <1>2, <1>6 DEF Keeps, PriceHeld
  <2> QED
    BY <2>1
<1>7. CASE list[c] = <<>> /\ ~ Keeps(p, c)
  BY <1>1, <1>3, <1>5, <1>7, OtherKeepers
<1> HIDE DEF e
<1>8. CASE LRange(p)
  <2>1. UNCHANGED list /\ pc[p] = "lrange"
    BY <1>8 DEF LRange, store
  <2> QED
    BY <1>7, <2>1 DEF Keeps
<1>9. CASE LRem(p)
  <2>1. /\ UNCHANGED held /\ pc[p] = "lrem" /\ pc'[p] = "llen"
        /\ list' = [list EXCEPT ![l] = RemoveFirst(list[l], found[p])]
    BY <1>9 DEF LRem, Goto, Typed
  <2>2. CASE c # l
    <3>1. list[c] = <<>> /\ ~ Keeps(p, c)
      BY <1>4, <1>5, <2>1, <2>2 DEF Keeps
    <3> QED
      BY <1>7, <3>1
  <2> QED
    BY <1>6, <2>1, <2>2
<1>10. CASE LLen(p)
  <2>1. /\ UNCHANGED <<list, held>>
        /\ pc'[p] = IF list[l] = <<>> THEN "del" ELSE "hdel"
    BY <1>10 DEF LLen, Goto, Typed, store
  <2>2. CASE c # l
    <3>1. list[c] = <<>> /\ ~ Keeps(p, c)
      BY <2>1, <2>2 DEF Keeps
    <3> QED
      BY <1>7, <3>1
  <2> HIDE DEF l
  <2> QED
    BY <1>6, <2>1, <2>2
<1>11. CASE Del(p)
  <2>1. /\ UNCHANGED held /\ pc'[p] = "zrem" /\ list' = [list EXCEPT ![l] = <<>>]
    BY <1>11 DEF Del, Goto, Typed
  <2>2. CASE c # l
    <3>1. list[c] = <<>> /\ ~ Keeps(p, c)
      BY <1>4, <1>5, <2>1, <2>2 DEF Keeps
    <3> QED
      BY <1>7, <3>1
  <2> QED
    BY <1>6, <2>1, <2>2
<1>12. CASE ZRem(p)
  <2>1. UNCHANGED list /\ levels' = levels \ {l}
    BY <1>12 DEF ZRem
  <2>2. list[c] = <<>> /\ ~ Keeps(p, c)
    BY <2>1 DEF Keeps
  <2> QED
    BY <1>7, <2>2
<1>13. CASE HDel(p)
  <2>1. UNCHANGED list /\ pc[p] = "hdel"
    BY <1>13 DEF HDel
  <2> QED
    BY <1>7, <2>1 DEF Keeps
<1> QED
  BY <1>8, <1>9, <1>10, <1>11, <1>12, <1>13 DEF Delete

LEMMA OtherLevels ==
  ASSUME Typed, Roles, LevelsInUse, NEW p \in Procs,
         \/ p \in Orders /\ Place(p)
         \/ p \in Closers /\ (Fetch(p) \/ Refund(p))
         \/ p \in Matchers /\ (ReadLevels(p) \/ ReadList(p) \/ Take(p))
  PROVE  LevelsInUse'
<1>1. /\ UNCHANGED <<levels, list, faults>>
      /\ \A q \in Procs \ {p} : pc'[q] = pc[q]
      /\ pc[p] \in {"new", "refund", "read", "take"}
  BY Members DEF Place, Fetch, Refund, ReadLevels, ReadList, Take, Goto, store, Typed
<1>2. \A q \in Procs \ {p} : held'[q] = held[q]
  <2>1. CASE p \in Matchers /\ Take(p)
    BY <2>1, TakeIs DEF Typed
  <2>2. CASE ~ (p \in Matchers /\ Take(p))
    BY <2>2 DEF Place, Fetch, Refund, ReadLevels, ReadList, Typed
  <2> QED
    BY <2>1, <2>2
<1>3. \A c : ~ Keeps(p, c)
  BY <1>1 DEF Keeps
<1> SUFFICES ASSUME faults' = 0, NEW c \in levels', list'[c] = <<>>
             PROVE  \E q \in Procs : Keeps(q, c)'
  BY DEF LevelsInUse, Keeps
<1> QED
  BY <1>1, <1>2, <1>3, OtherKeepers

\* When nobody is at work and nobody died, a listed price has an order: a market
\* order that was accepted because the book has a level finds one
\* (redis.orderbook.service.ts:79-106, balance.service.ts:261).
THEOREM LevelsHaveOrders == Spec => []NoEmptyLevel
<1>1. Init => LevelsInUse
  BY DEF Init, LevelsInUse
<1>2. IInv /\ LevelsInUse /\ [Next]_vars => LevelsInUse'
  <2> SUFFICES ASSUME IInv, LevelsInUse, [Next]_vars PROVE LevelsInUse'
    OBVIOUS
  <2>1. Typed /\ Roles
    BY DEF IInv
  <2>2. CASE \E o \in Orders : Place(o)
    BY <2>1, <2>2, OtherLevels, Members
  <2>3. CASE \E c \in Closers : Fetch(c) \/ Refund(c)
    BY <2>1, <2>3, OtherLevels, Members
  <2>4. CASE \E j \in Matchers : ReadLevels(j) \/ ReadList(j) \/ Take(j)
    BY <2>1, <2>4, OtherLevels, Members
  <2>5. CASE \E p \in Procs : Push(p) \/ Delete(p)
    BY <2>1, <2>5, PushLevels, DeleteLevels
  <2>6. CASE Crash
    BY <2>1, <2>6, CrashIs DEF LevelsInUse
  <2>7. CASE Terminated \/ UNCHANGED vars
    <3>1. UNCHANGED <<levels, list, pc, held, faults>>
      BY <2>7 DEF Terminated, vars, store
    <3> QED
      BY <3>1 DEF LevelsInUse, Keeps, PriceHeld
  <2> QED
    BY <2>2, <2>3, <2>4, <2>5, <2>6, <2>7 DEF Next
<1>3. LevelsInUse => NoEmptyLevel
  BY DEF LevelsInUse, NoEmptyLevel, Keeps, Quiet
<1> QED
  BY <1>1, <1>2, <1>3, Invariance, PTL DEF Spec
=============================================================================
