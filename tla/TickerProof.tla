---------------------------- MODULE TickerProof ----------------------------
(***************************************************************************)
(* Theorems about Ticker for any fills, days, activations and faults.  A   *)
(* ticker is copied by every reader, restored from rows and written back   *)
(* without a lock; the proof bounds what a copy can contain (no fill       *)
(* before it was written, none twice), and shows that a fill leaves the    *)
(* stored ticker only in the ways TickerKept names.                        *)
(***************************************************************************)
EXTENDS Ticker, FiniteSetTheorems, TLAPS

\* Every ticker that is stored, in a row, or in the hands of a reader.
Copies == {store} \union {r.ticker : r \in rows} \union {got[p] : p \in Readers}

\* Where each actor can be; who is about to write has a ticker; no stamp is
\* later than the last one that was taken.
Roles ==
  /\ \A f \in Fills : pc[f] \in {"idle", "get", "query", "restore", "got", "add", "done"}
  /\ \A p \in Flushers : pc[p] \in {"boot", "idle", "get", "query", "restore", "got"}
  /\ pc[Daily] \in {"idle", "get", "query", "restore", "got"}
  /\ pc[Activator] \in {"idle", "got", "add"}
  /\ \A p \in Readers : pc[p] \in {"restore", "got"} => got[p] # None
  /\ \A c \in Copies : c # None => c.at <= now

Typed == TypeOK /\ Roles

Once(c, f) == \A i, j \in DOMAIN c.fills : c.fills[i] = f /\ c.fills[j] = f => i = j

\* A fill is in no ticker before it was written, and in none twice.
Fresh == \A f \in Fills : pc[f] \notin {"add", "done"} => \A c \in Copies : f \notin FillsOf(c)
Single == \A c \in Copies : c # None => \A f \in Fills : Once(c, f)

\* A fill that was written and is not gone is in the ticker.
Stored == \A f \in Fills \ gone : pc[f] \in {"add", "done"} => f \in FillsOf(store)

IInv == Typed /\ Fresh /\ Single /\ Stored

(***************************************************************************)
(* Tickers.                                                                *)
(***************************************************************************)

LEMMA Names ==
  /\ None \notin Tickers
  /\ \A f \in Fills : f \notin Flushers /\ f # Daily /\ f # Activator
  /\ Daily \notin Flushers /\ Activator \notin Flushers /\ Daily # Activator
  /\ Api # Worker /\ Activator \notin Readers
BY TickerAssumption DEF Tickers, Flushers, Readers

LEMMA FillsTyped ==
  ASSUME NEW t \in Tickers \union {None}
  PROVE  FillsOf(t) \subseteq Fills
<1>1. CASE t = None
  BY <1>1 DEF FillsOf
<1>2. CASE t # None
  <2>1. t.fills \in Seq(Fills)
    BY <1>2 DEF Tickers
  <2>2. \A i \in DOMAIN t.fills : t.fills[i] \in Fills
    BY <2>1
  <2> QED
    BY <1>2, <2>2 DEF FillsOf, ToSet
<1> QED
  BY <1>1, <1>2

LEMMA MergedTicker ==
  ASSUME NEW t \in Tickers, NEW f \in Fills, stamp[f] \in Nat
  PROVE  /\ Merged(t, f) \in Tickers
         /\ Merged(t, f).at = stamp[f]
         /\ FillsOf(Merged(t, f)) = FillsOf(t) \union {f}
         /\ f \notin FillsOf(t) => Once(Merged(t, f), f)
         /\ \A g \in Fills \ {f} : Once(t, g) => Once(Merged(t, f), g)
<1> DEFINE m == Merged(t, f)
<1>1. t # None /\ t.fills \in Seq(Fills)
  BY Names DEF Tickers
<1>2. Append(t.fills, f) \in Seq(Fills)
  BY <1>1
<1>3. m \in Tickers /\ m.at = stamp[f] /\ m.fills = Append(t.fills, f)
  BY <1>2 DEF Merged, Tickers
<1>4. m # None
  BY <1>3, Names
<1>5. /\ DOMAIN m.fills = 1 .. Len(t.fills) + 1
      /\ DOMAIN t.fills = 1 .. Len(t.fills)
      /\ m.fills[Len(t.fills) + 1] = f
      /\ \A i \in DOMAIN t.fills : m.fills[i] = t.fills[i]
      /\ Len(t.fills) \in Nat
  BY <1>1, <1>3
<1> HIDE DEF m
<1>6. FillsOf(m) = FillsOf(t) \union {f}
  <2>1. FillsOf(m) = {m.fills[i] : i \in DOMAIN m.fills}
    BY <1>4 DEF FillsOf, ToSet
  <2>2. FillsOf(t) = {t.fills[i] : i \in DOMAIN t.fills}
    BY <1>1 DEF FillsOf, ToSet
  <2>3. ASSUME NEW u \in FillsOf(m) PROVE u \in FillsOf(t) \union {f}
    BY <1>5, <2>1, <2>2
  <2>4. ASSUME NEW u \in FillsOf(t) PROVE u \in FillsOf(m)
    BY <1>5, <2>1, <2>2
  <2>5. f \in FillsOf(m)
    BY <1>5, <2>1
  <2> QED
    BY <2>3, <2>4, <2>5
<1>7. f \notin FillsOf(t) => Once(m, f)
  <2>1. f \notin FillsOf(t) => \A i \in DOMAIN t.fills : t.fills[i] # f
    BY <1>1 DEF FillsOf, ToSet
  <2> QED
    BY <1>5, <2>1 DEF Once
<1>8. \A g \in Fills \ {f} : Once(t, g) => Once(m, g)
  BY <1>5 DEF Once
<1> QED
  BY <1>3, <1>6, <1>7, <1>8 DEF m

LEMMA InitialTicker ==
  ASSUME NEW n \in Nat
  PROVE  LET t == [fills |-> <<>>, at |-> n] IN
         t \in Tickers /\ t.at = n /\ FillsOf(t) = {} /\ \A f \in Fills : Once(t, f)
<1> DEFINE s == << >>
           t == [fills |-> s, at |-> n]
<1>0. s \in Seq(Fills) /\ DOMAIN s = {}
  OBVIOUS
<1> HIDE DEF s
<1>1. t \in Tickers
  BY <1>0 DEF Tickers
<1>2. t # None
  BY <1>1, Names
<1>3. DOMAIN t.fills = {} /\ t.at = n
  BY <1>0
<1> HIDE DEF t
<1>4. FillsOf(t) = {}
  BY <1>2, <1>3 DEF FillsOf, ToSet
<1>5. \A f \in Fills : Once(t, f)
  BY <1>3 DEF Once
<1> QED
  BY <1>1, <1>3, <1>4, <1>5 DEF s, t

LEMMA SummaryTyped ==
  ASSUME NEW t \in Tickers
  PROVE  Summary(t) \in [last : Fills \union {None}, at : Nat]
<1>1. t.fills \in Seq(Fills) /\ t.at \in Nat
  BY DEF Tickers
<1>2. t.fills # <<>> => Last(t.fills) \in Fills
  BY <1>1 DEF Last
<1> QED
  BY <1>1, <1>2 DEF Summary

LEMMA CopyTyped ==
  ASSUME TypeOK, NEW c \in Copies
  PROVE  c \in Tickers \union {None}
BY DEF TypeOK, Copies

(***************************************************************************)
(* Types and roles.                                                        *)
(***************************************************************************)

PcValues == {"boot", "idle", "get", "query", "restore", "got", "add", "done"}

LEMMA InitTyped == Init => Typed
<1> SUFFICES ASSUME Init PROVE Typed
  OBVIOUS
<1>1. /\ Fills \subseteq Readers /\ Flushers \subseteq Readers /\ Daily \in Readers
      /\ Readers \subseteq Actors /\ Activator \in Actors
  BY DEF Readers, Actors
<1>2. \A c \in Copies : c = None
  BY DEF Init, Copies
<1>3. TypeOK
  <2>1. listed \in BOOLEAN
    BY DEF Init
  <2>2. /\ pc \in [Actors -> {"boot", "idle", "get", "query", "restore", "got", "add", "done"}]
        /\ got \in [Readers -> Tickers \union {None}]
        /\ stamp \in [Fills \union {Activator} -> 0 .. now]
        /\ seen \in [Flushers -> [last : Fills \union {None}, at : Nat] \union {None}]
    BY DEF Init
  <2> QED
    BY <2>1, <2>2, TickerAssumption DEF Init, TypeOK
<1>4. Roles
  BY <1>1, <1>2, Names DEF Init, Roles
<1> QED
  BY <1>3, <1>4 DEF Typed

\* A reader's step: it goes on, with what it has got, and nothing else changes.
LEMMA ReaderTyped ==
  ASSUME Typed, NEW p \in Readers, NEW step \in PcValues, NEW t \in Copies \union {None},
         Goto(p, step), got' = [got EXCEPT ![p] = t],
         step \in {"restore", "got"} => t # None,
         p \in Fills => step # "boot",
         p \notin Fills => step \notin {"add", "done"},
         p = Daily => step # "boot",
         store' = store \/ store' \in Copies \union {None},
         \A r \in rows' : r \in rows \/ (r \in [day : 0 .. day, ticker : Tickers] /\ r.ticker \in Copies),
         listed' \in BOOLEAN,
         seen' \in [Flushers -> [last : Fills \union {None}, at : Nat] \union {None}],
         newest' \in 0 .. now, gone' \subseteq Fills,
         UNCHANGED <<day, now, active, stamp, faults>>
  PROVE  Typed'
<1>1. /\ Fills \subseteq Readers /\ Flushers \subseteq Readers /\ Daily \in Readers
      /\ Readers \subseteq Actors /\ Activator \in Actors
  BY DEF Readers, Actors
<1>2. t \in Tickers \union {None}
  BY CopyTyped DEF Typed
<1>3. store' \in Tickers \union {None}
  BY CopyTyped DEF Typed, TypeOK
<1>4. \A q \in Actors : pc'[q] = IF q = p THEN step ELSE pc[q]
  BY <1>1 DEF Goto, Typed, TypeOK
<1>5. \A q \in Readers : got'[q] = IF q = p THEN t ELSE got[q]
  BY DEF Typed, TypeOK
<1>6. /\ pc' \in [Actors -> {"boot", "idle", "get", "query", "restore", "got", "add", "done"}]
      /\ got' \in [Readers -> Tickers \union {None}]
      /\ rows' \subseteq [day : 0 .. day, ticker : Tickers]
  BY <1>1, <1>2 DEF Goto, PcValues, Typed, TypeOK
<1>7. TypeOK'
  BY <1>3, <1>6 DEF Typed, TypeOK
<1>8. \A c \in Copies' : c = None \/ c \in Copies
  <2>1. store' = None \/ store' \in Copies
    BY DEF Copies
  <2>2. \A r \in rows' : r.ticker \in Copies
    BY DEF Copies
  <2>3. \A q \in Readers : got'[q] = None \/ got'[q] \in Copies
    BY <1>5 DEF Copies
  <2> QED
    BY <2>1, <2>2, <2>3 DEF Copies
<1>9. Roles'
  <2>1. /\ \A f \in Fills : pc'[f] \in {"idle", "get", "query", "restore", "got", "add", "done"}
        /\ \A q \in Flushers : pc'[q] \in {"boot", "idle", "get", "query", "restore", "got"}
        /\ pc'[Daily] \in {"idle", "get", "query", "restore", "got"}
        /\ pc'[Activator] \in {"idle", "got", "add"}
    BY <1>1, <1>4, Names DEF Typed, Roles, PcValues
  <2>2. \A q \in Readers : pc'[q] \in {"restore", "got"} => got'[q] # None
    BY <1>1, <1>4, <1>5 DEF Typed, Roles
  <2>3. \A c \in Copies' : c # None => c.at <= now'
    BY <1>8 DEF Typed, Roles
  <2> QED
    BY <2>1, <2>2, <2>3 DEF Roles
<1> QED
  BY <1>7, <1>9 DEF Typed

LEMMA GetTyped ==
  ASSUME Typed, NEW p \in Readers, Get(p) \/ QueryFinds(p) \/ Restore(p)
  PROVE  Typed'
<1> USE DEF PcValues
<1>0. /\ listed \in BOOLEAN /\ newest \in 0 .. now /\ gone \subseteq Fills
      /\ seen \in [Flushers -> [last : Fills \union {None}, at : Nat] \union {None}]
      /\ got = [got EXCEPT ![p] = got[p]]
      /\ now \in Nat
  BY DEF Typed, TypeOK
<1>1. ASSUME Get(p), store # None PROVE Typed'
  <2>1. /\ Goto(p, "got") /\ got' = [got EXCEPT ![p] = store] /\ store \in Copies
        /\ UNCHANGED <<day, now, active, store, listed, rows, stamp, seen, faults, newest, gone>>
    BY <1>1 DEF Get, Copies
  <2> QED
    BY <1>0, <1>1, <2>1, ReaderTyped
<1>2. ASSUME Get(p), store = None PROVE Typed'
  <2>1. /\ Goto(p, "query") /\ got' = [got EXCEPT ![p] = got[p]] /\ got[p] \in Copies
        /\ UNCHANGED <<day, now, active, store, listed, rows, stamp, seen, faults, newest, gone>>
    BY <1>0, <1>2 DEF Get, Copies
  <2> QED
    BY <1>0, <2>1, ReaderTyped
<1>3. ASSUME QueryFinds(p) PROVE Typed'
  <2>1. PICK r \in rows : got' = [got EXCEPT ![p] = r.ticker]
    BY <1>3 DEF QueryFinds, Today
  <2>2. r.ticker \in Copies /\ r.ticker # None
    BY <2>1, Names DEF Typed, TypeOK, Copies
  <2>3. /\ Goto(p, "restore")
        /\ UNCHANGED <<day, now, active, store, listed, rows, stamp, seen, faults, newest, gone>>
    BY <1>3 DEF QueryFinds
  <2> QED
    BY <1>0, <2>1, <2>2, <2>3, ReaderTyped
<1>4. ASSUME Restore(p) PROVE Typed'
  <2>1. /\ Goto(p, "got") /\ got' = [got EXCEPT ![p] = got[p]] /\ got[p] \in Copies
        /\ store' \in Copies /\ pc[p] = "restore"
        /\ UNCHANGED <<day, now, active, listed, rows, stamp, seen, faults>>
    BY <1>0, <1>4 DEF Restore, Write, Copies
  <2>2. got[p] # None /\ got[p].at \in 0 .. now
    <3>1. got[p] # None /\ got[p].at <= now
      BY <2>1 DEF Typed, Roles
    <3> QED
      BY <1>0, <3>1 DEF Typed, TypeOK, Tickers
  <2>3. newest' \in 0 .. now
    BY <1>0, <1>4, <2>2 DEF Restore, Write
  <2>4. gone' \subseteq Fills
    <3>1. FillsOf(store) \subseteq Fills
      BY FillsTyped DEF Typed, TypeOK
    <3> QED
      BY <1>0, <1>4, <3>1 DEF Restore, Write
  <2> QED
    BY <1>0, <2>1, <2>2, <2>3, <2>4, ReaderTyped
<1> QED
  BY <1>1, <1>2, <1>3, <1>4

LEMMA SaveRowTyped ==
  ASSUME Typed, SaveRow
  PROVE  Typed'
<1> USE DEF PcValues
<1>0. /\ listed \in BOOLEAN /\ newest \in 0 .. now /\ gone \subseteq Fills
      /\ seen \in [Flushers -> [last : Fills \union {None}, at : Nat] \union {None}]
      /\ Daily \in Readers /\ Daily \notin Fills /\ day \in Nat
  BY TickerAssumption DEF Typed, TypeOK, Readers
<1>1. /\ Goto(Daily, "idle") /\ got' = [got EXCEPT ![Daily] = None] /\ pc[Daily] = "got"
      /\ rows' = rows \union {[day |-> day, ticker |-> got[Daily]]}
      /\ UNCHANGED <<day, now, active, store, listed, stamp, seen, faults, newest, gone>>
  BY DEF SaveRow
<1>2. got[Daily] \in Tickers /\ got[Daily] \in Copies
  BY <1>0, <1>1 DEF Typed, TypeOK, Roles, Copies
<1>3. \A r \in rows' : r \in rows \/ (r \in [day : 0 .. day, ticker : Tickers] /\ r.ticker \in Copies)
  BY <1>0, <1>1, <1>2
<1> QED
  BY <1>0, <1>1, <1>3, ReaderTyped

LEMMA FlusherTyped ==
  ASSUME Typed, NEW p \in Flushers, Boot(p) \/ StartFlush(p) \/ Flush(p)
  PROVE  Typed'
<1> USE DEF PcValues
<1>0. /\ listed \in BOOLEAN /\ newest \in 0 .. now /\ gone \subseteq Fills
      /\ p \in Readers /\ p \notin Fills /\ p # Daily
      /\ seen \in [Flushers -> [last : Fills \union {None}, at : Nat] \union {None}]
      /\ got = [got EXCEPT ![p] = got[p]] /\ got[p] \in Copies
  BY Names DEF Typed, TypeOK, Readers, Copies
<1>1. ASSUME Boot(p) \/ StartFlush(p) PROVE Typed'
  <2>1. /\ Goto(p, "get") \/ Goto(p, "idle")
        /\ got' = [got EXCEPT ![p] = got[p]]
        /\ UNCHANGED <<day, now, active, store, listed, rows, stamp, seen, faults, newest, gone>>
    BY <1>0, <1>1 DEF Boot, StartFlush
  <2>2. CASE Goto(p, "get")
    BY <1>0, <2>1, <2>2, ReaderTyped
  <2>3. CASE Goto(p, "idle")
    BY <1>0, <2>1, <2>3, ReaderTyped
  <2> QED
    BY <2>1, <2>2, <2>3
<1>2. ASSUME Flush(p) PROVE Typed'
  <2>1. /\ Goto(p, "idle") /\ got' = [got EXCEPT ![p] = None] /\ pc[p] = "got"
        /\ seen' = seen \/ seen' = [seen EXCEPT ![p] = Summary(got[p])]
        /\ UNCHANGED <<day, now, active, store, listed, rows, stamp, faults, newest, gone>>
    BY <1>2 DEF Flush
  <2>2. got[p] \in Tickers
    BY <1>0, <2>1 DEF Typed, TypeOK, Roles
  <2>3. seen' \in [Flushers -> [last : Fills \union {None}, at : Nat] \union {None}]
    <3>1. Summary(got[p]) \in [last : Fills \union {None}, at : Nat]
      BY <2>2, SummaryTyped
    <3> QED
      BY <1>0, <2>1, <3>1
  <2> QED
    BY <1>0, <2>1, <2>3, ReaderTyped
<1> QED
  BY <1>1, <1>2

\* A new stamp is later than all that were taken.
LEMMA StampTyped ==
  ASSUME Typed, NEW p \in Fills \union {Activator}, Stamp(p)
  PROVE  /\ now' \in Nat /\ now' = now + 1
         /\ stamp' \in [Fills \union {Activator} -> 0 .. now']
         /\ newest \in 0 .. now'
         /\ \A c \in Copies : c # None => c.at <= now'
<1>1. now \in Nat /\ now' = now + 1 /\ stamp' = [stamp EXCEPT ![p] = now + 1]
      /\ stamp \in [Fills \union {Activator} -> 0 .. now]
  BY DEF Stamp, Typed, TypeOK
<1>2. stamp' \in [Fills \union {Activator} -> 0 .. now']
  BY <1>1
<1>3. \A c \in Copies : c # None => c.at <= now'
  <2> SUFFICES ASSUME NEW c \in Copies, c # None PROVE c.at <= now'
    OBVIOUS
  <2>1. c \in Tickers /\ c.at <= now
    BY CopyTyped DEF Typed, Roles
  <2>2. c.at \in Nat
    BY <2>1 DEF Tickers
  <2> QED
    BY <1>1, <2>1, <2>2
<1> QED
  BY <1>1, <1>2, <1>3 DEF Typed, TypeOK

LEMMA StartTyped ==
  ASSUME Typed, (\E f \in Fills : StartFill(f)) \/ Activate
  PROVE  Typed'
<1>0. /\ Fills \subseteq Readers /\ Flushers \subseteq Readers /\ Daily \in Readers
      /\ Readers \subseteq Actors /\ Activator \in Actors
  BY DEF Readers, Actors
<1>1. PICK p \in Fills \union {Activator} :
        /\ Stamp(p)
        /\ Goto(p, IF p \in Fills THEN "get" ELSE "got")
        /\ active' \in 0 .. MaxActivations
        /\ UNCHANGED <<day, store, listed, rows, got, seen, faults, newest, gone>>
  <2>1. ASSUME NEW f \in Fills, StartFill(f)
        PROVE  /\ Stamp(f)
               /\ Goto(f, IF f \in Fills THEN "get" ELSE "got")
               /\ active' \in 0 .. MaxActivations
               /\ UNCHANGED <<day, store, listed, rows, got, seen, faults, newest, gone>>
    BY <2>1 DEF StartFill, Typed, TypeOK
  <2>2. ASSUME Activate
        PROVE  /\ Stamp(Activator)
               /\ Goto(Activator, IF Activator \in Fills THEN "get" ELSE "got")
               /\ active' \in 0 .. MaxActivations
               /\ UNCHANGED <<day, store, listed, rows, got, seen, faults, newest, gone>>
    BY <2>2, TickerAssumption DEF Activate, Typed, TypeOK
  <2> QED
    BY <2>1, <2>2
<1>2. /\ now' \in Nat /\ now' = now + 1
      /\ stamp' \in [Fills \union {Activator} -> 0 .. now']
      /\ newest' \in 0 .. now'
      /\ \A c \in Copies : c # None => c.at <= now'
  BY <1>1, StampTyped
<1>3. \A q \in Actors : pc'[q] = IF q = p THEN IF p \in Fills THEN "get" ELSE "got" ELSE pc[q]
  BY <1>0, <1>1 DEF Goto, Typed, TypeOK
<1>4. pc' \in [Actors -> {"boot", "idle", "get", "query", "restore", "got", "add", "done"}]
  BY <1>0, <1>1 DEF Goto, Typed, TypeOK
<1>5. TypeOK'
  BY <1>1, <1>2, <1>4 DEF Typed, TypeOK
<1>6. Copies' = Copies
  BY <1>1 DEF Copies
<1>7. Roles'
  <2>1. /\ \A f \in Fills : pc'[f] \in {"idle", "get", "query", "restore", "got", "add", "done"}
        /\ \A q \in Flushers : pc'[q] \in {"boot", "idle", "get", "query", "restore", "got"}
        /\ pc'[Daily] \in {"idle", "get", "query", "restore", "got"}
        /\ pc'[Activator] \in {"idle", "got", "add"}
    BY <1>0, <1>3, Names DEF Typed, Roles
  <2>2. \A q \in Readers : pc'[q] \in {"restore", "got"} => got'[q] # None
    <3>1. p \in Readers => p \in Fills
      BY Names
    <3> QED
      BY <1>0, <1>1, <1>3, <3>1 DEF Typed, Roles
  <2> QED
    BY <1>2, <1>6, <2>1, <2>2 DEF Roles
<1> QED
  BY <1>5, <1>7 DEF Typed

\* A SET of a ticker that is not stamped later than now.
LEMMA WriteTyped ==
  ASSUME Typed, NEW t \in Tickers, t.at <= now, NEW kept, Write(t, kept)
  PROVE  /\ store' = t /\ newest' \in 0 .. now /\ gone' \subseteq Fills
<1>1. /\ store' = t /\ newest' = IF t.at > newest THEN t.at ELSE newest
      /\ gone' = gone \union ((FillsOf(store) \ kept) \ FillsOf(t))
  BY DEF Write
<1>2. t.at \in Nat /\ now \in Nat /\ newest \in 0 .. now /\ gone \subseteq Fills
  BY DEF Typed, TypeOK, Tickers
<1>3. FillsOf(store) \subseteq Fills
  BY FillsTyped DEF Typed, TypeOK
<1>4. gone' \subseteq Fills
  BY <1>1, <1>2, <1>3
<1> QED
  BY <1>1, <1>2, <1>4

\* The step of one actor that may store a ticker and give up its copy.
LEMMA WriterTyped ==
  ASSUME Typed, NEW p \in Fills \union {Activator}, NEW step \in {"add", "done", "idle"},
         Goto(p, step), p = Activator => step # "done",
         got' = [q \in Readers |-> IF q = p THEN None ELSE got[q]] \/ got' = got,
         store' = store \/ (store' \in Tickers /\ store'.at <= now),
         listed' \in BOOLEAN, newest' \in 0 .. now, gone' \subseteq Fills,
         UNCHANGED <<day, now, active, rows, stamp, seen, faults>>
  PROVE  Typed'
<1>0. /\ Fills \subseteq Readers /\ Flushers \subseteq Readers /\ Daily \in Readers
      /\ Readers \subseteq Actors /\ Activator \in Actors
  BY DEF Readers, Actors
<1>1. \A q \in Actors : pc'[q] = IF q = p THEN step ELSE pc[q]
  BY <1>0 DEF Goto, Typed, TypeOK
<1>2. \A q \in Readers : got'[q] = got[q] \/ (q = p /\ got'[q] = None)
  BY DEF Typed, TypeOK
<1>3. pc' \in [Actors -> {"boot", "idle", "get", "query", "restore", "got", "add", "done"}]
  BY <1>0 DEF Goto, Typed, TypeOK
<1>4. got' \in [Readers -> Tickers \union {None}]
  BY DEF Typed, TypeOK
<1>5. TypeOK'
  BY <1>3, <1>4 DEF Typed, TypeOK
<1>6. \A c \in Copies' : c = None \/ c \in Copies \/ c.at <= now
  <2>1. store' \in Copies \/ store'.at <= now
    BY DEF Copies
  <2>2. \A r \in rows' : r.ticker \in Copies
    BY DEF Copies
  <2>3. \A q \in Readers : got'[q] = None \/ got'[q] \in Copies
    BY <1>2 DEF Copies
  <2> QED
    BY <2>1, <2>2, <2>3 DEF Copies
<1>7. Roles'
  <2>1. /\ \A f \in Fills : pc'[f] \in {"idle", "get", "query", "restore", "got", "add", "done"}
        /\ \A q \in Flushers : pc'[q] \in {"boot", "idle", "get", "query", "restore", "got"}
        /\ pc'[Daily] \in {"idle", "get", "query", "restore", "got"}
        /\ pc'[Activator] \in {"idle", "got", "add"}
    BY <1>0, <1>1, Names DEF Typed, Roles
  <2>2. \A q \in Readers : pc'[q] \in {"restore", "got"} => got'[q] # None
    BY <1>0, <1>1, <1>2 DEF Typed, Roles
  <2>3. \A c \in Copies' : c # None => c.at <= now'
    BY <1>6 DEF Typed, Roles
  <2> QED
    BY <2>1, <2>2, <2>3 DEF Roles
<1> QED
  BY <1>5, <1>7 DEF Typed

LEMMA WriteFillTyped ==
  ASSUME Typed, NEW f \in Fills, WriteFill(f)
  PROVE  Typed' /\ got[f] \in Tickers /\ stamp[f] \in Nat
<1>0. f \in Readers /\ f # Activator
  BY Names DEF Readers
<1>1. /\ pc[f] = "got" /\ Goto(f, "add") /\ got' = [got EXCEPT ![f] = None]
      /\ Write(Merged(got[f], f), IF store = got[f] THEN FillsOf(store) ELSE {})
      /\ UNCHANGED <<day, now, active, listed, rows, stamp, seen, faults>>
  BY DEF WriteFill
<1>2. got[f] \in Tickers /\ stamp[f] \in 0 .. now /\ now \in Nat /\ listed' \in BOOLEAN
  BY <1>0, <1>1 DEF Typed, TypeOK, Roles
<1>3. Merged(got[f], f) \in Tickers /\ Merged(got[f], f).at <= now
  BY <1>2, MergedTicker
<1>4. store' \in Tickers /\ store'.at <= now /\ newest' \in 0 .. now /\ gone' \subseteq Fills
  BY <1>1, <1>3, WriteTyped
<1>5. got' = [q \in Readers |-> IF q = f THEN None ELSE got[q]]
  BY <1>0, <1>1 DEF Typed, TypeOK
<1>6. Typed'
  BY <1>0, <1>1, <1>2, <1>4, <1>5, WriterTyped
<1> QED
  BY <1>2, <1>6

LEMMA WriteInitialTyped ==
  ASSUME Typed, WriteInitial
  PROVE  /\ Typed' /\ store' # None /\ FillsOf(store') = {} /\ \A f \in Fills : Once(store', f)
         /\ gone' = gone \union FillsOf(store)
<1> DEFINE t == [fills |-> <<>>, at |-> stamp[Activator]]
<1>1. /\ Goto(Activator, "add") /\ Write(t, {})
      /\ UNCHANGED <<day, now, active, listed, rows, got, stamp, seen, faults>>
  BY DEF WriteInitial
<1>2. stamp[Activator] \in 0 .. now /\ now \in Nat /\ listed' \in BOOLEAN
  BY <1>1 DEF Typed, TypeOK
<1>3. t \in Tickers /\ t.at <= now /\ FillsOf(t) = {} /\ \A f \in Fills : Once(t, f)
  BY <1>2, InitialTicker
<1> HIDE DEF t
<1>4. store' = t /\ newest' \in 0 .. now /\ gone' \subseteq Fills
  BY <1>1, <1>3, WriteTyped
<1>5. Typed'
  BY <1>1, <1>2, <1>3, <1>4, WriterTyped
<1>6. gone' = gone \union FillsOf(store)
  BY <1>1, <1>3 DEF Write
<1> QED
  BY <1>3, <1>4, <1>5, <1>6, Names

LEMMA AddTyped ==
  ASSUME Typed, NEW p \in Fills \union {Activator}, Add(p)
  PROVE  Typed'
<1>1. /\ Goto(p, IF p \in Fills THEN "done" ELSE "idle") /\ listed' \in BOOLEAN
      /\ UNCHANGED <<day, now, active, store, rows, got, stamp, seen, faults, newest, gone>>
  BY DEF Add
<1>2. newest' \in 0 .. now /\ gone' \subseteq Fills
  BY <1>1 DEF Typed, TypeOK
<1>3. CASE p \in Fills
  BY <1>1, <1>2, <1>3, Names, WriterTyped
<1>4. CASE p = Activator
  BY <1>1, <1>2, <1>4, Names, WriterTyped
<1> QED
  BY <1>3, <1>4

LEMMA MidnightTyped ==
  ASSUME Typed, Midnight
  PROVE  Typed' /\ Copies' = Copies /\ \A q \in Actors : q # Daily => pc'[q] = pc[q]
<1>0. /\ Fills \subseteq Readers /\ Flushers \subseteq Readers /\ Daily \in Readers
      /\ Readers \subseteq Actors /\ Activator \in Actors
  BY DEF Readers, Actors
<1>1. /\ Goto(Daily, "get") \/ UNCHANGED pc
      /\ faults' \in 0 .. MaxFaults
      /\ day' = day + 1 /\ day' \in 0 .. MaxDays
      /\ UNCHANGED <<now, active, store, listed, rows, got, stamp, seen, newest, gone>>
  BY TickerAssumption DEF Midnight, Typed, TypeOK
<1>2. \A q \in Actors : pc'[q] = IF q = Daily THEN IF Goto(Daily, "get") THEN "get" ELSE pc[q] ELSE pc[q]
  BY <1>0, <1>1 DEF Goto, Typed, TypeOK
<1>3. pc' \in [Actors -> {"boot", "idle", "get", "query", "restore", "got", "add", "done"}]
  BY <1>0, <1>1 DEF Goto, Typed, TypeOK
<1>4. rows' \subseteq [day : 0 .. day', ticker : Tickers]
  <2>1. rows \subseteq [day : 0 .. day, ticker : Tickers] /\ day \in Nat
    BY DEF Typed, TypeOK
  <2>2. 0 .. day \subseteq 0 .. day'
    BY <1>1, <2>1
  <2> QED
    BY <1>1, <2>1, <2>2
<1>5. TypeOK'
  BY <1>1, <1>3, <1>4 DEF Typed, TypeOK
<1>6. Copies' = Copies
  BY <1>1 DEF Copies
<1>7. Roles'
  <2>1. /\ \A f \in Fills : pc'[f] \in {"idle", "get", "query", "restore", "got", "add", "done"}
        /\ \A q \in Flushers : pc'[q] \in {"boot", "idle", "get", "query", "restore", "got"}
        /\ pc'[Daily] \in {"idle", "get", "query", "restore", "got"}
        /\ pc'[Activator] \in {"idle", "got", "add"}
    BY <1>0, <1>2, Names DEF Typed, Roles
  <2>2. \A q \in Readers : pc'[q] \in {"restore", "got"} => got'[q] # None
    BY <1>0, <1>1, <1>2 DEF Typed, Roles
  <2>3. \A c \in Copies' : c # None => c.at <= now'
    BY <1>1, <1>6 DEF Typed, Roles
  <2> QED
    BY <2>1, <2>2, <2>3 DEF Roles
<1> QED
  BY <1>2, <1>5, <1>6, <1>7 DEF Typed

LEMMA LosesTyped ==
  ASSUME Typed, RedisLoses
  PROVE  Typed'
<1>1. /\ faults' \in 0 .. MaxFaults /\ store' = None /\ listed' = FALSE
      /\ gone' = gone \union FillsOf(store)
      /\ UNCHANGED <<day, now, active, rows, pc, got, stamp, seen, newest>>
  BY TickerAssumption DEF RedisLoses, Typed, TypeOK
<1>2. FillsOf(store) \subseteq Fills
  BY FillsTyped DEF Typed, TypeOK
<1>3. gone' \subseteq Fills /\ listed' \in BOOLEAN
  BY <1>1, <1>2 DEF Typed, TypeOK
<1>4. TypeOK'
  BY <1>1, <1>3 DEF Typed, TypeOK
<1>5. \A c \in Copies' : c = None \/ c \in Copies
  BY <1>1 DEF Copies
<1>6. Roles'
  BY <1>1, <1>5 DEF Typed, Roles
<1> QED
  BY <1>4, <1>6 DEF Typed

\* What ends with a process: nothing of it holds a copy any more, and a fill of
\* it that was not written is gone.
LEMMA KillTyped ==
  ASSUME Typed, NEW P, Kill(P), gone' = gone \union LostWith(P),
         faults' \in 0 .. MaxFaults,
         UNCHANGED <<day, now, active, store, listed, rows, stamp, newest>>
  PROVE  /\ Typed'
         /\ \A c \in Copies' : c = None \/ c \in Copies
         /\ \A f \in Fills : pc'[f] \notin {"add", "done"} => pc[f] \notin {"add", "done"}
         /\ \A f \in Fills \ gone' : pc'[f] \in {"add", "done"} => pc[f] \in {"add", "done"}
<1>0. /\ Fills \subseteq Readers /\ Flushers \subseteq Readers /\ Daily \in Readers
      /\ Readers \subseteq Actors /\ Activator \in Actors
  BY DEF Readers, Actors
<1>1. ASSUME NEW q \in Actors
      PROVE  /\ q \in P /\ q \in Flushers => pc'[q] = "boot"
             /\ q \in P /\ q \in Fills /\ pc[q] # "idle" => pc'[q] = "done"
             /\ q \in P /\ q \notin Flushers /\ q \notin Fills => pc'[q] = "idle"
             /\ q \in P /\ q \in Fills /\ pc[q] = "idle" => pc'[q] = pc[q]
             /\ q \notin P => pc'[q] = pc[q]
  <2>1. pc'[q] = CASE q \in P \intersect Flushers -> "boot"
                   [] q \in P \intersect Fills /\ pc[q] # "idle" -> "done"
                   [] q \in P \ (Flushers \union Fills) -> "idle"
                   [] OTHER -> pc[q]
    BY DEF Kill
  <2> QED
    BY <2>1, Names
<1>2. \A q \in Readers : got'[q] = IF q \in P THEN None ELSE got[q]
  BY DEF Kill
<1>3. \A q \in Flushers : seen'[q] = IF q \in P THEN None ELSE seen[q]
  BY DEF Kill
<1>4. pc' \in [Actors -> {"boot", "idle", "get", "query", "restore", "got", "add", "done"}]
  <2>1. \E g : pc' = [q \in Actors |-> g[q]]
    <3>1. DOMAIN pc' = Actors /\ pc' = [q \in Actors |-> pc'[q]]
      BY DEF Kill
    <3> QED
      BY <3>1
  <2>2. \A q \in Actors : pc'[q] \in {"boot", "idle", "get", "query", "restore", "got", "add", "done"}
    BY <1>0, <1>1 DEF Typed, TypeOK
  <2> QED
    BY <2>1, <2>2
<1>5. got' \in [Readers -> Tickers \union {None}]
  BY DEF Kill, Typed, TypeOK
<1>6. seen' \in [Flushers -> [last : Fills \union {None}, at : Nat] \union {None}]
  BY DEF Kill, Typed, TypeOK
<1>7. gone' \subseteq Fills
  BY DEF LostWith, Typed, TypeOK
<1>8. TypeOK'
  BY <1>4, <1>5, <1>6, <1>7 DEF Typed, TypeOK
<1>9. \A c \in Copies' : c = None \/ c \in Copies
  BY <1>2 DEF Copies
<1>10. Roles'
  <2>1. /\ \A f \in Fills : pc'[f] \in {"idle", "get", "query", "restore", "got", "add", "done"}
        /\ \A q \in Flushers : pc'[q] \in {"boot", "idle", "get", "query", "restore", "got"}
        /\ pc'[Daily] \in {"idle", "get", "query", "restore", "got"}
        /\ pc'[Activator] \in {"idle", "got", "add"}
    BY <1>0, <1>1, Names DEF Typed, Roles
  <2>2. \A q \in Readers : pc'[q] \in {"restore", "got"} => got'[q] # None
    <3> SUFFICES ASSUME NEW q \in Readers, pc'[q] \in {"restore", "got"} PROVE got'[q] # None
      OBVIOUS
    <3>1. q \notin P
      BY <1>0, <1>1
    <3> QED
      BY <1>0, <1>1, <1>2, <3>1 DEF Typed, Roles
  <2>3. \A c \in Copies' : c # None => c.at <= now'
    BY <1>9 DEF Typed, Roles
  <2> QED
    BY <2>1, <2>2, <2>3 DEF Roles
<1>11. \A f \in Fills : pc'[f] \notin {"add", "done"} => pc[f] \notin {"add", "done"}
  BY <1>0, <1>1
<1>12. \A f \in Fills \ gone' : pc'[f] \in {"add", "done"} => pc[f] \in {"add", "done"}
  <2> SUFFICES ASSUME NEW f \in Fills, f \notin gone', pc'[f] \in {"add", "done"},
                      pc[f] \notin {"add", "done"}
               PROVE  FALSE
    OBVIOUS
  <2>1. f \in P /\ pc[f] # "idle"
    BY <1>0, <1>1
  <2>2. pc[f] \in {"get", "query", "restore", "got"}
    BY <2>1 DEF Typed, Roles
  <2> QED
    BY <2>1, <2>2 DEF LostWith
<1> QED
  BY <1>8, <1>9, <1>10, <1>11, <1>12 DEF Typed

\* The two steps that end a process.
LEMMA KilledBy ==
  ASSUME Typed, (\E p \in Readers : QueryFails(p)) \/ ProcessDies
  PROVE  \E P : /\ Kill(P) /\ gone' = gone \union LostWith(P)
               /\ faults' \in 0 .. MaxFaults
               /\ UNCHANGED <<day, now, active, store, listed, rows, stamp, newest>>
<1>1. ASSUME NEW p \in Readers, QueryFails(p)
      PROVE  \E P : /\ Kill(P) /\ gone' = gone \union LostWith(P)
                   /\ faults' \in 0 .. MaxFaults
                   /\ UNCHANGED <<day, now, active, store, listed, rows, stamp, newest>>
  <2> DEFINE P == IF p = Api THEN OfApi ELSE IF p \in Fills \union {Worker} THEN OfWorker ELSE {p}
  <2>1. /\ Kill(P) /\ gone' = gone \union LostWith(P)
        /\ UNCHANGED <<day, now, active, store, listed, rows, stamp, faults, newest>>
    BY <1>1 DEF QueryFails
  <2>2. faults' \in 0 .. MaxFaults
    BY <2>1 DEF Typed, TypeOK
  <2> HIDE DEF P
  <2> QED
    BY <2>1, <2>2
<1>2. ASSUME ProcessDies
      PROVE  \E P : /\ Kill(P) /\ gone' = gone \union LostWith(P)
                   /\ faults' \in 0 .. MaxFaults
                   /\ UNCHANGED <<day, now, active, store, listed, rows, stamp, newest>>
  <2>1. PICK P \in {OfApi, OfWorker} : Kill(P) /\ gone' = gone \union LostWith(P)
    BY <1>2 DEF ProcessDies
  <2>2. /\ faults' \in 0 .. MaxFaults
        /\ UNCHANGED <<day, now, active, store, listed, rows, stamp, newest>>
    BY <1>2, TickerAssumption DEF ProcessDies, Typed, TypeOK
  <2> QED
    BY <2>1, <2>2
<1> QED
  BY <1>1, <1>2

LEMMA NextTyped == Typed /\ [Next]_vars => Typed'
<1> SUFFICES ASSUME Typed, [Next]_vars PROVE Typed'
  OBVIOUS
<1>1. CASE Next
  <2>1. \A p \in Readers : Get(p) \/ QueryFinds(p) \/ Restore(p) => Typed'
    BY GetTyped
  <2>2. (\E p \in Readers : QueryFails(p)) \/ ProcessDies => Typed'
    BY KilledBy, KillTyped
  <2>3. (\E f \in Fills : StartFill(f)) \/ Activate => Typed'
    BY StartTyped
  <2>4. \A f \in Fills : WriteFill(f) => Typed'
    BY WriteFillTyped
  <2>5. \A p \in Fills \union {Activator} : Add(p) => Typed'
    BY AddTyped
  <2>6. \A p \in Flushers : Boot(p) \/ StartFlush(p) \/ Flush(p) => Typed'
    BY FlusherTyped
  <2>7. (WriteInitial => Typed') /\ (Midnight => Typed') /\ (SaveRow => Typed') /\ (RedisLoses => Typed')
    BY WriteInitialTyped, MidnightTyped, SaveRowTyped, LosesTyped
  <2> QED
    BY <1>1, <2>1, <2>2, <2>3, <2>4, <2>5, <2>6, <2>7 DEF Next
<1>2. CASE UNCHANGED vars
  BY <1>2 DEF vars, Typed, TypeOK, Roles, Copies
<1> QED
  BY <1>1, <1>2

(***************************************************************************)
(* Copies and fills.                                                       *)
(***************************************************************************)

Written(f) == pc[f] \in {"add", "done"}

\* No copy appears that was not there, and no fill counts as unwritten again.
LEMMA CopiesFrame ==
  ASSUME Fresh, Single, \A c \in Copies' : c = None \/ c \in Copies,
         \A f \in Fills : Written(f) => Written(f)'
  PROVE  Fresh' /\ Single'
<1>1. FillsOf(None) = {}
  BY DEF FillsOf
<1>2. Fresh'
  BY <1>1 DEF Fresh, Written
<1>3. Single'
  BY DEF Single
<1> QED
  BY <1>2, <1>3

\* What leaves the stored ticker is gone, and nothing else becomes written.
LEMMA StoredFrame ==
  ASSUME Stored, gone \subseteq gone',
         \A f \in Fills \ gone' : Written(f)' => Written(f),
         \A f \in Fills \ gone' : f \in FillsOf(store) => f \in FillsOf(store')
  PROVE  Stored'
BY DEF Stored, Written

\* Steps of an actor p that is no fill about to be written.
LEMMA SamePc ==
  ASSUME Typed, NEW p \in Actors, NEW step, Goto(p, step),
         p \in Fills => (step \in {"add", "done"} <=> Written(p))
  PROVE  \A f \in Fills : Written(f)' <=> Written(f)
<1>1. Fills \subseteq Actors
  BY DEF Actors, Readers
<1>2. \A q \in Actors : pc'[q] = IF q = p THEN step ELSE pc[q]
  BY DEF Goto, Typed, TypeOK
<1> QED
  BY <1>1, <1>2 DEF Written

LEMMA GetKeeps ==
  ASSUME IInv, NEW p \in Readers, Get(p) \/ QueryFinds(p) \/ Restore(p)
  PROVE  Fresh' /\ Single' /\ Stored'
<1>0. p \in Actors /\ Typed /\ Fresh /\ Single /\ Stored
  BY DEF IInv, Actors
<1>1. PICK step \in {"got", "query", "restore"} : Goto(p, step)
  BY DEF Get, QueryFinds, Restore
<1>2. pc[p] \in {"get", "query", "restore"} /\ ~Written(p)
  BY DEF Get, QueryFinds, Restore, Written
<1>3. \A f \in Fills : Written(f)' <=> Written(f)
  BY <1>0, <1>1, <1>2, SamePc
<1>4. \E t \in Copies : got' = [got EXCEPT ![p] = t]
  <2>1. ASSUME Get(p) PROVE got' = [got EXCEPT ![p] = store] \/ got' = [got EXCEPT ![p] = got[p]]
    BY <2>1, <1>0 DEF Get, Typed, TypeOK
  <2>2. ASSUME QueryFinds(p) PROVE \E r \in rows : got' = [got EXCEPT ![p] = r.ticker]
    BY <2>2 DEF QueryFinds, Today
  <2>3. ASSUME Restore(p) PROVE got' = [got EXCEPT ![p] = got[p]]
    BY <2>3, <1>0 DEF Restore, Typed, TypeOK
  <2> QED
    BY <2>1, <2>2, <2>3 DEF Copies
<1>5. \A q \in Readers : got'[q] \in Copies
  BY <1>0, <1>4 DEF Copies, Typed, TypeOK
<1>6. rows' = rows /\ (store' = store \/ store' = got[p])
  BY DEF Get, QueryFinds, Restore, Write
<1>7. \A c \in Copies' : c \in Copies
  <2>1. store' \in Copies
    BY <1>6 DEF Copies
  <2>2. \A r \in rows' : r.ticker \in Copies
    BY <1>6 DEF Copies
  <2> QED
    BY <1>5, <2>1, <2>2 DEF Copies
<1>8. Fresh' /\ Single'
  BY <1>0, <1>3, <1>7, CopiesFrame
<1>9. gone \subseteq gone' /\ \A f \in Fills \ gone' : f \in FillsOf(store) => f \in FillsOf(store')
  <2>1. ASSUME Get(p) \/ QueryFinds(p) PROVE gone' = gone /\ store' = store
    BY <2>1 DEF Get, QueryFinds
  <2>2. ASSUME Restore(p)
        PROVE  gone' = gone \union ((FillsOf(store) \ {}) \ FillsOf(got[p])) /\ store' = got[p]
    BY <2>2 DEF Restore, Write
  <2> QED
    BY <2>1, <2>2
<1> QED
  BY <1>0, <1>3, <1>8, <1>9, StoredFrame

LEMMA OthersKeep ==
  ASSUME IInv,
         \/ SaveRow \/ Midnight \/ RedisLoses \/ Activate
         \/ (\E f \in Fills : StartFill(f))
         \/ (\E p \in Fills \union {Activator} : Add(p))
         \/ (\E p \in Flushers : Boot(p) \/ StartFlush(p) \/ Flush(p))
  PROVE  Fresh' /\ Single' /\ Stored'
<1>0. Typed /\ Fresh /\ Single /\ Stored
  BY DEF IInv
<1>a. /\ Fills \subseteq Readers /\ Flushers \subseteq Readers /\ Daily \in Readers
      /\ Readers \subseteq Actors /\ Activator \in Actors
  BY DEF Readers, Actors
<1>1. \A f \in Fills : Written(f)' <=> Written(f)
  <2>1. ASSUME SaveRow PROVE \A f \in Fills : Written(f)' <=> Written(f)
    BY <1>0, <1>a, <2>1, SamePc, Names DEF SaveRow
  <2>2. ASSUME Midnight PROVE \A f \in Fills : Written(f)' <=> Written(f)
    BY <1>0, <1>a, <2>2, MidnightTyped, Names DEF Written
  <2>3. ASSUME RedisLoses PROVE \A f \in Fills : Written(f)' <=> Written(f)
    BY <2>3 DEF RedisLoses, Written
  <2>4. ASSUME Activate PROVE \A f \in Fills : Written(f)' <=> Written(f)
    BY <1>0, <1>a, <2>4, SamePc, Names DEF Activate
  <2>5. ASSUME NEW f \in Fills, StartFill(f) PROVE \A g \in Fills : Written(g)' <=> Written(g)
    <3>1. Goto(f, "get") /\ ~Written(f)
      BY <2>5 DEF StartFill, Written
    <3> QED
      BY <1>0, <1>a, <3>1, SamePc
  <2>6. ASSUME NEW p \in Fills \union {Activator}, Add(p)
        PROVE  \A g \in Fills : Written(g)' <=> Written(g)
    <3>1. Written(p) /\ Goto(p, IF p \in Fills THEN "done" ELSE "idle") /\ p \in Actors
      BY <1>a, <2>6 DEF Add, Written
    <3> QED
      BY <1>0, <3>1, SamePc
  <2>7. ASSUME NEW p \in Flushers, Boot(p) \/ StartFlush(p) \/ Flush(p)
        PROVE  \A g \in Fills : Written(g)' <=> Written(g)
    <3>1. p \in Actors /\ p \notin Fills /\ \E step : Goto(p, step)
      BY <1>a, <2>7, Names DEF Boot, StartFlush, Flush
    <3> QED
      BY <1>0, <3>1, SamePc
  <2> QED
    BY <2>1, <2>2, <2>3, <2>4, <2>5, <2>6, <2>7
<1>2. \A c \in Copies' : c = None \/ c \in Copies
  <2>1. \A q \in Readers : got'[q] = None \/ got'[q] = got[q]
    BY <1>0 DEF SaveRow, Midnight, RedisLoses, Activate, StartFill, Add, Boot, StartFlush,
                Flush, Typed, TypeOK
  <2>2. \A r \in rows' : r \in rows \/ r.ticker = got[Daily]
    BY DEF SaveRow, Midnight, RedisLoses, Activate, StartFill, Add, Boot, StartFlush, Flush
  <2>3. store' = store \/ store' = None
    BY DEF SaveRow, Midnight, RedisLoses, Activate, StartFill, Add, Boot, StartFlush, Flush
  <2> QED
    BY <1>a, <2>1, <2>2, <2>3 DEF Copies
<1>3. Fresh' /\ Single'
  BY <1>0, <1>1, <1>2, CopiesFrame
<1>4. (store' = store /\ gone' = gone) \/ gone' = gone \union FillsOf(store)
  BY DEF SaveRow, Midnight, RedisLoses, Activate, StartFill, Add, Boot, StartFlush, Flush
<1>5. gone \subseteq gone' /\ \A f \in Fills \ gone' : f \in FillsOf(store) => f \in FillsOf(store')
  BY <1>4
<1> QED
  BY <1>0, <1>1, <1>3, <1>5, StoredFrame

LEMMA KillKeeps ==
  ASSUME IInv, (\E p \in Readers : QueryFails(p)) \/ ProcessDies
  PROVE  Fresh' /\ Single' /\ Stored'
<1>0. Typed /\ Fresh /\ Single /\ Stored
  BY DEF IInv
<1>1. PICK P : /\ Kill(P) /\ gone' = gone \union LostWith(P)
               /\ faults' \in 0 .. MaxFaults
               /\ UNCHANGED <<day, now, active, store, listed, rows, stamp, newest>>
  BY <1>0, KilledBy
<1>2. /\ \A c \in Copies' : c = None \/ c \in Copies
      /\ \A f \in Fills : pc'[f] \notin {"add", "done"} => pc[f] \notin {"add", "done"}
      /\ \A f \in Fills \ gone' : pc'[f] \in {"add", "done"} => pc[f] \in {"add", "done"}
  BY <1>0, <1>1, KillTyped
<1>3. (\A f \in Fills : Written(f) => Written(f)') /\ (\A f \in Fills \ gone' : Written(f)' => Written(f))
  BY <1>2 DEF Written
<1>4. Fresh' /\ Single'
  BY <1>0, <1>2, <1>3, CopiesFrame
<1> QED
  BY <1>0, <1>1, <1>3, <1>4, StoredFrame

\* An activation begins the ticker anew: what it had is gone.
LEMMA InitialKeeps ==
  ASSUME IInv, WriteInitial
  PROVE  Fresh' /\ Single' /\ Stored'
<1>0. Typed /\ Fresh /\ Single /\ Stored /\ Activator \in Actors
  BY DEF IInv, Actors
<1>1. /\ Goto(Activator, "add") /\ rows' = rows /\ got' = got
  BY DEF WriteInitial
<1>2. /\ store' # None /\ FillsOf(store') = {} /\ \A f \in Fills : Once(store', f)
      /\ gone' = gone \union FillsOf(store)
  BY <1>0, WriteInitialTyped
<1>3. \A f \in Fills : Written(f)' <=> Written(f)
  BY <1>0, <1>1, SamePc, Names
<1>4. \A c \in Copies' : c = store' \/ c \in Copies
  BY <1>1 DEF Copies
<1>5. Fresh'
  BY <1>0, <1>2, <1>3, <1>4 DEF Fresh, Written
<1>6. Single'
  BY <1>0, <1>2, <1>4 DEF Single
<1>7. Stored'
  BY <1>0, <1>2, <1>3, StoredFrame
<1> QED
  BY <1>5, <1>6, <1>7

\* The ticker a fill stores has the fill once, for the copy it was merged into
\* cannot have had it; what was stored since that copy was read is gone.
LEMMA FillKeeps ==
  ASSUME IInv, NEW f \in Fills, WriteFill(f)
  PROVE  Fresh' /\ Single' /\ Stored'
<1>0. Typed /\ Fresh /\ Single /\ Stored /\ f \in Actors /\ f \in Readers /\ Fills \subseteq Actors
  BY DEF IInv, Actors, Readers
<1> DEFINE m == Merged(got[f], f)
<1>1. /\ pc[f] = "got" /\ Goto(f, "add") /\ got' = [got EXCEPT ![f] = None]
      /\ store' = m /\ rows' = rows
      /\ gone' = gone \union ((FillsOf(store) \ IF store = got[f] THEN FillsOf(store) ELSE {}) \ FillsOf(m))
  BY DEF WriteFill, Write
<1>2. got[f] \in Copies /\ got[f] \in Tickers /\ stamp[f] \in Nat /\ got[f] # None
  BY <1>0, WriteFillTyped, Names DEF Copies
<1>3. f \notin FillsOf(got[f])
  BY <1>0, <1>1, <1>2 DEF Fresh
<1>4. /\ FillsOf(m) = FillsOf(got[f]) \union {f}
      /\ Once(m, f)
      /\ \A g \in Fills \ {f} : Once(got[f], g) => Once(m, g)
      /\ m \in Tickers
  BY <1>2, <1>3, MergedTicker
<1> HIDE DEF m
<1>5. /\ Written(f)'
      /\ \A g \in Fills : g # f => (Written(g)' <=> Written(g))
  BY <1>0, <1>1 DEF Goto, Written, Typed, TypeOK
<1>6. \A c \in Copies' : c = m \/ c = None \/ c \in Copies
  <2>1. \A q \in Readers : got'[q] = None \/ got'[q] = got[q]
    BY <1>0, <1>1 DEF Typed, TypeOK
  <2> QED
    BY <1>1, <2>1 DEF Copies
<1>7. Fresh'
  <2> SUFFICES ASSUME NEW g \in Fills, ~Written(g)', NEW c \in Copies' PROVE g \notin FillsOf(c)
    BY DEF Fresh, Written
  <2>1. g # f /\ ~Written(g)
    BY <1>5
  <2>2. \A d \in Copies : g \notin FillsOf(d)
    BY <1>0, <2>1 DEF Fresh, Written
  <2>3. g \notin FillsOf(None) /\ g \notin FillsOf(m)
    BY <1>2, <1>4, <2>1, <2>2 DEF FillsOf
  <2> QED
    BY <1>6, <2>2, <2>3
<1>8. Single'
  <2>1. \A g \in Fills : Once(m, g)
    BY <1>0, <1>2, <1>4 DEF Single
  <2> QED
    BY <1>0, <1>6, <2>1 DEF Single
<1>9. Stored'
  <2> SUFFICES ASSUME NEW g \in Fills, g \notin gone', Written(g)' PROVE g \in FillsOf(m)
    BY <1>1 DEF Stored, Written
  <2>1. CASE g = f
    BY <1>4, <2>1
  <2>2. CASE g # f
    <3>1. g \in FillsOf(store)
      BY <1>0, <1>1, <1>5, <2>2 DEF Stored, Written
    <3>2. CASE store = got[f]
      BY <1>4, <3>1, <3>2
    <3>3. CASE store # got[f]
      BY <1>1, <3>1, <3>3
    <3> QED
      BY <3>2, <3>3
  <2> QED
    BY <2>1, <2>2
<1> QED
  BY <1>7, <1>8, <1>9

(***************************************************************************)
(* The theorems.                                                           *)
(***************************************************************************)

LEMMA InitIInv == Init => IInv
<1> SUFFICES ASSUME Init PROVE IInv
  OBVIOUS
<1>1. Fills \subseteq Readers /\ Readers \subseteq Actors
  BY DEF Readers, Actors
<1>2. \A c \in Copies : c = None
  BY DEF Init, Copies
<1>3. Fresh /\ Single
  BY <1>2 DEF Fresh, Single, FillsOf
<1>4. Stored
  BY <1>1, Names DEF Init, Stored
<1> QED
  BY <1>3, <1>4, InitTyped DEF IInv

LEMMA NextIInv == IInv /\ [Next]_vars => IInv'
<1> SUFFICES ASSUME IInv, [Next]_vars PROVE IInv'
  OBVIOUS
<1>1. Typed'
  BY NextTyped DEF IInv
<1>2. Fresh' /\ Single' /\ Stored'
  <2>1. CASE Next
    <3>1. ASSUME NEW p \in Readers, Get(p) \/ QueryFinds(p) \/ Restore(p)
          PROVE  Fresh' /\ Single' /\ Stored'
      BY <3>1, GetKeeps
    <3>2. ASSUME NEW f \in Fills, WriteFill(f)
          PROVE  Fresh' /\ Single' /\ Stored'
      BY <3>2, FillKeeps
    <3>3. CASE (\E p \in Readers : QueryFails(p)) \/ ProcessDies
      BY <3>3, KillKeeps
    <3>4. CASE WriteInitial
      BY <3>4, InitialKeeps
    <3>5. CASE \/ SaveRow \/ Midnight \/ RedisLoses \/ Activate
               \/ (\E f \in Fills : StartFill(f))
               \/ (\E p \in Fills \union {Activator} : Add(p))
               \/ (\E p \in Flushers : Boot(p) \/ StartFlush(p) \/ Flush(p))
      BY <3>5, OthersKeep
    <3> QED
      BY <2>1, <3>1, <3>2, <3>3, <3>4, <3>5 DEF Next
  <2>2. CASE UNCHANGED vars
    BY <2>2 DEF vars, IInv, Fresh, Single, Stored, Copies
  <2> QED
    BY <2>1, <2>2
<1> QED
  BY <1>1, <1>2 DEF IInv

\* The inductive invariant holds in every state of the specification.
THEOREM Invariance == Spec => []IInv
<1>1. Init => IInv
  BY InitIInv
<1>2. IInv /\ [Next]_vars => IInv'
  BY NextIInv
<1> QED
  BY <1>1, <1>2, PTL DEF Spec

\* Every variable has its type for any fills, days, activations and faults; no
\* stored ticker has a stamp that was not taken yet.
THEOREM TypeCorrect == Spec => []TypeOK
<1>1. IInv => TypeOK
  BY DEF IInv, Typed
<1> QED
  BY <1>1, Invariance, PTL

\* A merged fill is in the stored ticker exactly once, unless one of the
\* overwriting writers or a fault took it away
\* (order.matchingengin.ts:906-966, redis.ticker.service.ts:34-72).
THEOREM TickerIsKept == Spec => []TickerKept
<1>1. IInv => TickerKept
  <2> SUFFICES ASSUME IInv, NEW f \in Fills \ gone, pc[f] \in {"add", "done"}
               PROVE  /\ store # None
                      /\ Cardinality({i \in DOMAIN store.fills : store.fills[i] = f}) = 1
    BY DEF TickerKept
  <2>1. f \in FillsOf(store) /\ store \in Copies
    BY DEF IInv, Stored, Copies
  <2>2. store # None /\ \E i \in DOMAIN store.fills : store.fills[i] = f
    BY <2>1 DEF FillsOf, ToSet
  <2>3. Once(store, f)
    BY <2>1, <2>2 DEF IInv, Single
  <2>4. PICK i \in DOMAIN store.fills : store.fills[i] = f
    BY <2>2
  <2>5. {j \in DOMAIN store.fills : store.fills[j] = f} = {i}
    BY <2>3, <2>4 DEF Once
  <2>6. Cardinality({i}) = 1
    BY FS_Singleton
  <2> QED
    BY <2>2, <2>5, <2>6
<1> QED
  BY <1>1, Invariance, PTL
=============================================================================
