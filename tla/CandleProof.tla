---------------------------- MODULE CandleProof ----------------------------
(***************************************************************************)
(* Theorems about Candle for any trades, buckets, activations and deaths   *)
(* of the worker.  The candle in Redis has writers that lock nothing; the  *)
(* proof follows a trade through the places a candle can be in (Redis, the *)
(* hands of the cron job, the rows) and shows that whatever could lose or  *)
(* double it without notice is one of the races TradeKept names.           *)
(***************************************************************************)
EXTENDS Candle, FiniteSetTheorems, TLAPS

\* Where a candle can be, besides the copies of the writers.
Places == rows \union {store, taken}

\* What each writer merges, and how far the cron job is.
Roles ==
  /\ \A t \in Trades : /\ pc[t] \in {"idle", "get", "set", "done"}
                       /\ tick[t] = IF pc[t] \in {"get", "set"} THEN t ELSE None
  /\ pc[Activator] \in {"idle", "find", "get", "set"}
  /\ tick[Activator] = IF pc[Activator] \in {"get", "set"} THEN InitPrice ELSE None
  /\ pc[Cron] \in {"idle", "find", "get", "set", "save"}
  /\ pc[Cron] \in {"get", "set"} => tick[Cron] \in {Carry, Zero}
  /\ pc[Cron] \notin {"get", "set"} => tick[Cron] = None
  /\ pc[OtherCron] \in {"idle", "find", "get", "set"}
  /\ tick[OtherCron] = IF pc[OtherCron] \in {"get", "set"} THEN OtherZero ELSE None
  /\ taken # None <=> pc[Cron] = "save"
  /\ saving # {} => pc[Cron] = "save"
  /\ ~ ({"publish", "delete"} \subseteq saving)
  /\ taken # None /\ "upsert" \notin saving => taken \in rows

Typed == TypeOK /\ Roles

\* A price of 0 is on its way only after the cron job met no candle; and an
\* active market whose candle nobody is about to begin has one.
ZeroInv ==
  /\ pc[Cron] = "find" => missed
  /\ \A p \in Writers : tick[p] = Zero \/ Zero \in TicksOf(read[p]) => missed
  /\ \A c \in Places : Zero \in TicksOf(c) => missed
  /\ ~missed /\ faults = 0 /\ active > 0 /\ store = None =>
       pc[Activator] # "idle" \/ pc[Cron] \in {"get", "set", "save"}

\* Until the cron job of the other interval misses its candle, it does nothing
\* here, and its price of 0 is nowhere.
OtherInv ==
  others = 0 =>
    /\ pc[OtherCron] = "idle"
    /\ \A p \in Writers : OtherZero \notin TicksOf(read[p])
    /\ \A c \in Places : OtherZero \notin TicksOf(c)

\* A trade that has not been written is in no candle and no copy.
Fresh ==
  \A t \in Trades : pc[t] # "done" =>
    /\ \A c \in Places : t \notin TicksOf(c)
    /\ \A p \in Writers : t \notin TicksOf(read[p])

Once(c, t) == \A i, j \in DOMAIN c.ticks : c.ticks[i] = t /\ c.ticks[j] = t => i = j

\* A trade that was written is in Redis, in a row, or in the candle that the
\* cron job is about to store; wherever it is, it is there once, in a candle of
\* one bucket; and the candle to be deleted has what the cron job took from it.
KeptTrade(t) ==
  /\ \/ t \in TicksOf(store)
     \/ \E r \in rows : t \in TicksOf(r)
     \/ "upsert" \in saving /\ t \in TicksOf(taken)
  /\ \A c \in Places : t \in TicksOf(c) => Once(c, t) /\ time[t] <= c.start + Offset
  /\ \A c, d \in Places : t \in TicksOf(c) /\ t \in TicksOf(d) => c.start = d.start
  /\ saving \intersect {"publish", "delete"} # {} /\ t \in TicksOf(taken) =>
       t \in TicksOf(store)

Kept == \A t \in Trades \ raced : pc[t] = "done" => KeptTrade(t)

IInv == Typed /\ ZeroInv /\ OtherInv /\ Fresh /\ Kept

(***************************************************************************)
(* Candles.                                                                *)
(***************************************************************************)

LEMMA Names ==
  /\ \A t \in Trades : t # InitPrice /\ t # Carry /\ t # Zero /\ t # OtherZero /\ t # None
  /\ None \notin Ticks /\ None \notin Candles /\ Trades \subseteq Ticks /\ Prices \subseteq Ticks
  /\ Zero # InitPrice /\ Zero # Carry /\ Zero # OtherZero
  /\ OtherZero # InitPrice /\ OtherZero # Carry
  /\ \A t \in Trades : t # Activator /\ t # Cron /\ t # OtherCron
  /\ Activator # Cron /\ Activator # OtherCron /\ Cron # OtherCron
  /\ Trades \subseteq Writers
  /\ Activator \in Writers /\ Cron \in Writers /\ OtherCron \in Writers
<1>1. Trades \subseteq Ticks /\ Prices \subseteq Ticks
  BY DEF Ticks
<1>2. Candles \subseteq [start : Nat, ticks : Seq(Ticks)]
  BY CandleAssumption DEF Candles
<1>3. /\ Zero # InitPrice /\ Zero # Carry /\ Zero # OtherZero
      /\ OtherZero # InitPrice /\ OtherZero # Carry
  BY DEF InitPrice, Carry, Zero, OtherZero
<1>4. \A t \in Trades : t \notin {Activator, Cron, OtherCron} /\ t \notin Prices
  BY CandleAssumption
<1>5. \A t \in Trades : t # InitPrice /\ t # Carry /\ t # Zero /\ t # OtherZero
  BY <1>4 DEF Prices
<1>6. None \notin Ticks /\ None \notin Candles
  BY <1>2, CandleAssumption
<1> QED
  BY <1>1, <1>3, <1>4, <1>5, <1>6, CandleAssumption DEF Writers

\* The trades among the ticks.
LEMMA TradesAmong ==
  ASSUME NEW c
  PROVE  TradesOf(c) \subseteq Trades /\ \A t \in Trades : t \in TradesOf(c) <=> t \in TicksOf(c)
BY DEF TradesOf

LEMMA TicksTyped ==
  ASSUME NEW c \in Candles \union {None}
  PROVE  TicksOf(c) \subseteq Ticks
<1>1. CASE c = None
  BY <1>1 DEF TicksOf
<1>2. CASE c # None
  <2>1. c.ticks \in Seq(Ticks)
    BY <1>2 DEF Candles
  <2>2. \A i \in DOMAIN c.ticks : c.ticks[i] \in Ticks
    BY <2>1
  <2> QED
    BY <1>2, <2>2 DEF TicksOf, ToSet
<1> QED
  BY <1>1, <1>2

LEMMA MergedTyped ==
  ASSUME NEW c \in Candles \union {None}, NEW t \in Ticks, NEW now \in 0 .. MaxClock
  PROVE  Merged(c, t, now) \in Candles
<1>1. CASE c = None \/ Expired(c, now)
  BY <1>1 DEF Merged, Candles
<1>2. CASE ~ (c = None \/ Expired(c, now))
  <2>1. c \in Candles /\ c.ticks \in Seq(Ticks)
    BY <1>2 DEF Candles
  <2>2. Append(c.ticks, t) \in Seq(Ticks)
    BY <2>1
  <2> QED
    BY <1>2, <2>1, <2>2 DEF Merged, Candles
<1> QED
  BY <1>1, <1>2

\* A candle begins with the tick, or goes on with it.
LEMMA MergedBegins ==
  ASSUME NEW c \in Candles \union {None}, NEW t \in Ticks, NEW now \in 0 .. MaxClock,
         c = None \/ Expired(c, now)
  PROVE  /\ TicksOf(Merged(c, t, now)) = {t}
         /\ Merged(c, t, now).start = now
         /\ Once(Merged(c, t, now), t)
<1>1. Merged(c, t, now) = [start |-> now, ticks |-> <<t>>]
  BY DEF Merged
<1>2. Merged(c, t, now) # None
  BY MergedTyped, Names
<1> QED
  BY <1>1, <1>2 DEF TicksOf, ToSet, Once

LEMMA MergedGoesOn ==
  ASSUME NEW c \in Candles, NEW t \in Ticks, NEW now \in 0 .. MaxClock,
         ~ Expired(c, now)
  PROVE  /\ TicksOf(Merged(c, t, now)) = TicksOf(c) \union {t}
         /\ Merged(c, t, now).start = c.start
         /\ now <= c.start + Offset
         /\ t \notin TicksOf(c) => Once(Merged(c, t, now), t)
         /\ \A u \in Ticks \ {t} : Once(c, u) => Once(Merged(c, t, now), u)
<1>1. c # None /\ c.ticks \in Seq(Ticks) /\ c.start \in 0 .. MaxClock
  BY Names DEF Candles
<1> DEFINE m == Merged(c, t, now)
<1>2. m = [c EXCEPT !.ticks = Append(c.ticks, t)]
  BY <1>1 DEF Merged
<1>3. m # None /\ m.ticks = Append(c.ticks, t) /\ m.start = c.start
  BY <1>2, MergedTyped, Names DEF Candles
<1>4. now <= c.start + Offset
  BY <1>1, CandleAssumption DEF Expired
<1>5. /\ DOMAIN m.ticks = 1 .. Len(c.ticks) + 1
      /\ DOMAIN c.ticks = 1 .. Len(c.ticks)
      /\ m.ticks[Len(c.ticks) + 1] = t
      /\ \A i \in DOMAIN c.ticks : m.ticks[i] = c.ticks[i]
      /\ Len(c.ticks) \in Nat
  BY <1>1, <1>3
<1> HIDE DEF m
<1>6. TicksOf(m) = TicksOf(c) \union {t}
  <2>1. TicksOf(m) = {m.ticks[i] : i \in DOMAIN m.ticks}
    BY <1>3 DEF TicksOf, ToSet
  <2>2. TicksOf(c) = {c.ticks[i] : i \in DOMAIN c.ticks}
    BY <1>1 DEF TicksOf, ToSet
  <2>3. ASSUME NEW u \in TicksOf(m) PROVE u \in TicksOf(c) \union {t}
    BY <1>5, <2>1, <2>2
  <2>4. ASSUME NEW u \in TicksOf(c) PROVE u \in TicksOf(m)
    BY <1>5, <2>1, <2>2
  <2>5. t \in TicksOf(m)
    BY <1>5, <2>1
  <2> QED
    BY <2>3, <2>4, <2>5
<1>7. t \notin TicksOf(c) => Once(m, t)
  <2>1. t \notin TicksOf(c) => \A i \in DOMAIN c.ticks : c.ticks[i] # t
    BY <1>1 DEF TicksOf, ToSet
  <2> QED
    BY <1>5, <2>1 DEF Once
<1>8. \A u \in Ticks \ {t} : Once(c, u) => Once(m, u)
  BY <1>5 DEF Once
<1> QED
  BY <1>3, <1>4, <1>6, <1>7, <1>8 DEF m

(***************************************************************************)
(* Types and roles.                                                        *)
(***************************************************************************)

\* What is on its way to be merged.
LEMMA TickTyped ==
  ASSUME Typed, NEW p \in Writers, pc[p] \in {"get", "set"}
  PROVE  /\ tick[p] \in Ticks
         /\ tick[p] \in Trades <=> p \in Trades
         /\ p \in Trades => tick[p] = p
<1> USE DEF Typed, Roles
<1>1. CASE p \in Trades
  BY <1>1 DEF Ticks
<1>2. CASE p = Activator
  BY <1>2, Names DEF Prices
<1>3. CASE p = Cron
  BY <1>3, Names DEF Prices
<1>4. CASE p = OtherCron
  BY <1>4, Names DEF Prices
<1> QED
  BY <1>1, <1>2, <1>3, <1>4 DEF Writers

LEMMA InitTyped == Init => Typed
<1> SUFFICES ASSUME Init PROVE Typed
  OBVIOUS
<1>1. /\ Activator \in Writers /\ Cron \in Writers /\ OtherCron \in Writers
      /\ Trades \subseteq Writers
  BY Names
<1>2. TypeOK
  <2>1. missed \in BOOLEAN
    BY DEF Init
  <2>2. /\ pc \in [Writers -> {"idle", "get", "set", "find", "save", "done"}]
        /\ tick \in [Writers -> Ticks \union {None}]
        /\ time \in [Writers -> 0 .. MaxClock]
        /\ read \in [Writers -> Candles \union {None}]
    BY CandleAssumption DEF Init
  <2> QED
    BY <2>1, <2>2, CandleAssumption DEF Init, TypeOK
<1>3. Roles
  BY <1>1, CandleAssumption DEF Init, Roles
<1> QED
  BY <1>2, <1>3 DEF Typed

LEMMA GetTyped ==
  ASSUME Typed, NEW p \in Writers, Get(p)
  PROVE  Typed'
<1> USE CandleAssumption DEF Get, Goto, world, job
<1>1. TypeOK'
  BY DEF Typed, TypeOK
<1>2. \A q \in Writers : pc'[q] = IF q = p THEN "set" ELSE pc[q]
  BY DEF Typed, TypeOK
<1>3. /\ Activator \in Writers /\ Cron \in Writers /\ OtherCron \in Writers
      /\ Trades \subseteq Writers
  BY Names
<1>4. Roles'
  BY <1>2, <1>3 DEF Typed, Roles
<1> QED
  BY <1>1, <1>4 DEF Typed

LEMMA SetTyped ==
  ASSUME Typed, NEW p \in Writers, Set(p)
  PROVE  Typed'
<1> USE CandleAssumption DEF world, job
<1> DEFINE new == Merged(read[p], tick[p], time[p])
<1>0. /\ read[p] \in Candles \union {None} /\ store \in Candles \union {None}
      /\ time[p] \in 0 .. MaxClock /\ tick[p] \in Ticks
  BY TickTyped DEF Typed, TypeOK, Set
<1>1. new \in Candles /\ TradesOf(new) \subseteq Trades /\ TradesOf(store) \subseteq Trades
  BY <1>0, MergedTyped, TradesAmong
<1>2. store' = new /\ raced' \subseteq raced \union TradesOf(store) \union TradesOf(new)
  BY DEF Set
<1>3. /\ pc' = [pc EXCEPT ![p] = IF p \in Trades THEN "done" ELSE "idle"]
      /\ tick' = [tick EXCEPT ![p] = None]
      /\ read' = [read EXCEPT ![p] = None]
      /\ time' = time \/ time' = [time EXCEPT ![p] = 0]
      /\ UNCHANGED <<world, rows, job, missed>>
  BY DEF Set, Goto, Return
<1> HIDE DEF new
<1>4. TypeOK'
  BY <1>1, <1>2, <1>3 DEF Typed, TypeOK
<1>5. \A q \in Writers : /\ pc'[q] = IF q = p THEN IF p \in Trades THEN "done" ELSE "idle"
                                              ELSE pc[q]
                         /\ tick'[q] = IF q = p THEN None ELSE tick[q]
  BY <1>3 DEF Typed, TypeOK
<1>6. /\ Activator \in Writers /\ Cron \in Writers /\ OtherCron \in Writers
      /\ Trades \subseteq Writers
  BY Names
<1>7. pc[p] = "set"
  BY DEF Set
<1>8. Roles'
  BY <1>3, <1>5, <1>6, <1>7 DEF Typed, Roles
<1> QED
  BY <1>4, <1>8 DEF Typed

LEMMA TradeTyped ==
  ASSUME Typed, NEW t \in Trades, Trade(t)
  PROVE  Typed'
<1> USE CandleAssumption DEF Trade, Call, world, job
<1>1. /\ Activator \in Writers /\ Cron \in Writers /\ OtherCron \in Writers
      /\ Trades \subseteq Writers
  BY Names
<1>2. TypeOK'
  BY <1>1 DEF Typed, TypeOK, Ticks
<1>3. \A q \in Writers : /\ pc'[q] = IF q = t THEN "get" ELSE pc[q]
                         /\ tick'[q] = IF q = t THEN t ELSE tick[q]
  BY DEF Typed, TypeOK
<1>4. Roles'
  BY <1>1, <1>3 DEF Typed, Roles
<1> QED
  BY <1>2, <1>4 DEF Typed

LEMMA ActivateTyped ==
  ASSUME Typed, Activate
  PROVE  Typed'
<1> USE CandleAssumption DEF Activate, Goto, job
<1>1. /\ Activator \in Writers /\ Cron \in Writers /\ OtherCron \in Writers
      /\ Trades \subseteq Writers
  BY Names
<1>2. TypeOK'
  BY <1>1 DEF Typed, TypeOK
<1>3. \A q \in Writers : pc'[q] = IF q = Activator THEN "find" ELSE pc[q]
  BY DEF Typed, TypeOK
<1>4. Roles'
  BY <1>1, <1>3 DEF Typed, Roles
<1> QED
  BY <1>2, <1>4 DEF Typed

LEMMA BeginTyped ==
  ASSUME Typed, InitCandle \/ CronInit \/ OtherCronInit
  PROVE  Typed'
<1>1. /\ Activator \in Writers /\ Cron \in Writers /\ OtherCron \in Writers
      /\ Trades \subseteq Writers
  BY Names
<1>2. ASSUME NEW p \in {Activator, Cron, OtherCron}, NEW price \in Prices, Begin(p, price),
             p = Activator => price = InitPrice, p = Cron => price = Zero,
             p = OtherCron => price = OtherZero
      PROVE  Typed'
  <2> USE CandleAssumption DEF Begin, Goto, Return, world, job
  <2>1. PICK x \in {"get", "idle"} :
          /\ pc' = [pc EXCEPT ![p] = x]
          /\ tick' = IF x = "get" THEN [tick EXCEPT ![p] = price] ELSE tick
    BY <1>2
  <2>2. missed' \in BOOLEAN /\ (time' = time \/ time' = [time EXCEPT ![p] = 0])
    BY <1>2 DEF Typed, TypeOK
  <2>3. /\ pc[p] = "find"
        /\ UNCHANGED <<clock, active, last, others, faults, store, rows, read, taken, saving, raced>>
    BY <1>2
  <2>4. TypeOK'
    BY <1>1, <2>1, <2>2, <2>3, Names DEF Typed, TypeOK
  <2>5. \A q \in Writers : /\ pc'[q] = IF q = p THEN x ELSE pc[q]
                           /\ tick'[q] = IF q = p /\ x = "get" THEN price ELSE tick[q]
    BY <2>1 DEF Typed, TypeOK
  <2>6. Roles'
    BY <1>1, <1>2, <2>3, <2>5, Names DEF Typed, Roles
  <2> QED
    BY <2>4, <2>6 DEF Typed
<1> QED
  BY <1>2, Names DEF InitCandle, CronInit, OtherCronInit, Prices

LEMMA OtherCronReadTyped ==
  ASSUME Typed, OtherCronRead
  PROVE  Typed'
<1> USE CandleAssumption DEF OtherCronRead, Goto, job
<1>1. /\ Activator \in Writers /\ Cron \in Writers /\ OtherCron \in Writers
      /\ Trades \subseteq Writers
  BY Names
<1>2. TypeOK'
  BY <1>1 DEF Typed, TypeOK
<1>3. \A q \in Writers : pc'[q] = IF q = OtherCron THEN "find" ELSE pc[q]
  BY DEF Typed, TypeOK
<1>4. Roles'
  BY <1>1, <1>3, Names DEF Typed, Roles
<1> QED
  BY <1>2, <1>4 DEF Typed

LEMMA CronReadTyped ==
  ASSUME Typed, CronRead
  PROVE  Typed'
<1> USE CandleAssumption DEF CronRead, Goto
<1>1. /\ Activator \in Writers /\ Cron \in Writers /\ OtherCron \in Writers
      /\ Trades \subseteq Writers
  BY Names
<1>2. TypeOK'
  <2>1. CASE store = None
    <3>1. missed' \in BOOLEAN
      BY <2>1
    <3>2. /\ pc' \in [Writers -> {"idle", "get", "set", "find", "save", "done"}]
          /\ time' \in [Writers -> 0 .. MaxClock]
          /\ last' \in 0 .. MaxClock
      BY <1>1, <2>1 DEF Typed, TypeOK
    <3> QED
      BY <2>1, <3>1, <3>2 DEF Typed, TypeOK
  <2>2. CASE store # None
    BY <1>1, <2>2 DEF Typed, TypeOK
  <2> QED
    BY <2>1, <2>2
<1>3. \A q \in Writers \ {Cron} : pc'[q] = pc[q]
  BY DEF Typed, TypeOK
<1>4. pc'[Cron] = IF store = None THEN "find" ELSE "save"
  BY <1>1 DEF Typed, TypeOK
<1>5. Roles'
  BY <1>1, <1>3, <1>4 DEF Typed, Roles
<1> QED
  BY <1>2, <1>5 DEF Typed

LEMMA UpsertTyped ==
  ASSUME Typed, Upsert
  PROVE  Typed'
<1> USE CandleAssumption DEF Upsert, world
<1>0. taken \in Candles
  BY DEF Typed, TypeOK, Roles
<1>1. \A r \in rows : TradesOf(r) \subseteq Trades
  BY TradesAmong
<1>2. raced' \subseteq Trades
  BY <1>1 DEF Typed, TypeOK
<1>3. TypeOK'
  BY <1>0, <1>2 DEF Typed, TypeOK
<1>4. Roles'
  BY DEF Typed, Roles
<1> QED
  BY <1>3, <1>4 DEF Typed

LEMMA CloseTyped ==
  ASSUME Typed, CloseCandle \/ DeleteCandle
  PROVE  Typed'
<1> USE CandleAssumption DEF CloseCandle, DeleteCandle, world
<1>1. TradesOf(taken) \subseteq Trades /\ TradesOf(store) \subseteq Trades
  BY TradesAmong
<1>2. raced' \subseteq Trades
  BY <1>1 DEF Typed, TypeOK
<1>3. TypeOK'
  BY <1>2 DEF Typed, TypeOK
<1>4. Roles'
  BY DEF Typed, Roles
<1> QED
  BY <1>3, <1>4 DEF Typed

LEMMA BeginNextTyped ==
  ASSUME Typed, BeginNext
  PROVE  Typed'
<1> USE CandleAssumption DEF BeginNext, Call, world
<1>1. /\ Activator \in Writers /\ Cron \in Writers /\ OtherCron \in Writers
      /\ Trades \subseteq Writers
  BY Names
<1>2. TypeOK'
  <2>1. Carry \in Ticks
    BY Names DEF Prices
  <2> QED
    BY <1>1, <2>1 DEF Typed, TypeOK
<1>3. \A q \in Writers : /\ pc'[q] = IF q = Cron THEN "get" ELSE pc[q]
                         /\ tick'[q] = IF q = Cron THEN Carry ELSE tick[q]
  BY DEF Typed, TypeOK
<1>4. Roles'
  BY <1>1, <1>3 DEF Typed, Roles
<1> QED
  BY <1>2, <1>4 DEF Typed

LEMMA TickKeepsTyped ==
  ASSUME Typed, Tick
  PROVE  Typed'
BY CandleAssumption DEF Tick, job, Typed, TypeOK, Roles

LEMMA WorkerDiesTyped ==
  ASSUME Typed, WorkerDies
  PROVE  Typed'
<1> USE CandleAssumption DEF WorkerDies
<1>1. /\ Activator \in Writers /\ Cron \in Writers /\ OtherCron \in Writers
      /\ Trades \subseteq Writers
  BY Names
<1>2. TradesOf(taken) \subseteq Trades
  BY TradesAmong
<1>3. raced' \subseteq Trades
  BY <1>2 DEF Typed, TypeOK
<1>4. TypeOK'
  BY <1>3 DEF Typed, TypeOK
<1>5. Roles'
  BY <1>1, Names DEF Typed, Roles
<1> QED
  BY <1>4, <1>5 DEF Typed

LEMMA NextTyped == Typed /\ [Next]_vars => Typed'
<1> SUFFICES ASSUME Typed, [Next]_vars PROVE Typed'
  OBVIOUS
<1>1. CASE UNCHANGED vars
  BY <1>1 DEF vars, Typed, TypeOK, Roles
<1>2. CASE Next
  <2>1. CASE Terminated
    BY <1>1, <2>1 DEF Terminated
  <2> QED
    BY <1>2, <2>1, GetTyped, SetTyped, TradeTyped, ActivateTyped, BeginTyped,
       CronReadTyped, OtherCronReadTyped, UpsertTyped, CloseTyped, BeginNextTyped, TickKeepsTyped,
       WorkerDiesTyped
    DEF Next
<1> QED
  BY <1>1, <1>2

(***************************************************************************)
(* The price of 0.                                                         *)
(***************************************************************************)

\* What a writer merges adds no more than its tick.
LEMMA MergedTicks ==
  ASSUME NEW c \in Candles \union {None}, NEW t \in Ticks, NEW now \in 0 .. MaxClock
  PROVE  TicksOf(Merged(c, t, now)) \subseteq TicksOf(c) \union {t}
BY MergedBegins, MergedGoesOn

\* The step of a writer, with the types of what it merges.
LEMMA SetTypes ==
  ASSUME Typed, NEW p \in Writers, Set(p)
  PROVE  /\ read[p] \in Candles \union {None} /\ store \in Candles \union {None}
         /\ time[p] \in 0 .. MaxClock /\ tick[p] \in Ticks
         /\ store' \in Candles
         /\ TicksOf(store') \subseteq TicksOf(read[p]) \union {tick[p]}
<1>1. /\ read[p] \in Candles \union {None} /\ store \in Candles \union {None}
      /\ time[p] \in 0 .. MaxClock /\ tick[p] \in Ticks
  BY TickTyped DEF Typed, TypeOK, Set
<1>2. store' = Merged(read[p], tick[p], time[p])
  BY DEF Set
<1> QED
  BY <1>1, <1>2, MergedTyped, MergedTicks

LEMMA ZeroFrame ==
  ASSUME Typed, Typed', ZeroInv, NEW p \in Writers, NEW step, NEW t,
         pc' = [pc EXCEPT ![p] = step], tick' = [tick EXCEPT ![p] = t],
         t = Zero => missed',
         missed => missed',
         p = Cron /\ step = "find" => missed',
         UNCHANGED <<store, rows, taken, read>>
  PROVE  /\ pc'[Cron] = "find" => missed'
         /\ \A q \in Writers : tick'[q] = Zero \/ Zero \in TicksOf(read'[q]) => missed'
         /\ \A c \in Places' : Zero \in TicksOf(c) => missed'
<1>1. Cron \in Writers
  BY DEF Writers
<1>2. \A q \in Writers : /\ pc'[q] = IF q = p THEN step ELSE pc[q]
                         /\ tick'[q] = IF q = p THEN t ELSE tick[q]
  BY DEF Typed, TypeOK
<1>3. pc'[Cron] = "find" => missed'
  BY <1>1, <1>2 DEF ZeroInv
<1>4. \A q \in Writers : tick'[q] = Zero \/ Zero \in TicksOf(read'[q]) => missed'
  BY <1>2 DEF ZeroInv
<1>5. \A c \in Places' : Zero \in TicksOf(c) => missed'
  BY DEF ZeroInv, Places
<1> QED
  BY <1>3, <1>4, <1>5

LEMMA SetZero ==
  ASSUME Typed, ZeroInv, NEW p \in Writers, Set(p)
  PROVE  ZeroInv'
<1>1. Activator \in Writers /\ Cron \in Writers
  BY DEF Writers
<1>2. /\ TicksOf(store') \subseteq TicksOf(read[p]) \union {tick[p]}
      /\ store' # None
  BY SetTypes, Names
<1>3. /\ rows' = rows /\ taken' = taken
      /\ missed => missed'
  BY DEF Set, job
<1>9. \A q \in Writers : /\ pc'[q] = IF q = p THEN IF p \in Trades THEN "done" ELSE "idle"
                                              ELSE pc[q]
                         /\ tick'[q] = IF q = p THEN None ELSE tick[q]
                         /\ read'[q] = IF q = p THEN None ELSE read[q]
  BY DEF Set, Goto, Return, Typed, TypeOK
<1>4. TicksOf(None) = {} /\ None # Zero
  BY Names DEF TicksOf, Prices
<1>5. pc'[Cron] = "find" => missed'
  BY <1>1, <1>3, <1>9 DEF ZeroInv
<1>6. \A q \in Writers : tick'[q] = Zero \/ Zero \in TicksOf(read'[q]) => missed'
  BY <1>3, <1>4, <1>9 DEF ZeroInv
<1>7. Zero \in TicksOf(store') => missed'
  BY <1>2, <1>3 DEF ZeroInv
<1>8. \A c \in Places' : Zero \in TicksOf(c) => missed'
  BY <1>3, <1>7 DEF ZeroInv, Places
<1> QED
  BY <1>2, <1>5, <1>6, <1>8 DEF ZeroInv

LEMMA GetZero ==
  ASSUME Typed, ZeroInv, NEW p \in Writers, Get(p)
  PROVE  ZeroInv'
<1>1. Activator \in Writers /\ Cron \in Writers
  BY DEF Writers
<1>2. /\ UNCHANGED <<rows, taken, store, tick, faults, active>>
      /\ missed <=> missed'
      /\ pc[p] = "get"
  BY DEF Get, job, world
<1>4. \A q \in Writers : /\ pc'[q] = IF q = p THEN "set" ELSE pc[q]
                         /\ read'[q] = IF q = p THEN store ELSE read[q]
  BY DEF Get, Goto, Typed, TypeOK
<1>3. store \in Places /\ Places' = Places
  BY <1>2 DEF Places
<1>5. pc'[Cron] = "find" => missed'
  BY <1>1, <1>2, <1>4 DEF ZeroInv
<1>6. \A q \in Writers : tick'[q] = Zero \/ Zero \in TicksOf(read'[q]) => missed'
  BY <1>2, <1>3, <1>4 DEF ZeroInv
<1>7. \A c \in Places' : Zero \in TicksOf(c) => missed'
  BY <1>2, <1>3 DEF ZeroInv
<1>8. ~missed' /\ faults' = 0 /\ active' > 0 /\ store' = None =>
        pc'[Activator] # "idle" \/ pc'[Cron] \in {"get", "set", "save"}
  BY <1>1, <1>2, <1>4 DEF ZeroInv
<1> QED
  BY <1>5, <1>6, <1>7, <1>8 DEF ZeroInv

LEMMA CallZero ==
  ASSUME Typed, Typed', ZeroInv,
         (\E t \in Trades : Trade(t)) \/ Activate \/ OtherCronRead \/ BeginNext
  PROVE  ZeroInv'
<1>0. Activator \in Writers /\ Cron \in Writers /\ Trades \subseteq Writers
  BY DEF Writers
<1>1. ASSUME NEW t \in Trades, Trade(t) PROVE ZeroInv'
  <2>1. /\ pc' = [pc EXCEPT ![t] = "get"] /\ tick' = [tick EXCEPT ![t] = t]
        /\ UNCHANGED <<missed, store, rows, taken, read, faults, active>>
    BY <1>1 DEF Trade, Call, world, job
  <2>2. t # Zero /\ t # Cron /\ t # Activator
    BY Names
  <2>3. /\ pc'[Cron] = "find" => missed'
        /\ \A q \in Writers : tick'[q] = Zero \/ Zero \in TicksOf(read'[q]) => missed'
        /\ \A c \in Places' : Zero \in TicksOf(c) => missed'
    BY <1>0, <2>1, <2>2, ZeroFrame
  <2>4. pc'[Activator] = pc[Activator] /\ pc'[Cron] = pc[Cron]
    BY <2>1, <2>2, <1>0 DEF Typed, TypeOK
  <2> QED
    BY <2>1, <2>3, <2>4 DEF ZeroInv
<1>2. ASSUME Activate PROVE ZeroInv'
  <2>1. /\ pc' = [pc EXCEPT ![Activator] = "find"]
        /\ UNCHANGED <<missed, store, rows, taken, read, faults, tick>>
    BY <1>2 DEF Activate, Goto, job
  <2>2. /\ Activator # Cron
        /\ pc'[Activator] = "find"
        /\ pc'[Cron] = pc[Cron]
    BY <2>1, <1>0, Names DEF Typed, TypeOK
  <2>3. Places' = Places
    BY <2>1 DEF Places
  <2> QED
    BY <2>1, <2>2, <2>3 DEF ZeroInv
<1>4. ASSUME OtherCronRead PROVE ZeroInv'
  <2>1. /\ pc' = [pc EXCEPT ![OtherCron] = "find"]
        /\ UNCHANGED <<missed, store, rows, taken, read, faults, active, tick>>
    BY <1>4 DEF OtherCronRead, Goto, job
  <2>2. pc'[Activator] = pc[Activator] /\ pc'[Cron] = pc[Cron]
    BY <2>1, Names DEF Typed, TypeOK
  <2>3. Places' = Places
    BY <2>1 DEF Places
  <2> QED
    BY <2>1, <2>2, <2>3 DEF ZeroInv
<1>3. ASSUME BeginNext PROVE ZeroInv'
  <2>1. /\ pc' = [pc EXCEPT ![Cron] = "get"] /\ tick' = [tick EXCEPT ![Cron] = Carry]
        /\ UNCHANGED <<missed, store, rows, read>>
        /\ taken' = None
    BY <1>3 DEF BeginNext, Call
  <2>2. \A q \in Writers : tick'[q] = Zero => tick[q] = Zero
    BY <2>1 DEF Typed, TypeOK, Carry, Zero
  <2>3. pc'[Cron] = "get"
    BY <2>1, <1>0 DEF Typed, TypeOK
  <2>4. \A c \in Places' : Zero \in TicksOf(c) => c \in Places
    BY <2>1 DEF Places, TicksOf
  <2> QED
    BY <2>1, <2>2, <2>3, <2>4 DEF ZeroInv
<1> QED
  BY <1>1, <1>2, <1>3, <1>4

\* initCandle: the activation that does not begin a candle has met one, or
\* leaves a candle missing; the cron job merges a price of 0 after it met none.
LEMMA BeginZero ==
  ASSUME Typed, Typed', ZeroInv, InitCandle \/ CronInit \/ OtherCronInit
  PROVE  ZeroInv'
<1>0. /\ Activator \in Writers /\ Cron \in Writers /\ OtherCron \in Writers
      /\ Activator # Cron /\ Activator # OtherCron /\ Cron # OtherCron
  BY Names
<1>1. ASSUME NEW p \in {Activator, Cron, OtherCron},
             NEW price \in {InitPrice, Zero, OtherZero}, Begin(p, price),
             price = Zero => p = Cron
      PROVE  ZeroInv'
  <2>1. /\ UNCHANGED <<store, rows, taken, read, faults, active>>
        /\ pc[p] = "find"
        /\ \A q \in Writers \ {p} : pc'[q] = pc[q]
    BY <1>1, <1>0, Names DEF Begin, Goto, Return, world, job, Typed, TypeOK
  <2>2. missed => missed'
    BY <1>1 DEF Begin
  <2>3. p = Cron => missed
    BY <2>1 DEF ZeroInv
  <2>4. \A q \in Writers : tick'[q] = tick[q] \/ (q = p /\ tick'[q] = price)
    BY <1>1, <1>0 DEF Begin, Typed, TypeOK
  <2>5. Places' = Places
    BY <2>1 DEF Places
  <2>6. InitPrice # Zero
    BY Names
  <2>7. \/ store # None
        \/ pc'[p] = "get"
        \/ missed'
        \/ p # Activator
    BY <1>0, <1>1 DEF Begin, Goto, Return, Typed, TypeOK
  <2>8. \A q \in Writers : tick'[q] = Zero \/ Zero \in TicksOf(read'[q]) => missed'
    BY <1>1, <2>1, <2>2, <2>3, <2>4, <2>6 DEF ZeroInv
  <2>9. \A c \in Places' : Zero \in TicksOf(c) => missed'
    BY <2>2, <2>5 DEF ZeroInv
  <2>10. pc'[Cron] = "find" => missed'
    BY <1>0, <2>1, <2>2, <2>3 DEF ZeroInv
  <2>11. ~missed' /\ faults' = 0 /\ active' > 0 /\ store' = None =>
           pc'[Activator] # "idle" \/ pc'[Cron] \in {"get", "set", "save"}
    BY <1>0, <1>1, <2>1, <2>2, <2>3, <2>7 DEF ZeroInv
  <2> QED
    BY <2>8, <2>9, <2>10, <2>11 DEF ZeroInv
<1>2. CASE InitCandle
  BY <1>1, <1>2, Names DEF InitCandle
<1>3. CASE CronInit
  BY <1>0, <1>1, <1>3, Names DEF CronInit
<1>4. CASE OtherCronInit
  BY <1>0, <1>1, <1>4, Names DEF OtherCronInit
<1> QED
  BY <1>2, <1>3, <1>4

LEMMA CronReadZero ==
  ASSUME Typed, Typed', ZeroInv, CronRead
  PROVE  ZeroInv'
<1>0. Activator \in Writers /\ Cron \in Writers /\ Activator # Cron
  BY Names DEF Writers
<1>1. /\ UNCHANGED <<store, rows, read, faults, active, tick>>
      /\ pc[Cron] = "idle" /\ active > 0
      /\ pc'[Activator] = pc[Activator]
  BY <1>0 DEF CronRead, Goto, Typed, TypeOK
<1>2. CASE store = None
  <2>1. missed \/ pc[Activator] # "idle" \/ faults > 0 => missed'
    BY <1>2 DEF CronRead
  <2>2. faults \in Nat
    BY CandleAssumption DEF Typed, TypeOK
  <2>3. missed'
    BY <1>1, <1>2, <2>1, <2>2 DEF ZeroInv
  <2> QED
    BY <2>3 DEF ZeroInv
<1>3. CASE store # None
  <2>1. missed' = missed /\ taken' = store
    BY <1>3 DEF CronRead
  <2>2. pc'[Cron] = "save"
    BY <1>0, <1>3 DEF CronRead, Goto, Typed, TypeOK
  <2>3. Places' \subseteq Places
    BY <1>1, <2>1 DEF Places
  <2> QED
    BY <1>1, <1>3, <2>1, <2>2, <2>3 DEF ZeroInv
<1> QED
  BY <1>2, <1>3

LEMMA SaveZero ==
  ASSUME Typed, ZeroInv, Upsert \/ CloseCandle \/ DeleteCandle
  PROVE  ZeroInv'
<1>1. /\ pc[Cron] = "save"
      /\ UNCHANGED <<pc, tick, read, missed, faults, active>>
  BY DEF Upsert, CloseCandle, DeleteCandle, world, Typed, Roles
<1>2. \A c \in Places' : c = None \/ c \in Places
  BY DEF Upsert, CloseCandle, DeleteCandle, Places
<1>3. TicksOf(None) = {}
  BY DEF TicksOf
<1> QED
  BY <1>1, <1>2, <1>3 DEF ZeroInv

LEMMA DeathZero ==
  ASSUME Typed, ZeroInv, WorkerDies
  PROVE  ZeroInv'
<1>0. Cron \in Writers
  BY DEF Writers
<1>1. /\ UNCHANGED <<store, rows, missed>>
      /\ taken' = None /\ faults' = faults + 1
      /\ pc'[Cron] \in {"idle", "done"}
  BY <1>0, Names DEF WorkerDies, Typed, Roles
<1>2. \A q \in Writers : /\ tick'[q] \in {None, tick[q]}
                         /\ read'[q] \in {None, read[q]}
  BY DEF WorkerDies
<1>3. faults \in Nat
  BY CandleAssumption DEF Typed, TypeOK
<1>4. \A c \in Places' : c = None \/ c \in Places
  BY <1>1 DEF Places
<1>5. TicksOf(None) = {} /\ None # Zero
  BY Names DEF TicksOf, Prices
<1>6. \A q \in Writers : tick'[q] = Zero \/ Zero \in TicksOf(read'[q]) => missed'
  BY <1>1, <1>2, <1>5 DEF ZeroInv
<1>7. \A c \in Places' : Zero \in TicksOf(c) => missed'
  BY <1>1, <1>4, <1>5 DEF ZeroInv
<1>8. faults' # 0
  BY <1>1, <1>3
<1> QED
  BY <1>1, <1>6, <1>7, <1>8 DEF ZeroInv

LEMMA NextZero == Typed /\ Typed' /\ ZeroInv /\ [Next]_vars => ZeroInv'
<1> SUFFICES ASSUME Typed, Typed', ZeroInv, [Next]_vars PROVE ZeroInv'
  OBVIOUS
<1>1. CASE UNCHANGED vars
  BY <1>1 DEF vars, ZeroInv, Places
<1>2. CASE Tick
  BY <1>2 DEF Tick, job, ZeroInv, Places
<1>3. CASE Next
  <2>1. CASE Terminated
    BY <1>1, <2>1 DEF Terminated
  <2> QED
    BY <1>2, <1>3, <2>1, GetZero, SetZero, CallZero, BeginZero, CronReadZero,
       SaveZero, DeathZero
    DEF Next
<1> QED
  BY <1>1, <1>3

(***************************************************************************)
(* The price of 0 of another interval's cron job.                          *)
(***************************************************************************)

\* Only the candle that a writer stores is new.
LEMMA OtherFrame ==
  ASSUME OtherInv, others' = 0 => others = 0 /\ pc'[OtherCron] = "idle",
         \A c \in Places' : c = None \/ c \in Places,
         \A p \in Writers : read'[p] = None \/ read'[p] = read[p] \/ read'[p] \in Places
  PROVE  OtherInv'
<1>1. TicksOf(None) = {}
  BY DEF TicksOf
<1> SUFFICES ASSUME others' = 0
             PROVE  /\ pc'[OtherCron] = "idle"
                    /\ \A p \in Writers : OtherZero \notin TicksOf(read'[p])
                    /\ \A c \in Places' : OtherZero \notin TicksOf(c)
  BY DEF OtherInv
<1>2. /\ \A p \in Writers : OtherZero \notin TicksOf(read[p])
      /\ \A c \in Places : OtherZero \notin TicksOf(c)
  BY DEF OtherInv
<1> QED
  BY <1>1, <1>2

LEMMA SetOther ==
  ASSUME Typed, OtherInv, NEW p \in Writers, Set(p)
  PROVE  OtherInv'
<1>0. /\ \A q \in Writers : pc'[q] = IF q = p THEN IF p \in Trades THEN "done" ELSE "idle"
                                              ELSE pc[q]
      /\ \A q \in Writers : read'[q] = IF q = p THEN None ELSE read[q]
      /\ rows' = rows /\ taken' = taken /\ others' = others /\ pc[p] = "set"
  BY DEF Set, Goto, Return, job, world, Typed, TypeOK
<1> SUFFICES ASSUME others = 0
             PROVE  /\ pc'[OtherCron] = "idle"
                    /\ \A q \in Writers : OtherZero \notin TicksOf(read'[q])
                    /\ \A c \in Places' : OtherZero \notin TicksOf(c)
  BY <1>0 DEF OtherInv
<1>1. /\ pc[OtherCron] = "idle"
      /\ \A q \in Writers : OtherZero \notin TicksOf(read[q])
      /\ \A c \in Places : OtherZero \notin TicksOf(c)
  BY DEF OtherInv
<1>2. p # OtherCron /\ pc'[OtherCron] = "idle"
  BY <1>0, <1>1, Names
<1>3. tick[p] # OtherZero
  <2>1. CASE p \in Trades
    BY <1>0, <2>1, TickTyped, Names
  <2>2. CASE p \in {Activator, Cron}
    BY <1>0, <2>2, Names DEF Typed, Roles
  <2> QED
    BY <1>2, <2>1, <2>2 DEF Writers
<1>4. OtherZero \notin TicksOf(store')
  BY <1>1, <1>3, SetTypes
<1>5. TicksOf(None) = {}
  BY DEF TicksOf
<1> QED
  BY <1>0, <1>1, <1>2, <1>4, <1>5 DEF Places

LEMMA NextOther == Typed /\ Typed' /\ OtherInv /\ [Next]_vars => OtherInv'
<1> SUFFICES ASSUME Typed, Typed', OtherInv, [Next]_vars PROVE OtherInv'
  OBVIOUS
<1>0. /\ OtherCron \in Writers /\ Activator # OtherCron /\ Cron # OtherCron
      /\ \A t \in Trades : t # OtherCron
      /\ others = 0 => pc[OtherCron] = "idle"
  BY Names DEF OtherInv
<1>1. CASE UNCHANGED vars \/ Tick
  BY <1>0, <1>1, OtherFrame DEF vars, Tick, job, Places
<1>2. ASSUME NEW p \in Writers, Get(p) PROVE OtherInv'
  <2>1. /\ others' = others /\ pc[p] = "get"
        /\ \A q \in Writers \ {p} : pc'[q] = pc[q]
    BY <1>2 DEF Get, Goto, world, Typed, TypeOK
  <2>2. \A q \in Writers : read'[q] = read[q] \/ read'[q] = store
    BY <1>2 DEF Get, Typed, TypeOK
  <2>3. Places' = Places /\ store \in Places
    BY <1>2 DEF Get, job, Places
  <2>4. others' = 0 => others = 0 /\ pc'[OtherCron] = "idle"
    BY <1>0, <2>1
  <2> QED
    BY <2>2, <2>3, <2>4, OtherFrame
<1>3. ASSUME NEW t \in Trades, Trade(t) PROVE OtherInv'
  <2>1. /\ others' = others /\ pc'[OtherCron] = pc[OtherCron]
        /\ read' = read /\ Places' = Places
    BY <1>0, <1>3 DEF Trade, Call, world, job, Places, Typed, TypeOK
  <2> QED
    BY <1>0, <2>1, OtherFrame
<1>4. CASE Activate \/ InitCandle \/ CronInit \/ BeginNext \/ CronRead
  <2>1. PICK q \in {Activator, Cron} : \E x : pc' = [pc EXCEPT ![q] = x]
    BY <1>4 DEF Activate, InitCandle, CronInit, BeginNext, CronRead, Begin, Call, Goto, Return
  <2>2. pc'[OtherCron] = pc[OtherCron]
    BY <1>0, <2>1 DEF Typed, TypeOK
  <2>3. others' = others /\ read' = read /\ \A c \in Places' : c = None \/ c \in Places
    BY <1>4 DEF Activate, InitCandle, CronInit, BeginNext, CronRead, Begin, world, job, Places
  <2> QED
    BY <1>0, <2>2, <2>3, OtherFrame
<1>5. CASE OtherCronInit
  <2>1. others' = others /\ pc[OtherCron] = "find" /\ read' = read /\ Places' = Places
    BY <1>5 DEF OtherCronInit, Begin, world, job, Places
  <2> QED
    BY <1>0, <2>1, OtherFrame
<1>6. CASE OtherCronRead
  <2>1. others' # 0
    BY <1>6, CandleAssumption DEF OtherCronRead, Typed, TypeOK
  <2> QED
    BY <2>1 DEF OtherInv
<1>7. CASE Upsert \/ CloseCandle \/ DeleteCandle
  <2>1. /\ pc' = pc /\ read' = read /\ others' = others
        /\ \A c \in Places' : c = None \/ c \in Places
    BY <1>7 DEF Upsert, CloseCandle, DeleteCandle, world, Places
  <2> QED
    BY <1>0, <2>1, OtherFrame
<1>8. CASE WorkerDies
  <2>1. /\ others' = others
        /\ pc[OtherCron] = "idle" => pc'[OtherCron] = "idle"
    BY <1>0, <1>8 DEF WorkerDies
  <2>2. /\ \A q \in Writers : read'[q] = None \/ read'[q] = read[q]
        /\ \A c \in Places' : c = None \/ c \in Places
    BY <1>8 DEF WorkerDies, Places
  <2> QED
    BY <1>0, <2>1, <2>2, OtherFrame
<1>9. CASE Next
  <2>1. CASE Terminated
    BY <1>1, <2>1 DEF Terminated
  <2> QED
    BY <1>1, <1>2, <1>3, <1>4, <1>5, <1>6, <1>7, <1>8, <1>9, <2>1, SetOther DEF Next
<1> QED
  BY <1>1, <1>9

(***************************************************************************)
(* Trades.                                                                 *)
(***************************************************************************)

\* Only the candle that a writer stores is new.
LEMMA FreshFrame ==
  ASSUME Fresh,
         \A t \in Trades : pc'[t] # "done" => pc[t] # "done",
         \A c \in Places' : c = None \/ c \in Places,
         \A p \in Writers : read'[p] = None \/ read'[p] = read[p] \/ read'[p] \in Places
  PROVE  Fresh'
<1>1. TicksOf(None) = {}
  BY DEF TicksOf
<1> SUFFICES ASSUME NEW t \in Trades, pc'[t] # "done"
             PROVE  /\ \A c \in Places' : t \notin TicksOf(c)
                    /\ \A p \in Writers : t \notin TicksOf(read'[p])
  BY DEF Fresh
<1>2. /\ \A c \in Places : t \notin TicksOf(c)
      /\ \A p \in Writers : t \notin TicksOf(read[p])
  BY DEF Fresh
<1> QED
  BY <1>1, <1>2

LEMMA SetFresh ==
  ASSUME Typed, Fresh, NEW p \in Writers, Set(p)
  PROVE  Fresh'
<1>0. Trades \subseteq Writers
  BY DEF Writers
<1> SUFFICES ASSUME NEW t \in Trades, pc'[t] # "done"
             PROVE  /\ \A c \in Places' : t \notin TicksOf(c)
                    /\ \A q \in Writers : t \notin TicksOf(read'[q])
  BY DEF Fresh
<1>1. /\ \A q \in Writers : pc'[q] = IF q = p THEN IF p \in Trades THEN "done" ELSE "idle"
                                              ELSE pc[q]
      /\ \A q \in Writers : read'[q] = IF q = p THEN None ELSE read[q]
      /\ rows' = rows /\ taken' = taken /\ pc[p] = "set"
  BY DEF Set, Goto, Return, job, Typed, TypeOK
<1>2. t # p /\ pc[t] # "done"
  BY <1>0, <1>1
<1>3. /\ \A c \in Places : t \notin TicksOf(c)
      /\ \A q \in Writers : t \notin TicksOf(read[q])
  BY <1>2 DEF Fresh
<1>4. tick[p] # t
  BY <1>1, <1>2, TickTyped
<1>5. t \notin TicksOf(store')
  BY <1>3, <1>4, SetTypes
<1>6. TicksOf(None) = {}
  BY DEF TicksOf
<1> QED
  BY <1>1, <1>3, <1>5, <1>6 DEF Places

LEMMA NextFresh == Typed /\ Fresh /\ [Next]_vars => Fresh'
<1> SUFFICES ASSUME Typed, Fresh, [Next]_vars PROVE Fresh'
  OBVIOUS
<1>0. /\ Trades \subseteq Writers
      /\ Cron \in Writers /\ Activator \in Writers /\ OtherCron \in Writers
      /\ \A t \in Trades : t # Cron /\ t # Activator /\ t # OtherCron
  BY Names
<1>1. CASE UNCHANGED vars \/ Tick
  BY <1>1, FreshFrame DEF vars, Tick, job, Places
<1>2. ASSUME NEW p \in Writers, Get(p) PROVE Fresh'
  <2>1. \A t \in Trades : pc'[t] # "done" => pc[t] # "done"
    BY <1>0, <1>2 DEF Get, Goto, Typed, TypeOK
  <2>2. \A q \in Writers : read'[q] = read[q] \/ read'[q] = store
    BY <1>2 DEF Get, Typed, TypeOK
  <2>3. Places' = Places /\ store \in Places
    BY <1>2 DEF Get, job, Places
  <2> QED
    BY <2>1, <2>2, <2>3, FreshFrame
<1>3. CASE \/ \E t \in Trades : Trade(t)
           \/ Activate \/ InitCandle \/ CronInit \/ BeginNext
           \/ OtherCronRead \/ OtherCronInit
  <2>1. \A t \in Trades : pc'[t] # "done" => pc[t] # "done"
    <3>1. ASSUME NEW u \in Trades, Trade(u)
          PROVE  \A t \in Trades : pc'[t] # "done" => pc[t] # "done"
      BY <1>0, <3>1 DEF Trade, Call, Typed, TypeOK
    <3>2. ASSUME \/ Activate \/ InitCandle \/ CronInit \/ BeginNext
                 \/ OtherCronRead \/ OtherCronInit
          PROVE  \A t \in Trades : pc'[t] # "done" => pc[t] # "done"
      <4>1. PICK q \in {Activator, Cron, OtherCron} : \E x : pc' = [pc EXCEPT ![q] = x]
        BY <3>2 DEF Activate, InitCandle, CronInit, BeginNext, OtherCronRead, OtherCronInit,
                   Begin, Call, Goto, Return
      <4> QED
        BY <1>0, <4>1 DEF Typed, TypeOK
    <3> QED
      BY <1>3, <3>1, <3>2
  <2>2. read' = read /\ \A c \in Places' : c = None \/ c \in Places
    BY <1>3 DEF Trade, Activate, InitCandle, CronInit, BeginNext, OtherCronRead, OtherCronInit,
                Begin, world, job, Places
  <2> QED
    BY <2>1, <2>2, FreshFrame
<1>4. CASE CronRead
  <2>1. \A t \in Trades : pc'[t] # "done" => pc[t] # "done"
    <3>1. PICK x : pc' = [pc EXCEPT ![Cron] = x]
      BY <1>4 DEF CronRead, Goto
    <3> QED
      BY <1>0, <3>1 DEF Typed, TypeOK
  <2>2. read' = read /\ \A c \in Places' : c = None \/ c \in Places
    BY <1>4 DEF CronRead, Places
  <2> QED
    BY <2>1, <2>2, FreshFrame
<1>5. CASE Upsert \/ CloseCandle \/ DeleteCandle
  <2>1. pc' = pc /\ read' = read /\ \A c \in Places' : c = None \/ c \in Places
    BY <1>5 DEF Upsert, CloseCandle, DeleteCandle, world, Places
  <2> QED
    BY <2>1, FreshFrame
<1>6. CASE WorkerDies
  <2>1. \A t \in Trades : pc'[t] # "done" => pc[t] # "done"
    BY <1>0, <1>6 DEF WorkerDies
  <2>2. /\ \A q \in Writers : read'[q] = None \/ read'[q] = read[q]
        /\ \A c \in Places' : c = None \/ c \in Places
    BY <1>6 DEF WorkerDies, Places
  <2> QED
    BY <2>1, <2>2, FreshFrame
<1>7. CASE Next
  <2>1. CASE Terminated
    BY <1>1, <2>1 DEF Terminated
  <2> QED
    BY <1>1, <1>2, <1>3, <1>4, <1>5, <1>6, <1>7, <2>1, SetFresh DEF Next
<1> QED
  BY <1>1, <1>7

\* While the candles stay where they are, a trade stays in them.
LEMMA KeptFrame ==
  ASSUME Kept, UNCHANGED <<store, rows, taken, saving>>, raced \subseteq raced',
         \A t \in Trades : pc'[t] = "done" => pc[t] = "done" /\ time'[t] = time[t]
  PROVE  Kept'
<1> SUFFICES ASSUME NEW t \in Trades, t \notin raced', pc'[t] = "done"
             PROVE  KeptTrade(t)'
  BY DEF Kept
<1>1. KeptTrade(t) /\ time'[t] = time[t] /\ Places' = Places
  BY DEF Kept, Places
<1> QED
  BY <1>1 DEF KeptTrade

\* A writer overwrites what it has read, or what others have put there since.
LEMMA SetKept ==
  ASSUME Typed, Fresh, Kept, NEW p \in Writers, Set(p)
  PROVE  Kept'
<1>0. Trades \subseteq Writers
  BY DEF Writers
<1> DEFINE new == Merged(read[p], tick[p], time[p])
<1>1. /\ read[p] \in Candles \union {None} /\ store \in Candles \union {None}
      /\ time[p] \in 0 .. MaxClock /\ tick[p] \in Ticks
  BY SetTypes
<1>2. /\ store' = new
      /\ raced' = raced \union (IF store # read[p] THEN TradesOf(store) \union TradesOf(new)
                                ELSE IF Expired(read[p], time[p]) THEN TradesOf(store) ELSE {})
      /\ UNCHANGED <<rows, taken, saving>>
      /\ pc[p] = "set"
  BY DEF Set, job
<1>3. \A q \in Writers : pc'[q] = IF q = p THEN IF p \in Trades THEN "done" ELSE "idle"
                                             ELSE pc[q]
  BY DEF Set, Goto, Return, Typed, TypeOK
<1>4. new \in Candles
  BY <1>1, MergedTyped
<1> SUFFICES ASSUME NEW t \in Trades, t \notin raced', pc'[t] = "done"
             PROVE  KeptTrade(t)'
  BY DEF Kept
<1>5. t \in Ticks
  BY DEF Ticks
<1>9. time'[t] = time[t]
  BY <1>0 DEF Set, Return, Typed, TypeOK
<1>10. \A c : t \in TradesOf(c) <=> t \in TicksOf(c)
  BY TradesAmong
<1>6. CASE store # read[p]
  <2>1. t \notin TicksOf(store) /\ t \notin TicksOf(new) /\ t \notin raced
    BY <1>2, <1>6, <1>10
  <2>2. tick[p] \in TicksOf(new)
    BY <1>1, MergedBegins, MergedGoesOn
  <2>3. t # p
    BY <1>2, <2>1, <2>2, TickTyped
  <2>4. KeptTrade(t)
    BY <1>0, <1>3, <2>1, <2>3 DEF Kept
  <2> HIDE DEF new
  <2>5. \A c \in Places' : t \in TicksOf(c) => c \in Places
    BY <1>2, <2>1 DEF Places
  <2> QED
    BY <1>9, <1>2, <2>1, <2>4, <2>5 DEF KeptTrade
<1>7. CASE store = read[p] /\ (read[p] = None \/ Expired(read[p], time[p]))
  <2>1. /\ TicksOf(new) = {tick[p]} /\ new.start = time[p] /\ Once(new, tick[p])
    BY <1>1, <1>7, MergedBegins
  <2>2. t \notin TicksOf(store) /\ t \notin raced
    BY <1>2, <1>7, <1>10 DEF TicksOf
  <2>3. CASE t = p
    <3>1. tick[p] = p /\ pc[t] # "done"
      BY <1>2, <2>3, TickTyped
    <3>2. \A c \in Places : t \notin TicksOf(c)
      BY <3>1 DEF Fresh
    <3>3. time[t] <= new.start + Offset
      BY <1>1, <2>1, <2>3, CandleAssumption
    <3> HIDE DEF new
    <3>4. \A c \in Places' : t \in TicksOf(c) => c = new
      BY <1>2, <3>2 DEF Places
    <3>5. t \notin TicksOf(taken)
      BY <3>2 DEF Places
    <3> QED
      BY <1>9, <1>2, <2>1, <2>3, <3>1, <3>3, <3>4, <3>5 DEF KeptTrade
  <2>4. CASE t # p
    <3>1. KeptTrade(t)
      BY <1>0, <1>3, <2>2, <2>4 DEF Kept
    <3>2. tick[p] # t
      BY <1>2, <2>4, TickTyped
    <3> HIDE DEF new
    <3>3. \A c \in Places' : t \in TicksOf(c) => c \in Places
      BY <1>2, <2>1, <3>2 DEF Places
    <3> QED
      BY <1>9, <1>2, <2>1, <2>2, <3>1, <3>2, <3>3 DEF KeptTrade
  <2> QED
    BY <2>3, <2>4
<1>8. CASE store = read[p] /\ read[p] # None /\ ~ Expired(read[p], time[p])
  <2>1. /\ TicksOf(new) = TicksOf(store) \union {tick[p]}
        /\ new.start = store.start
        /\ time[p] <= store.start + Offset
        /\ tick[p] \notin TicksOf(store) => Once(new, tick[p])
        /\ \A u \in Ticks \ {tick[p]} : Once(store, u) => Once(new, u)
    BY <1>1, <1>8, MergedGoesOn
  <2>2. t \notin raced
    BY <1>2
  <2>3. CASE t = p
    <3>1. tick[p] = p /\ pc[t] # "done"
      BY <1>2, <2>3, TickTyped
    <3>2. \A c \in Places : t \notin TicksOf(c)
      BY <3>1 DEF Fresh
    <3>3. t \notin TicksOf(store) /\ t \notin TicksOf(taken)
      BY <3>2 DEF Places
    <3>4. Once(new, t) /\ time[t] <= new.start + Offset /\ t \in TicksOf(new)
      BY <2>1, <2>3, <3>1, <3>3
    <3> HIDE DEF new
    <3>5. \A c \in Places' : t \in TicksOf(c) => c = new
      BY <1>2, <3>2 DEF Places
    <3> QED
      BY <1>9, <1>2, <3>3, <3>4, <3>5 DEF KeptTrade
  <2>4. CASE t # p
    <3>1. KeptTrade(t)
      BY <1>0, <1>3, <2>2, <2>4 DEF Kept
    <3>2. tick[p] # t
      BY <1>2, <2>4, TickTyped
    <3>3. t \in TicksOf(new) <=> t \in TicksOf(store)
      BY <2>1, <3>2
    <3>4. Once(store, t) => Once(new, t)
      BY <1>5, <2>1, <3>2
    <3> HIDE DEF new
    <3>5. \A c \in Places' : c = new \/ c \in Places
      BY <1>2 DEF Places
    <3>6. store \in Places
      BY DEF Places
    <3>7. \A c \in Places' : t \in TicksOf(c) =>
            /\ Once(c, t) /\ time[t] <= c.start + Offset
            /\ \E d \in Places : t \in TicksOf(d) /\ d.start = c.start
      BY <2>1, <3>1, <3>3, <3>4, <3>5, <3>6 DEF KeptTrade
    <3>8. \A c, d \in Places' : t \in TicksOf(c) /\ t \in TicksOf(d) => c.start = d.start
      BY <3>1, <3>7 DEF KeptTrade
    <3> QED
      BY <1>9, <1>2, <3>1, <3>3, <3>7, <3>8 DEF KeptTrade
  <2> QED
    BY <2>3, <2>4
<1> QED
  BY <1>6, <1>7, <1>8

\* The cron job takes the candle, stores it, deletes it and begins the next one.
LEMMA CronKept ==
  ASSUME Typed, Kept, CronRead \/ Upsert \/ CloseCandle \/ DeleteCandle \/ BeginNext
  PROVE  Kept'
<1>0. Trades \subseteq Writers /\ Cron \in Writers /\ \A t \in Trades : t # Cron
  BY Names DEF Writers
<1>1. /\ raced \subseteq raced'
      /\ \A t \in Trades : pc'[t] = pc[t] /\ time'[t] = time[t]
  <2>1. CASE CronRead
    <3>1. \E x : pc' = [pc EXCEPT ![Cron] = x]
      BY <2>1 DEF CronRead, Goto
    <3>2. time' = time \/ time' = [time EXCEPT ![Cron] = clock]
      BY <2>1 DEF CronRead
    <3>3. raced' = raced
      BY <2>1 DEF CronRead
    <3> QED
      BY <1>0, <3>1, <3>2, <3>3 DEF Typed, TypeOK
  <2>2. CASE BeginNext
    BY <1>0, <2>2 DEF BeginNext, Call, Typed, TypeOK
  <2>3. CASE Upsert \/ CloseCandle \/ DeleteCandle
    BY <2>3 DEF Upsert, CloseCandle, DeleteCandle
  <2> QED
    BY <2>1, <2>2, <2>3
<1>2. TicksOf(None) = {}
  BY DEF TicksOf
<1> SUFFICES ASSUME NEW t \in Trades, t \notin raced', pc'[t] = "done"
             PROVE  KeptTrade(t)'
  BY DEF Kept
<1>3. KeptTrade(t) /\ time'[t] = time[t]
  BY <1>1 DEF Kept
<1>4. CASE CronRead
  <2>1. UNCHANGED <<store, rows>>
    BY <1>4 DEF CronRead
  <2>2. taken = None /\ saving = {}
    BY <1>4 DEF CronRead, Typed, Roles
  <2>3. (taken' = taken /\ saving' = saving) \/ taken' = store
    BY <1>4 DEF CronRead
  <2>4. \A c \in Places' : c \in Places
    BY <2>1, <2>3 DEF Places
  <2> QED
    BY <1>3, <2>1, <2>2, <2>3, <2>4 DEF KeptTrade
<1>5. CASE Upsert
  <2> DEFINE old == {r \in rows : r.start = taken.start}
  <2>1. /\ rows' = (rows \ old) \union {taken}
        /\ raced' = raced \union ((UNION {TradesOf(r) : r \in old}) \ TradesOf(taken))
        /\ saving' = saving \ {"upsert"} /\ UNCHANGED <<store, taken>>
    BY <1>5 DEF Upsert
  <2>2. \A r \in rows : t \in TicksOf(r) => r \in rows' \/ t \in TicksOf(taken)
    <3>1. \A r \in old : t \in TicksOf(r) => t \in TicksOf(taken)
      <4>1. SUFFICES ASSUME NEW r \in old, t \in TicksOf(r), t \notin TicksOf(taken)
                     PROVE  FALSE
        OBVIOUS
      <4> HIDE DEF old
      <4>2. t \in (UNION {TradesOf(q) : q \in old}) \ TradesOf(taken)
        <5>1. TradesOf(r) \in {TradesOf(q) : q \in old}
          BY <4>1
        <5>2. t \in TradesOf(r) /\ t \notin TradesOf(taken)
          BY <4>1, TradesAmong
        <5> DEFINE all == {TradesOf(q) : q \in old}
        <5> HIDE DEF all
        <5>3. t \in UNION all
          BY <5>1, <5>2 DEF all
        <5> QED
          BY <5>2, <5>3 DEF all
      <4> QED
        BY <2>1, <4>2
    <3> QED
      BY <2>1, <3>1
  <2>3. \A c \in Places' : c \in Places
    BY <2>1 DEF Places
  <2>4. taken \in rows'
    BY <2>1
  <2> QED
    BY <1>3, <2>1, <2>2, <2>3, <2>4 DEF KeptTrade
<1>6. CASE CloseCandle
  BY <1>3, <1>6 DEF CloseCandle, KeptTrade, Places
<1>7. CASE DeleteCandle
  <2>1. /\ store' = None /\ saving' = saving \ {"delete"} /\ "delete" \in saving
        /\ UNCHANGED <<rows, taken>>
        /\ store # taken => t \notin TicksOf(store) /\ t \notin TicksOf(taken)
    BY <1>7, TradesAmong DEF DeleteCandle
  <2>2. \A c \in Places' : c = None \/ c \in Places
    BY <2>1 DEF Places
  <2>3. \/ \E r \in rows : t \in TicksOf(r)
        \/ "upsert" \in saving /\ t \in TicksOf(taken)
    <3>1. CASE t \in TicksOf(store)
      <4>1. store = taken
        BY <2>1, <3>1
      <4>2. taken # None
        BY <1>2, <3>1, <4>1
      <4> QED
        BY <3>1, <4>1, <4>2 DEF Typed, Roles
    <3>2. CASE t \notin TicksOf(store)
      BY <1>3, <3>2 DEF KeptTrade
    <3> QED
      BY <3>1, <3>2
  <2>4. saving' \intersect {"publish", "delete"} = {}
    BY <2>1 DEF Typed, Roles
  <2> QED
    BY <1>2, <1>3, <2>1, <2>2, <2>3, <2>4 DEF KeptTrade
<1>8. CASE BeginNext
  <2>1. /\ taken' = None /\ saving = {} /\ UNCHANGED <<saving, store, rows>>
    BY <1>8 DEF BeginNext
  <2>2. \A c \in Places' : c = None \/ c \in Places
    BY <2>1 DEF Places
  <2> QED
    BY <1>2, <1>3, <2>1, <2>2 DEF KeptTrade
<1> QED
  BY <1>4, <1>5, <1>6, <1>7, <1>8

LEMMA DeathKept ==
  ASSUME Typed, Kept, WorkerDies
  PROVE  Kept'
<1>0. Trades \subseteq Writers
  BY DEF Writers
<1>1. TicksOf(None) = {}
  BY DEF TicksOf
<1> SUFFICES ASSUME NEW t \in Trades, t \notin raced', pc'[t] = "done"
             PROVE  KeptTrade(t)'
  BY DEF Kept
<1>2. /\ t \notin raced /\ pc[t] = "done"
      /\ taken' = None /\ saving' = {} /\ UNCHANGED <<store, rows>> /\ time'[t] = time[t]
      /\ saving = {"upsert"} => t \notin TicksOf(taken)
  BY <1>0, TradesAmong DEF WorkerDies
<1>3. KeptTrade(t)
  BY <1>2 DEF Kept
<1>4. \A c \in Places' : c = None \/ c \in Places
  BY <1>2 DEF Places
<1>5. t \in TicksOf(store) \/ \E r \in rows : t \in TicksOf(r)
  <2>1. CASE "upsert" \in saving /\ t \in TicksOf(taken)
    <3>1. saving # {"upsert"} /\ saving \subseteq {"publish", "delete", "upsert"}
      BY <1>2, <2>1 DEF Typed, TypeOK
    <3>2. saving \intersect {"publish", "delete"} # {}
      BY <2>1, <3>1
    <3> QED
      BY <1>3, <2>1, <3>2 DEF KeptTrade
  <2> QED
    BY <1>3, <2>1 DEF KeptTrade
<1> QED
  BY <1>1, <1>2, <1>3, <1>4, <1>5 DEF KeptTrade

LEMMA NextKept == Typed /\ Fresh /\ Kept /\ [Next]_vars => Kept'
<1> SUFFICES ASSUME Typed, Fresh, Kept, [Next]_vars PROVE Kept'
  OBVIOUS
<1>0. /\ Trades \subseteq Writers
      /\ Cron \in Writers /\ Activator \in Writers /\ OtherCron \in Writers
      /\ \A t \in Trades : t # Cron /\ t # Activator /\ t # OtherCron
  BY Names
<1>1. CASE UNCHANGED vars \/ Tick
  BY <1>1, KeptFrame DEF vars, Tick, job
<1>2. ASSUME NEW p \in Writers, Get(p) PROVE Kept'
  <2>1. \A t \in Trades : pc'[t] = "done" => pc[t] = "done" /\ time'[t] = time[t]
    BY <1>0, <1>2 DEF Get, Goto, Typed, TypeOK
  <2> QED
    BY <1>2, <2>1, KeptFrame DEF Get, job
<1>3. ASSUME NEW u \in Trades, Trade(u) PROVE Kept'
  <2>1. \A t \in Trades : pc'[t] = "done" => pc[t] = "done" /\ time'[t] = time[t]
    BY <1>0, <1>3 DEF Trade, Call, Typed, TypeOK
  <2> QED
    BY <1>3, <2>1, KeptFrame DEF Trade, job
<1>4. CASE Activate \/ InitCandle \/ CronInit \/ OtherCronRead \/ OtherCronInit
  <2>1. PICK q \in {Activator, Cron, OtherCron} : \E x : pc' = [pc EXCEPT ![q] = x]
    BY <1>4 DEF Activate, InitCandle, CronInit, OtherCronRead, OtherCronInit, Begin, Goto, Return
  <2>2. \/ time' = time
        \/ \E p \in {Activator, Cron, OtherCron}, b \in Nat : time' = [time EXCEPT ![p] = b]
    BY <1>4, CandleAssumption DEF Activate, InitCandle, CronInit, OtherCronRead, OtherCronInit,
                                  Begin, Return, Typed, TypeOK
  <2>3. \A t \in Trades : pc'[t] = "done" => pc[t] = "done" /\ time'[t] = time[t]
    BY <1>0, <2>1, <2>2 DEF Typed, TypeOK
  <2>4. UNCHANGED <<store, rows, taken, saving, raced>>
    BY <1>4 DEF Activate, InitCandle, CronInit, OtherCronRead, OtherCronInit, Begin, job
  <2> QED
    BY <2>3, <2>4, KeptFrame
<1>5. CASE Next
  <2>1. CASE Terminated
    BY <1>1, <2>1 DEF Terminated
  <2> QED
    BY <1>1, <1>2, <1>3, <1>4, <1>5, <2>1, SetKept, CronKept, DeathKept DEF Next
<1> QED
  BY <1>1, <1>5

(***************************************************************************)
(* The invariant of the specification.                                     *)
(***************************************************************************)

LEMMA InitEstablishes == Init => IInv
<1> SUFFICES ASSUME Init PROVE IInv
  OBVIOUS
<1>1. Typed
  BY InitTyped
<1>2. TicksOf(None) = {} /\ None # Zero
  BY Names DEF TicksOf, Prices
<1>3. /\ Places = {None}
      /\ \A p \in Writers : pc[p] = "idle" /\ tick[p] = None /\ read[p] = None
      /\ active = 0
  BY DEF Init, Places
<1>4. Trades \subseteq Writers /\ Cron \in Writers
  BY DEF Writers
<1>5. ZeroInv
  BY <1>2, <1>3, <1>4 DEF ZeroInv
<1>6. Fresh /\ Kept
  BY <1>2, <1>3, <1>4 DEF Fresh, Kept
<1>7. OtherInv
  BY <1>2, <1>3, Names DEF OtherInv
<1> QED
  BY <1>1, <1>5, <1>6, <1>7 DEF IInv

LEMMA NextKeeps == IInv /\ [Next]_vars => IInv'
BY NextTyped, NextZero, NextOther, NextFresh, NextKept DEF IInv

\* What the writers, the cron job and the rows may rely on at every step.
THEOREM Invariance == Spec => []IInv
BY InitEstablishes, NextKeeps, PTL DEF Spec

\* Every variable keeps its type, and a bucket has one row
\* (schedules.service.ts:173-189).
THEOREM TypeCorrect == Spec => []TypeOK
<1>1. IInv => TypeOK
  BY DEF IInv, Typed
<1> QED
  BY <1>1, Invariance, PTL

\* A price of 0 enters a candle only after one of the named reasons for the cron
\* job of the interval to meet none, or after the cron job of another interval
\* met none of its own (schedules.service.ts:146-156, market-token.service.ts:130-145).
THEOREM ZeroIsExplained == Spec => []ZeroOnlyIfMissed
<1>1. IInv => ZeroOnlyIfMissed
  <2> SUFFICES ASSUME IInv, NEW c \in rows \union ({store} \ {None})
               PROVE  /\ Zero \in TicksOf(c) => missed
                      /\ OtherZero \in TicksOf(c) => others > 0
    BY DEF ZeroOnlyIfMissed
  <2>1. c \in Places
    BY DEF Places
  <2>2. Zero \in TicksOf(c) => missed
    BY <2>1 DEF IInv, ZeroInv
  <2>3. OtherZero \in TicksOf(c) => others # 0
    BY <2>1 DEF IInv, OtherInv
  <2>4. others \in Nat
    BY CandleAssumption DEF IInv, Typed, TypeOK
  <2> QED
    BY <2>2, <2>3, <2>4
<1> QED
  BY <1>1, Invariance, PTL

\* Outside the named races no trade is lost and none is counted twice, whatever
\* the order of the engine's, the cron job's and the activation's commands
\* (redis.candle.service.ts:41-104, schedules.service.ts:173-209).
THEOREM TradesAreKept == Spec => []TradeKept
<1>1. IInv => TradeKept
  <2> SUFFICES ASSUME IInv, \A p \in Writers : pc[p] \in {"idle", "done"},
                      NEW t \in Trades \ raced, pc[t] = "done"
               PROVE  LET homes == {c \in rows \union ({store} \ {None}) : t \in TicksOf(c)} IN
                      /\ \E b \in 0 .. MaxClock : {c.start : c \in homes} = {b} /\ time[t] <= b + Offset
                      /\ \A c \in homes : Cardinality({i \in DOMAIN c.ticks : c.ticks[i] = t}) = 1
    BY DEF TradeKept
  <2> DEFINE homes == {c \in rows \union ({store} \ {None}) : t \in TicksOf(c)}
  <2>1. KeptTrade(t) /\ Typed
    BY DEF IInv, Kept
  <2>2. saving = {}
    <3>1. Cron \in Writers
      BY DEF Writers
    <3> QED
      BY <2>1, <3>1 DEF Typed, Roles
  <2>3. homes \subseteq Places /\ homes \subseteq Candles
    BY <2>1 DEF Places, Typed, TypeOK
  <2>4. PICK h \in homes : TRUE
    <3>1. t \in TicksOf(store) => store # None
      BY DEF TicksOf
    <3> QED
      BY <2>1, <2>2, <3>1 DEF KeptTrade
  <2>5. \A c \in homes : c.start = h.start /\ Once(c, t) /\ time[t] <= c.start + Offset
    <3>1. \A c \in homes : c \in Places /\ t \in TicksOf(c)
      BY <2>3
    <3> HIDE DEF homes
    <3> QED
      BY <2>1, <2>4, <3>1 DEF KeptTrade
  <2>6. h.start \in 0 .. MaxClock
    BY <2>3 DEF Candles
  <2>7. {c.start : c \in homes} = {h.start}
    BY <2>5
  <2>8. ASSUME NEW c \in homes
        PROVE  Cardinality({i \in DOMAIN c.ticks : c.ticks[i] = t}) = 1
    <3>1. c # None /\ t \in TicksOf(c) /\ Once(c, t)
      BY <2>3, <2>5, Names
    <3>2. PICK i \in DOMAIN c.ticks : c.ticks[i] = t
      BY <3>1 DEF TicksOf, ToSet
    <3>3. {j \in DOMAIN c.ticks : c.ticks[j] = t} = {i}
      BY <3>1, <3>2 DEF Once
    <3> QED
      BY <3>3, FS_Singleton
  <2> QED
    BY <2>5, <2>6, <2>7, <2>8
<1> QED
  BY <1>1, Invariance, PTL
=============================================================================
