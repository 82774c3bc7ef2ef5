------------------------------- MODULE Candle -------------------------------
(***************************************************************************)
(* The current candle of one market and interval in Redis, and the rows it *)
(* becomes.  The engine reads it, merges a trade and writes it back; every *)
(* interval a cron job stores it, deletes it and begins the next one; the  *)
(* API begins the first one when the market is activated.                  *)
(*                                                                         *)
(* A candle is the bucket it began in and the sequence of what was merged  *)
(* into it: open, high, low, close, volume and count follow from that.     *)
(* An action is one Redis command, or one statement of the database.       *)
(***************************************************************************)
EXTENDS Integers, Sequences, FiniteSets, SequencesExt

CONSTANTS
  Trades,     \* fills of the engine, perhaps of overlapping jobs
  Activator,  \* the API's activation of the market
  Cron,       \* the cron job
  OtherCron,  \* the cron job of another interval
  Offset,     \* intervals a candle's end lies after the end of its bucket
  MaxClock,   \* bound: buckets
  MaxActivations, \* bound: activations of the market
  MaxFaults,  \* bound: deaths of the worker, and candles OtherCron misses
  None        \* no candle

\* What may be merged besides a trade: the price of the activation, the close
\* of the candle before, and the price 0 of a cron job that missed its candle.
InitPrice == "init"
Carry == "carry"
Zero == "zero"
OtherZero == "other zero"
Prices == {InitPrice, Carry, Zero, OtherZero}
Ticks == Trades \union Prices
Writers == Trades \union {Activator, Cron, OtherCron}

ASSUME CandleAssumption ==
  /\ Offset \in Nat /\ MaxClock \in Nat /\ MaxActivations \in Nat /\ MaxFaults \in Nat
  /\ Trades \intersect {Activator, Cron, OtherCron} = {}
  /\ Activator # Cron /\ Activator # OtherCron /\ Cron # OtherCron
  /\ Trades \intersect Prices = {}
  /\ None \notin Ticks \union [start : Nat, ticks : Seq(Ticks)]

VARIABLES
  clock,     \* the current bucket
  active,    \* activations so far: the market is active from the first one on
  store,     \* the candle in Redis, or None
  rows,      \* stored candles, one for each bucket
  pc,        \* [Writers -> step]
  tick,      \* [Writers -> what its updateCandle merges, or None]
  time,      \* [Writers -> bucket of the call]
  read,      \* [Writers -> what updateCandle's GET returned]
  taken,     \* the candle the cron job works on, or None
  saving,    \* the parts of the cron job's Promise.all that are still to do
  last,      \* bucket of the last run of the cron job
  others,    \* times the cron job of the other interval missed its candle
  faults,
  raced,     \* history: trades of a candle two writers changed at once, or
             \* that went with the worker or under a row of the same bucket
  missed     \* history: there was a reason for the cron job to meet no candle

vars == <<clock, active, store, rows, pc, tick, time, read, taken, saving, last,
          others, faults, raced, missed>>
world == <<clock, active, last, others, faults>>
job == <<taken, saving>>

Candles == [start : 0 .. MaxClock, ticks : Seq(Ticks)]
TicksOf(c) == IF c = None THEN {} ELSE ToSet(c.ticks)
TradesOf(c) == TicksOf(c) \intersect Trades
Goto(p, step) == pc' = [pc EXCEPT ![p] = step]

\* A call that is over has no time; a trade keeps its own, for the properties.
Return(p) == Goto(p, "idle") /\ time' = [time EXCEPT ![p] = 0]

Init ==
  /\ clock = 0 /\ active = 0 /\ store = None /\ rows = {}
  /\ pc = [p \in Writers |-> "idle"]
  /\ tick = [p \in Writers |-> None]
  /\ time = [p \in Writers |-> 0]
  /\ read = [p \in Writers |-> None]
  /\ taken = None /\ saving = {} /\ last = 0
  /\ others = 0 /\ faults = 0
  /\ raced = {} /\ missed = FALSE

(***************************************************************************)
(* updateCandle: GET, merge, SET and PUBLISH.                              *)
(***************************************************************************)

\* The call, with its price and its time.
Call(p, t) ==
  /\ tick' = [tick EXCEPT ![p] = t]
  /\ time' = [time EXCEPT ![p] = clock]
  /\ pc' = [pc EXCEPT ![p] = "get"]

Get(p) ==
  /\ pc[p] = "get"
  /\ read' = [read EXCEPT ![p] = store]
  /\ Goto(p, "set")
  /\ UNCHANGED <<world, store, rows, tick, time, job, raced, missed>>

\* Mutant: a trade begins a candle of its own.
MergedAlone(c, t, now) == [start |-> now, ticks |-> <<t>>]

\* The end of a candle is stored Offset later than its bucket ends, the time of
\* a trade is compared as it is: a candle goes on into the next buckets.
Expired(c, now) == c # None /\ c.start + 1 + Offset <= now

Merged(c, t, now) ==
  IF c = None \/ Expired(c, now)
  THEN [start |-> now, ticks |-> <<t>>]
  ELSE [c EXCEPT !.ticks = Append(@, t)]

\* A candle that changed since the GET is overwritten, and one that has expired
\* is replaced though nobody has stored it.
Set(p) ==
  LET new == Merged(read[p], tick[p], time[p]) IN
  /\ pc[p] = "set"
  /\ store' = new
  /\ raced' = raced \union (IF store # read[p] THEN TradesOf(store) \union TradesOf(new)
                            ELSE IF Expired(read[p], time[p]) THEN TradesOf(store) ELSE {})
  /\ tick' = [tick EXCEPT ![p] = None]
  /\ read' = [read EXCEPT ![p] = None]
  /\ IF p \in Trades THEN Goto(p, "done") /\ UNCHANGED time ELSE Return(p)
  /\ UNCHANGED <<world, rows, job, missed>>

\* A fill of the engine.
Trade(t) ==
  /\ active > 0 /\ pc[t] = "idle"
  /\ Call(t, t)
  /\ UNCHANGED <<world, store, rows, read, job, raced, missed>>

(***************************************************************************)
(* handleActiveMarketToken: isActive is saved, then initCandle, which is   *)
(* not awaited, begins the candles of the intervals one after the other,   *)
(* and ends at the first one that has a candle.                            *)
(***************************************************************************)
Activate ==
  /\ active < MaxActivations /\ pc[Activator] = "idle"
  /\ active' = active + 1
  /\ time' = [time EXCEPT ![Activator] = clock]
  /\ Goto(Activator, "find")
  /\ UNCHANGED <<clock, last, others, faults, store, rows, tick, read, job, raced, missed>>

\* initCandle of p with a price: it finds the candle, or finds none and begins
\* one, or does not get to this interval, whose candle is then missing.
Begin(p, price) ==
  /\ pc[p] = "find"
  /\ \/ /\ store = None
        /\ tick' = [tick EXCEPT ![p] = price]
        /\ Goto(p, "get")
        /\ UNCHANGED <<time, missed>>
     \/ /\ store # None
        /\ Return(p)
        /\ UNCHANGED <<tick, missed>>
     \/ /\ store = None
        /\ Return(p)
        /\ missed' = (missed \/ p = Activator)
        /\ UNCHANGED tick
  /\ UNCHANGED <<world, store, rows, read, job, raced>>

InitCandle == Begin(Activator, InitPrice)

(***************************************************************************)
(* handleCandle, once for every bucket, when the worker is up.             *)
(***************************************************************************)

\* getCandle.  Without a candle, initCandle of price 0 does its own GET.
CronRead ==
  /\ active > 0 /\ pc[Cron] = "idle" /\ last < clock
  /\ last' = clock
  /\ \/ /\ store = None
        /\ missed' = (missed \/ pc[Activator] # "idle" \/ faults > 0)
        /\ time' = [time EXCEPT ![Cron] = clock]
        /\ Goto(Cron, "find")
        /\ UNCHANGED <<taken, saving>>
     \/ /\ store # None
        /\ taken' = store
        /\ saving' = {"publish", "upsert"}
        /\ Goto(Cron, "save")
        /\ UNCHANGED <<time, missed>>
  /\ UNCHANGED <<clock, active, others, faults, store, rows, tick, read, raced>>

CronInit == Begin(Cron, Zero)

\* initCandle goes through the candles of all intervals, so that the cron job of
\* another interval, when it finds none of its own, begins this one as well.
OtherCronRead ==
  /\ active > 0 /\ pc[OtherCron] = "idle" /\ others + faults < MaxFaults
  /\ others' = others + 1
  /\ time' = [time EXCEPT ![OtherCron] = clock]
  /\ Goto(OtherCron, "find")
  /\ UNCHANGED <<clock, active, last, faults, store, rows, tick, read, job, raced, missed>>

OtherCronInit == Begin(OtherCron, OtherZero)

\* Mutant: the row is inserted.
UpsertInserted ==
  /\ "upsert" \in saving
  /\ rows' = rows \union {taken}
  /\ saving' = saving \ {"upsert"}
  /\ UNCHANGED <<world, store, pc, tick, time, read, taken, raced, missed>>

\* The row of the candle that was read, over one of the same bucket: a candle
\* that is closed in the bucket it began in has a successor of the same start.
Upsert ==
  LET old == {r \in rows : r.start = taken.start} IN
  /\ "upsert" \in saving
  /\ rows' = (rows \ old) \union {taken}
  /\ raced' = raced \union ((UNION {TradesOf(r) : r \in old}) \ TradesOf(taken))
  /\ saving' = saving \ {"upsert"}
  /\ UNCHANGED <<world, store, pc, tick, time, read, taken, missed>>

\* closeCandle's own GET and its PUBLISH: clients see the end of the candle.
CloseCandle ==
  /\ "publish" \in saving
  /\ saving' = (saving \ {"publish"}) \union {"delete"}
  /\ UNCHANGED <<world, store, rows, pc, tick, time, read, taken, raced, missed>>

\* closeCandle's DEL, whatever has been merged since.
DeleteCandle ==
  /\ "delete" \in saving
  /\ store' = None
  /\ saving' = saving \ {"delete"}
  /\ raced' = IF store # taken THEN raced \union TradesOf(store) \union TradesOf(taken)
                               ELSE raced
  /\ UNCHANGED <<world, rows, pc, tick, time, read, taken, missed>>

\* Mutant: the Promise.all is not awaited.
BeginNextUnawaited ==
  /\ pc[Cron] = "save"
  /\ Call(Cron, Carry)
  /\ UNCHANGED <<world, job, store, rows, read, raced, missed>>

\* After both, updateCandle with the close of the old candle.
BeginNext ==
  /\ pc[Cron] = "save" /\ saving = {}
  /\ taken' = None
  /\ Call(Cron, Carry)
  /\ UNCHANGED <<world, saving, store, rows, read, raced, missed>>

(***************************************************************************)
(* Time, and the worker.                                                   *)
(***************************************************************************)
Tick ==
  /\ clock < MaxClock
  /\ clock' = clock + 1
  /\ UNCHANGED <<active, last, others, faults, store, rows, pc, tick, time, read, job, raced, missed>>

\* The engine and the cron jobs die together, with the trades on their way; a
\* candle whose deletion overtook its row is gone.
WorkerDies ==
  LET dead == {p \in Writers \ {Activator} : pc[p] \in {"get", "set", "find", "save"}} IN
  /\ others + faults < MaxFaults /\ dead # {}
  /\ faults' = faults + 1
  /\ pc' = [p \in Writers |-> IF p \notin dead THEN pc[p]
                              ELSE IF p \in Trades THEN "done" ELSE "idle"]
  /\ tick' = [p \in Writers |-> IF p \in dead THEN None ELSE tick[p]]
  /\ read' = [p \in Writers |-> IF p \in dead THEN None ELSE read[p]]
  /\ raced' = raced \union (dead \intersect Trades)
                    \union (IF saving = {"upsert"} THEN TradesOf(taken) ELSE {})
  /\ taken' = None /\ saving' = {}
  /\ time' = [p \in Writers |-> IF p \in dead \ Trades THEN 0 ELSE time[p]]
  /\ UNCHANGED <<clock, active, last, others, store, rows, missed>>

\* No trade, no bucket is left: the system may stop.
Terminated ==
  /\ clock = MaxClock
  /\ \A p \in Writers : pc[p] \in {"idle", "done"}
  /\ UNCHANGED vars

Next ==
  \/ \E p \in Writers : Get(p) \/ Set(p)
  \/ \E t \in Trades : Trade(t)
  \/ Activate \/ InitCandle
  \/ CronRead \/ CronInit \/ Upsert \/ CloseCandle \/ DeleteCandle \/ BeginNext
  \/ OtherCronRead \/ OtherCronInit
  \/ Tick \/ WorkerDies \/ Terminated

Spec == Init /\ [][Next]_vars

(***************************************************************************)
(* Properties.                                                             *)
(***************************************************************************)

\* Every variable has its type, and a bucket has one row.
TypeOK ==
  /\ clock \in 0 .. MaxClock /\ last \in 0 .. MaxClock /\ active \in 0 .. MaxActivations
  /\ store \in Candles \union {None} /\ taken \in Candles \union {None}
  /\ rows \subseteq Candles /\ \A r, q \in rows : r.start = q.start => r = q
  /\ pc \in [Writers -> {"idle", "get", "set", "find", "save", "done"}]
  /\ tick \in [Writers -> Ticks \union {None}]
  /\ time \in [Writers -> 0 .. MaxClock]
  /\ read \in [Writers -> Candles \union {None}]
  /\ saving \subseteq {"publish", "delete", "upsert"}
  /\ others \in 0 .. MaxFaults /\ faults \in 0 .. MaxFaults
  /\ raced \subseteq Trades /\ missed \in BOOLEAN

\* When no writer is at work, a trade is in one candle, once, stored or current,
\* that began at most Offset + 1 buckets before its time: unless two writers
\* changed that candle at once, the worker died with the trade or between the
\* deletion and the row of its candle, the candle was replaced unstored after
\* Offset buckets without the cron job, or its row by a later candle that began
\* in the same bucket
\* (redis.candle.service.ts:41-79, schedules.service.ts:173-209).
TradeKept ==
  (\A p \in Writers : pc[p] \in {"idle", "done"}) =>
    \A t \in {t \in Trades \ raced : pc[t] = "done"} :
      LET homes == {c \in rows \union ({store} \ {None}) : t \in TicksOf(c)} IN
      /\ \E b \in 0 .. MaxClock : {c.start : c \in homes} = {b} /\ time[t] <= b + Offset
      /\ \A c \in homes : Cardinality({i \in DOMAIN c.ticks : c.ticks[i] = t}) = 1

\* A price of 0 enters a candle only when the cron job met a market whose first
\* candle was still to be written, or whose candle was lost with the worker
\* between its deletion and the next one, or an initCandle ended at an earlier
\* interval; or when the cron job of another interval missed its own candle and
\* began this one too (schedules.service.ts:146-156, market-token.service.ts:130-145).
ZeroOnlyIfMissed ==
  \A c \in rows \union ({store} \ {None}) :
    /\ Zero \in TicksOf(c) => missed
    /\ OtherZero \in TicksOf(c) => others > 0
=============================================================================
