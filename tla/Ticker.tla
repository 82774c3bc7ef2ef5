------------------------------- MODULE Ticker -------------------------------
(***************************************************************************)
(* The ticker of one market in Redis: the engine merges every fill into    *)
(* it, the activation of the market begins it anew, a daily job stores it, *)
(* and each process compares it every six seconds with the summary it      *)
(* announced last.  A reader that finds no ticker restores the row of      *)
(* today, or fails; the API's readers on behalf of clients do no more than *)
(* a flush does, and are left out.                                         *)
(*                                                                         *)
(* A ticker is the sequence of its fills and the stamp of its last change: *)
(* prices, volumes and the change in percent follow from that.             *)
(***************************************************************************)
EXTENDS Integers, Sequences, FiniteSets, SequencesExt

CONSTANTS
  Fills,           \* fills of the engine, perhaps of overlapping jobs
  Daily,           \* the daily job
  Api, Worker,     \* the flush of each process
  Activator,       \* the API's activation of the market
  MaxDays,         \* bound: days
  MaxActivations,  \* bound: activations
  MaxFaults,       \* bound: deaths of a process, losses of the Redis data
  None             \* no ticker, no summary

ASSUME TickerAssumption ==
  /\ MaxDays \in Nat /\ MaxActivations \in Nat /\ MaxFaults \in Nat
  /\ Daily \notin {Api, Worker, Activator} /\ Api \notin {Worker, Activator}
  /\ Worker # Activator
  /\ {Daily, Api, Worker, Activator} \intersect Fills = {}
  /\ None \notin [fills : Seq(Fills), at : Nat]
  /\ None \notin [last : Fills \union {None}, at : Nat]

Flushers == {Api, Worker}
Readers == Fills \union Flushers \union {Daily}
Actors == Readers \union {Activator}
OfWorker == Fills \union {Daily, Worker}
OfApi == {Api, Activator}

VARIABLES
  day,      \* the current date
  now,      \* stamps taken so far
  active,   \* activations so far
  store,    \* the ticker in Redis, or None
  listed,   \* the market is in the set "tickers"
  rows,     \* stored tickers, with their date
  pc,       \* [Actors -> step]
  got,      \* [Readers -> what getTicker returns, or None]
  stamp,    \* [Fills \union {Activator} -> updatedAt of its ticker]
  seen,     \* [Flushers -> summary last announced, None: not in the map]
  faults,
  newest,   \* history: the greatest stamp stored
  gone      \* history: fills overwritten by a concurrent change, an
            \* activation or a restored row, or lost with Redis

vars == <<day, now, active, store, listed, rows, pc, got, stamp, seen, faults, newest, gone>>

Tickers == [fills : Seq(Fills), at : Nat]
FillsOf(t) == IF t = None THEN {} ELSE ToSet(t.fills)
Goto(p, step) == pc' = [pc EXCEPT ![p] = step]

Init ==
  /\ day = 0 /\ now = 0 /\ active = 0 /\ store = None /\ listed = FALSE /\ rows = {}
  /\ pc = [p \in Actors |-> IF p \in Flushers THEN "boot" ELSE "idle"]
  /\ got = [p \in Readers |-> None]
  /\ stamp = [p \in Fills \union {Activator} |-> 0]
  /\ seen = [p \in Flushers |-> None]
  /\ faults = 0 /\ newest = 0 /\ gone = {}

\* A new updatedAt.
Stamp(p) == now' = now + 1 /\ stamp' = [stamp EXCEPT ![p] = now + 1]

\* A SET of the key, over whatever is there; kept are the fills that another
\* change may not lose.
Write(t, kept) ==
  /\ store' = t
  /\ newest' = IF t.at > newest THEN t.at ELSE newest
  /\ gone' = gone \union ((FillsOf(store) \ kept) \ FillsOf(t))

(***************************************************************************)
(* The death of a process, and its restart: what it was doing ends.        *)
(***************************************************************************)
Kill(P) ==
  /\ pc' = [p \in Actors |->
              CASE p \in P \intersect Flushers -> "boot"
                [] p \in P \intersect Fills /\ pc[p] # "idle" -> "done"
                [] p \in P \ (Flushers \union Fills) -> "idle"
                [] OTHER -> pc[p]]
  /\ got' = [p \in Readers |-> IF p \in P THEN None ELSE got[p]]
  /\ seen' = [p \in Flushers |-> IF p \in P THEN None ELSE seen[p]]

\* A fill that had not been written when its worker died is none.
LostWith(P) == {f \in P \intersect Fills : pc[f] \in {"get", "query", "restore", "got"}}

(***************************************************************************)
(* getTicker: GET, else the row of today and its SET, else an error: the   *)
(* row of the default ticker has no openPrice, which is not nullable.      *)
(***************************************************************************)
Get(p) ==
  /\ pc[p] = "get"
  /\ \/ store # None /\ got' = [got EXCEPT ![p] = store] /\ Goto(p, "got")
     \/ store = None /\ Goto(p, "query") /\ UNCHANGED got
  /\ UNCHANGED <<day, now, active, store, listed, rows, stamp, seen, faults, newest, gone>>

Today == {r \in rows : r.day = day}

QueryFinds(p) ==
  /\ pc[p] = "query"
  /\ \E r \in Today : got' = [got EXCEPT ![p] = r.ticker]
  /\ Goto(p, "restore")
  /\ UNCHANGED <<day, now, active, store, listed, rows, stamp, seen, faults, newest, gone>>

\* The error is caught by the daily job; from a flush or from the engine nobody
\* catches it, and the process ends.
QueryFails(p) ==
  /\ pc[p] = "query" /\ Today = {}
  /\ LET P == IF p = Api THEN OfApi ELSE IF p \in Fills \union {Worker} THEN OfWorker ELSE {p} IN
     /\ Kill(P)
     /\ gone' = gone \union LostWith(P)
  /\ UNCHANGED <<day, now, active, store, listed, rows, stamp, faults, newest>>

Restore(p) ==
  /\ pc[p] = "restore"
  /\ Write(got[p], {})
  /\ Goto(p, "got")
  /\ UNCHANGED <<day, now, active, listed, rows, got, stamp, seen, faults>>

(***************************************************************************)
(* updateTicker of the engine and of the activation: SET, then SADD and    *)
(* PUBLISH.                                                                *)
(***************************************************************************)

\* The stamp is taken before getTicker.
StartFill(f) ==
  /\ active > 0 /\ pc[f] = "idle"
  /\ Stamp(f)
  /\ Goto(f, "get")
  /\ UNCHANGED <<day, active, store, listed, rows, got, seen, faults, newest, gone>>

\* Mutant: every fill is a ticker of its own.
MergedAlone(t, f) == [fills |-> <<f>>, at |-> stamp[f]]
\* Mutant: updatedAt stays what it was.
MergedUnstamped(t, f) == [t EXCEPT !.fills = Append(@, f)]

Merged(t, f) == [fills |-> Append(t.fills, f), at |-> stamp[f]]

\* What was stored since the GET is overwritten.
WriteFill(f) ==
  /\ pc[f] = "got"
  /\ Write(Merged(got[f], f), IF store = got[f] THEN FillsOf(store) ELSE {})
  /\ got' = [got EXCEPT ![f] = None]
  /\ Goto(f, "add")
  /\ UNCHANGED <<day, now, active, listed, rows, stamp, seen, faults>>

\* isActive is saved; neither the candle nor the ticker is awaited.
Activate ==
  /\ active < MaxActivations /\ pc[Activator] = "idle"
  /\ active' = active + 1
  /\ Stamp(Activator)
  /\ Goto(Activator, "got")
  /\ UNCHANGED <<day, store, listed, rows, got, seen, faults, newest, gone>>

WriteInitial ==
  /\ pc[Activator] = "got"
  /\ Write([fills |-> <<>>, at |-> stamp[Activator]], {})
  /\ Goto(Activator, "add")
  /\ UNCHANGED <<day, now, active, listed, rows, got, stamp, seen, faults>>

Add(p) ==
  /\ pc[p] = "add"
  /\ listed' = TRUE
  /\ Goto(p, IF p \in Fills THEN "done" ELSE "idle")
  /\ UNCHANGED <<day, now, active, store, rows, got, stamp, seen, faults, newest, gone>>

(***************************************************************************)
(* handleDailyTickerUpdate, at midnight unless the worker is down.         *)
(***************************************************************************)
Midnight ==
  /\ day < MaxDays /\ pc[Daily] = "idle"
  /\ day' = day + 1
  /\ \/ Goto(Daily, "get") /\ UNCHANGED faults
     \/ faults < MaxFaults /\ faults' = faults + 1 /\ UNCHANGED pc
  /\ UNCHANGED <<now, active, store, listed, rows, got, stamp, seen, newest, gone>>

\* Mutant: the row is dated by the day that begins next.
SaveRowTomorrow ==
  /\ pc[Daily] = "got"
  /\ rows' = rows \union {[day |-> day + 1, ticker |-> got[Daily]]}
  /\ got' = [got EXCEPT ![Daily] = None]
  /\ Goto(Daily, "idle")
  /\ UNCHANGED <<day, now, active, store, listed, stamp, seen, faults, newest, gone>>

\* createTicker.  The balances of mt.baseToken come next: getAll has not loaded
\* that relation, the error is caught, and the ticker is never set back.
SaveRow ==
  /\ pc[Daily] = "got"
  /\ rows' = rows \union {[day |-> day, ticker |-> got[Daily]]}
  /\ got' = [got EXCEPT ![Daily] = None]
  /\ Goto(Daily, "idle")
  /\ UNCHANGED <<day, now, active, store, listed, stamp, seen, faults, newest, gone>>

(***************************************************************************)
(* TickerService: the map of the boot, and flushChangedTickers.            *)
(***************************************************************************)
Summary(t) == [last |-> IF t.fills = <<>> THEN None ELSE Last(t.fills), at |-> t.at]

\* onModuleInit and getAllTicker.
Boot(p) ==
  /\ pc[p] = "boot"
  /\ Goto(p, IF listed THEN "get" ELSE "idle")
  /\ UNCHANGED <<day, now, active, store, listed, rows, got, stamp, seen, faults, newest, gone>>

\* A market that is not in the map of the boot is never flushed.
StartFlush(p) ==
  /\ pc[p] = "idle" /\ seen[p] # None
  /\ Goto(p, "get")
  /\ UNCHANGED <<day, now, active, store, listed, rows, got, stamp, seen, faults, newest, gone>>

\* The first ticker is that of the boot; a later one is announced if its stamp
\* is after the one of the map.
Flush(p) ==
  /\ pc[p] = "got"
  /\ seen' = IF seen[p] = None \/ got[p].at > seen[p].at
             THEN [seen EXCEPT ![p] = Summary(got[p])] ELSE seen
  /\ got' = [got EXCEPT ![p] = None]
  /\ Goto(p, "idle")
  /\ UNCHANGED <<day, now, active, store, listed, rows, stamp, faults, newest, gone>>

(***************************************************************************)
(* Faults.                                                                 *)
(***************************************************************************)
ProcessDies ==
  /\ faults < MaxFaults
  /\ faults' = faults + 1
  /\ \E P \in {OfApi, OfWorker} : Kill(P) /\ gone' = gone \union LostWith(P)
  /\ UNCHANGED <<day, now, active, store, listed, rows, stamp, newest>>

\* Redis comes back without its data.
RedisLoses ==
  /\ faults < MaxFaults /\ (store # None \/ listed)
  /\ faults' = faults + 1
  /\ store' = None /\ listed' = FALSE
  /\ gone' = gone \union FillsOf(store)
  /\ UNCHANGED <<day, now, active, rows, pc, got, stamp, seen, newest>>

Next ==
  \/ \E p \in Readers : Get(p) \/ QueryFinds(p) \/ QueryFails(p) \/ Restore(p)
  \/ \E f \in Fills : StartFill(f) \/ WriteFill(f)
  \/ Activate \/ WriteInitial
  \/ \E p \in Fills \union {Activator} : Add(p)
  \/ Midnight \/ SaveRow
  \/ \E p \in Flushers : Boot(p) \/ StartFlush(p) \/ Flush(p)
  \/ ProcessDies \/ RedisLoses

\* setInterval calls the flush again and again, and its awaits end.
Fairness == \A p \in Flushers :
  WF_vars(Boot(p) \/ StartFlush(p) \/ Flush(p) \/ Get(p) \/ QueryFinds(p)
          \/ QueryFails(p) \/ Restore(p))

Spec == Init /\ [][Next]_vars
FairSpec == Spec /\ Fairness

(***************************************************************************)
(* Properties.                                                             *)
(***************************************************************************)

\* Every variable has its type, and no row is of a day to come.
TypeOK ==
  /\ day \in 0 .. MaxDays /\ now \in Nat /\ active \in 0 .. MaxActivations
  /\ store \in Tickers \union {None} /\ listed \in BOOLEAN
  /\ rows \subseteq [day : 0 .. day, ticker : Tickers]
  /\ pc \in [Actors -> {"boot", "idle", "get", "query", "restore", "got", "add", "done"}]
  /\ got \in [Readers -> Tickers \union {None}]
  /\ stamp \in [Fills \union {Activator} -> 0 .. now]
  /\ seen \in [Flushers -> [last : Fills \union {None}, at : Nat] \union {None}]
  /\ faults \in 0 .. MaxFaults /\ newest \in 0 .. now /\ gone \subseteq Fills

\* A fill that has been merged is in the ticker exactly once, unless a change of
\* another writer between its GET and its SET, an activation, the restored row
\* of the day or the loss of the data took it away
\* (order.matchingengin.ts:906-966, redis.ticker.service.ts:34-72).
TickerKept ==
  \A f \in Fills \ gone : pc[f] \in {"add", "done"} =>
    /\ store # None
    /\ Cardinality({i \in DOMAIN store.fills : store.fills[i] = f}) = 1

\* Once the market is quiet the API has announced the ticker that is stored, if
\* the market is in its map: unless the last ticker written has an older stamp
\* than one before it, which isAfter then holds back
\* (ticker.service.ts:64-82, order.matchingengin.ts:912).
SummaryCatchesUp ==
  <>[](seen[Api] # None /\ store # None /\ store.at = newest => seen[Api] = Summary(store))

\* The ticker of a day, "ticker/24hr", has the fills of that day: none is in the
\* rows of two days (schedules.service.ts:91-101, ticker.controller.ts:5).
EachDayItsOwn ==
  \A r, q \in rows : r.day # q.day => FillsOf(r.ticker) \intersect FillsOf(q.ticker) = {}
=============================================================================
