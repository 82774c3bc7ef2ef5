----------------------------- MODULE OrderBook -----------------------------
(***************************************************************************)
(* One side of a market's order book in Redis: RedisOrderBookService and   *)
(* its three users, handleLimitOrder (adds), closeOrder (removes and gives *)
(* the rest back) and the matching engine (reads it all, then removes what *)
(* it filled and pushes again what it filled in part).                     *)
(*                                                                         *)
(* An action is one Redis command, the unit the server executes without    *)
(* interruption: between two commands of one caller any other may come.    *)
(* A list entry is a JSON copy of the order, here its id and its filled    *)
(* amount, and LREM removes the copy that was read, not the order.         *)
(***************************************************************************)
EXTENDS Integers, Sequences, FiniteSets, SequencesExt

CONSTANTS
  Orders,      \* limit orders of this side, each added once
  Closers,     \* POST close-order requests
  Matchers,    \* market orders that match this side
  Prices,      \* a set of numbers, the lower the better
  PriceOf,     \* [Orders -> Prices]
  Size,        \* [Orders -> amount]
  Wanted,      \* [Matchers -> amount]
  MaxFaults,   \* bound: process crashes
  None         \* no entry

Procs == Orders \union Closers \union Matchers

ASSUME OrderBookAssumption ==
  /\ Prices \subseteq Int
  /\ PriceOf \in [Orders -> Prices]
  /\ Size \in [Orders -> Nat \ {0}]
  /\ Wanted \in [Matchers -> Nat \ {0}]
  /\ MaxFaults \in Nat
  /\ None \notin [id : Orders, filled : Nat]
  /\ Orders \intersect Closers = {} /\ Orders \intersect Matchers = {}
  /\ Closers \intersect Matchers = {}

VARIABLES
  levels,     \* the sorted set of prices
  list,       \* [Prices -> sequence of entries]: order:<symbol>:<side>:<price>
  hash,       \* [Orders -> entry or None]: userOrders of the order's owner
  pc,         \* [Procs -> PcValues]
  held,       \* [Procs -> entry or None]: the copy a caller works with
  found,      \* [Procs -> entry or None]: the copy deleteOrder found in the list
  todo,       \* [Matchers -> prices getOrderBook still has to read]
  queue,      \* [Matchers -> entries read, best price first]
  left,       \* [Matchers -> amount still wanted]
  traded,     \* [Orders -> amount matched]
  returned,   \* [Orders -> amount given back by closeOrder]
  faults,     \* crashes so far
  contested,  \* history: orders two callers worked with at the same time
  swept,      \* history: orders in a list when a caller removed list or level
  cut         \* history: orders whose caller died on the way

store == <<levels, list, hash>>
matching == <<todo, queue, left>>
history == <<contested, swept, cut>>
vars == <<store, pc, held, found, matching, traded, returned, faults, history>>

PcValues == {"new", "zadd", "rpush", "hset", "lrange", "lrem", "llen", "del",
             "zrem", "hdel", "refund", "read", "take", "done"}

Entry(o, amount) == [id |-> o, filled |-> amount]
Entries == {Entry(o, n) : o \in Orders, n \in Nat}
Listed(p) == {list[p][i].id : i \in DOMAIN list[p]}

\* p works with a copy of o: an adder until the user's hash has it, a closer
\* and a matcher from the read to their last command.
Holds(p, o) ==
  IF p \in Orders
  THEN p = o /\ pc[p] = "hset"
  ELSE /\ pc[p] \notin {"new", "done"}
       /\ \/ held[p] # None /\ held[p].id = o
          \/ p \in Matchers /\ \E i \in DOMAIN queue[p] : queue[p][i].id = o

Shared(p, S) == {o \in S : \E q \in Procs \ {p} : Holds(q, o)}

Goto(p, label) == pc' = [pc EXCEPT ![p] = label]
PriceHeld(p) == PriceOf[held[p].id]

Init ==
  /\ levels = {}
  /\ list = [p \in Prices |-> <<>>]
  /\ hash = [o \in Orders |-> None]
  /\ pc = [p \in Procs |-> "new"]
  /\ held = [p \in Procs |-> None]
  /\ found = [p \in Procs |-> None]
  /\ todo = [j \in Matchers |-> {}]
  /\ queue = [j \in Matchers |-> <<>>]
  /\ left = Wanted
  /\ traded = [o \in Orders |-> 0]
  /\ returned = [o \in Orders |-> 0]
  /\ faults = 0
  /\ contested = {} /\ swept = {} /\ cut = {}

(***************************************************************************)
(* addOrder, and the second half of updateOrder: ZADD, RPUSH, HSET.        *)
(***************************************************************************)

\* handleLimitOrder.
Place(o) ==
  /\ o \in Orders /\ pc[o] = "new"
  /\ held' = [held EXCEPT ![o] = Entry(o, 0)]
  /\ Goto(o, "zadd")
  /\ UNCHANGED <<store, found, matching, traded, returned, faults, history>>

ZAdd(p) ==
  /\ pc[p] = "zadd"
  /\ levels' = levels \union {PriceHeld(p)}
  /\ Goto(p, "rpush")
  /\ UNCHANGED <<list, hash, held, found, matching, traded, returned, faults, history>>

RPush(p) ==
  /\ pc[p] = "rpush"
  /\ list' = [list EXCEPT ![PriceHeld(p)] = Append(@, held[p])]
  /\ Goto(p, "hset")
  /\ UNCHANGED <<levels, hash, held, found, matching, traded, returned, faults, history>>

\* The last command of an adder; the engine is done too, the update of a
\* maker that was filled in part took the last of what it wanted.
HSet(p) ==
  /\ pc[p] = "hset"
  /\ hash' = [hash EXCEPT ![held[p].id] = held[p]]
  /\ held' = [held EXCEPT ![p] = None]
  /\ Goto(p, "done")
  /\ UNCHANGED <<levels, list, found, matching, traded, returned, faults, history>>

(***************************************************************************)
(* deleteOrder: LRANGE, LREM, LLEN, and DEL and ZREM when it was the last, *)
(* HDEL.                                                                   *)
(***************************************************************************)
LRange(p) ==
  LET here == list[PriceHeld(p)]
      at == {i \in DOMAIN here : here[i].id = held[p].id}
  IN
  /\ pc[p] = "lrange"
  /\ \/ /\ at # {}
        /\ \E i \in at : /\ \A k \in at : i <= k
                         /\ found' = [found EXCEPT ![p] = here[i]]
        /\ Goto(p, "lrem")
     \/ /\ at = {}
        /\ Goto(p, "llen")
        /\ UNCHANGED found
  /\ UNCHANGED <<store, held, matching, traded, returned, faults, history>>

\* Removes the first copy equal to the one found, if there is one still.
LRem(p) ==
  /\ pc[p] = "lrem"
  /\ list' = [list EXCEPT ![PriceHeld(p)] = RemoveFirst(@, found[p])]
  /\ found' = [found EXCEPT ![p] = None]
  /\ Goto(p, "llen")
  /\ UNCHANGED <<levels, hash, held, matching, traded, returned, faults, history>>

\* Mutant: an empty level is kept.
LLenIgnored(p) ==
  /\ pc[p] = "llen"
  /\ Goto(p, "hdel")
  /\ UNCHANGED <<store, held, found, matching, traded, returned, faults, history>>

LLen(p) ==
  /\ pc[p] = "llen"
  /\ Goto(p, IF list[PriceHeld(p)] = <<>> THEN "del" ELSE "hdel")
  /\ UNCHANGED <<store, held, found, matching, traded, returned, faults, history>>

\* What was pushed to the list since LLEN goes with it.
Del(p) ==
  /\ pc[p] = "del"
  /\ swept' = swept \union Listed(PriceHeld(p))
  /\ list' = [list EXCEPT ![PriceHeld(p)] = <<>>]
  /\ Goto(p, "zrem")
  /\ UNCHANGED <<levels, hash, held, found, matching, traded, returned, faults,
                 contested, cut>>

\* What was pushed since DEL, or is about to be by a caller that has done its
\* ZADD, is in the list of a price nobody will look at.
ZRem(p) ==
  LET price == PriceHeld(p) IN
  /\ pc[p] = "zrem"
  /\ swept' = swept \union Listed(price)
                    \union {held[q].id : q \in {q \in Procs : /\ pc[q] = "rpush"
                                                              /\ PriceHeld(q) = price}}
  /\ levels' = levels \ {price}
  /\ Goto(p, "hdel")
  /\ UNCHANGED <<list, hash, held, found, matching, traded, returned, faults,
                 contested, cut>>

\* Mutant: updateOrder relies on the level being there.
HDelWithoutZAdd(p) ==
  LET o == held[p].id
      partly == p \in Matchers /\ held[p].filled < Size[o]
  IN
  /\ pc[p] = "hdel"
  /\ hash' = [hash EXCEPT ![o] = None]
  /\ held' = IF p \in Matchers /\ ~partly THEN [held EXCEPT ![p] = None] ELSE held
  /\ Goto(p, IF p \in Closers THEN "refund" ELSE IF partly THEN "rpush" ELSE "take")
  /\ UNCHANGED <<levels, list, found, matching, traded, returned, faults, history>>

\* The end of deleteOrder: a closer refunds, the engine pushes a maker again
\* that it filled in part, or goes on.
HDel(p) ==
  LET o == held[p].id
      partly == p \in Matchers /\ held[p].filled < Size[o]
  IN
  /\ pc[p] = "hdel"
  /\ hash' = [hash EXCEPT ![o] = None]
  /\ held' = IF p \in Matchers /\ ~partly THEN [held EXCEPT ![p] = None] ELSE held
  /\ Goto(p, IF p \in Closers THEN "refund" ELSE IF partly THEN "zadd" ELSE "take")
  /\ UNCHANGED <<levels, list, found, matching, traded, returned, faults, history>>

(***************************************************************************)
(* closeOrder.                                                             *)
(***************************************************************************)

\* getOrderByUser: the copy in the user's hash; without one: not found.
Fetch(c) ==
  /\ c \in Closers /\ pc[c] = "new"
  /\ \E o \in Orders :
       /\ pc[o] # "new"
       /\ \/ /\ hash[o] = None
             /\ Goto(c, "done")
             /\ UNCHANGED <<held, contested>>
          \/ /\ hash[o] # None
             /\ held' = [held EXCEPT ![c] = hash[o]]
             /\ contested' = contested \union Shared(c, {o})
             /\ Goto(c, "lrange")
  /\ UNCHANGED <<store, found, matching, traded, returned, faults, swept, cut>>

\* Mutant: the filled amount is returned too.
RefundAll(c) ==
  LET e == held[c] IN
  /\ pc[c] = "refund"
  /\ returned' = [returned EXCEPT ![e.id] = @ + Size[e.id]]
  /\ held' = [held EXCEPT ![c] = None]
  /\ Goto(c, "done")
  /\ UNCHANGED <<store, found, matching, traded, faults, history>>

\* Mutant: filled minus quantity.
RefundNegative(c) ==
  LET e == held[c] IN
  /\ pc[c] = "refund"
  /\ returned' = [returned EXCEPT ![e.id] = @ + e.filled - Size[e.id]]
  /\ held' = [held EXCEPT ![c] = None]
  /\ Goto(c, "done")
  /\ UNCHANGED <<store, found, matching, traded, faults, history>>

\* The unfilled part according to the copy goes back to the owner.
Refund(c) ==
  LET e == held[c] IN
  /\ pc[c] = "refund"
  /\ returned' = [returned EXCEPT ![e.id] = @ + Size[e.id] - e.filled]
  /\ held' = [held EXCEPT ![c] = None]
  /\ Goto(c, "done")
  /\ UNCHANGED <<store, found, matching, traded, faults, history>>

(***************************************************************************)
(* The matching engine: getOrderBook, then maker after maker.              *)
(***************************************************************************)
ReadLevels(j) ==
  /\ j \in Matchers /\ pc[j] = "new"
  /\ todo' = [todo EXCEPT ![j] = levels]
  /\ Goto(j, IF levels = {} THEN "done" ELSE "read")
  /\ UNCHANGED <<store, held, found, queue, left, traded, returned, faults, history>>

\* LRANGE of the next level.
ReadList(j) ==
  /\ pc[j] = "read"
  /\ \E p \in todo[j] :
       /\ \A q \in todo[j] : p <= q
       /\ todo' = [todo EXCEPT ![j] = @ \ {p}]
       /\ queue' = [queue EXCEPT ![j] = @ \o list[p]]
       /\ contested' = contested \union Shared(j, Listed(p))
       /\ Goto(j, IF todo[j] = {p} THEN "take" ELSE "read")
  /\ UNCHANGED <<store, held, found, left, traded, returned, faults, swept, cut>>

\* The fill of the next maker, from the copy that was read.
Take(j) ==
  /\ pc[j] = "take"
  /\ \/ /\ queue[j] = <<>> \/ left[j] = 0
        /\ queue' = [queue EXCEPT ![j] = <<>>]
        /\ Goto(j, "done")
        /\ UNCHANGED <<held, left, traded>>
     \/ /\ queue[j] # <<>> /\ left[j] > 0
        /\ LET e == Head(queue[j])
               rest == Size[e.id] - e.filled
               amount == IF left[j] < rest THEN left[j] ELSE rest
           IN
           /\ queue' = [queue EXCEPT ![j] = Tail(@)]
           /\ left' = [left EXCEPT ![j] = @ - amount]
           /\ traded' = [traded EXCEPT ![e.id] = @ + amount]
           /\ held' = [held EXCEPT ![j] = Entry(e.id, e.filled + amount)]
        /\ Goto(j, "lrange")
  /\ UNCHANGED <<store, found, todo, returned, faults, history>>

(***************************************************************************)
(* A process dies: the worker (handleLimitOrder and the engine) or the API *)
(* (closeOrder).  Its callers are gone, Redis and the other one stay.      *)
(***************************************************************************)
Crash ==
  \E callers \in {Orders \union Matchers, Closers} :
    LET dead == {p \in callers : pc[p] \notin {"new", "done"}} IN
    /\ faults < MaxFaults
    /\ dead # {}
    /\ faults' = faults + 1
    /\ cut' = cut \union {held[p].id : p \in {q \in dead : held[q] # None}}
    /\ pc' = [p \in Procs |-> IF p \in dead THEN "done" ELSE pc[p]]
    /\ held' = [p \in Procs |-> IF p \in dead THEN None ELSE held[p]]
    /\ found' = [p \in Procs |-> IF p \in dead THEN None ELSE found[p]]
    /\ UNCHANGED <<store, matching, traded, returned, contested, swept>>

Push(p) == ZAdd(p) \/ RPush(p) \/ HSet(p)
Delete(p) == LRange(p) \/ LRem(p) \/ LLen(p) \/ Del(p) \/ ZRem(p) \/ HDel(p)

\* Everybody is served: the system may stop.
Terminated == (\A p \in Procs : pc[p] = "done") /\ UNCHANGED vars

Next ==
  \/ \E o \in Orders : Place(o)
  \/ \E c \in Closers : Fetch(c) \/ Refund(c)
  \/ \E j \in Matchers : ReadLevels(j) \/ ReadList(j) \/ Take(j)
  \/ \E p \in Procs : Push(p) \/ Delete(p)
  \/ Crash
  \/ Terminated

Spec == Init /\ [][Next]_vars

(***************************************************************************)
(* Properties.                                                             *)
(***************************************************************************)

\* No caller is between two commands.
Quiet == \A p \in Procs : pc[p] \in {"new", "done"}

Copies(o) == {i \in DOMAIN list[PriceOf[o]] : list[PriceOf[o]][i].id = o}

\* Every variable has its type.
TypeOK ==
  /\ levels \subseteq Prices
  /\ \A p \in Prices : \A i \in DOMAIN list[p] :
       list[p][i].id \in Orders /\ list[p][i].filled \in Nat
  /\ \A o \in Orders : hash[o] = None \/ (hash[o].id = o /\ hash[o].filled \in Nat)
  /\ pc \in [Procs -> PcValues]
  /\ \A p \in Procs : held[p] = None \/ (held[p].id \in Orders /\ held[p].filled \in Nat)
  /\ \A p \in Procs : found[p] = None \/ (found[p].id \in Orders /\ found[p].filled \in Nat)
  /\ todo \in [Matchers -> SUBSET Prices]
  /\ left \in [Matchers -> Nat]
  /\ traded \in [Orders -> Nat]
  /\ returned \in [Orders -> Nat]
  /\ faults \in 0 .. MaxFaults
  /\ contested \subseteq Orders /\ swept \subseteq Orders /\ cut \subseteq Orders

\* When nobody is at work, the three structures tell the same story of every
\* order: its owner sees it open exactly when the engine finds it, once, with
\* the same filled amount, at a price that is listed.  Exceptions: two callers
\* worked with it at once, it was swept away by the removal of its level, or
\* its caller died (redis.orderbook.service.ts:43-106).
BookAgrees ==
  Quiet =>
    \A o \in Orders \ (contested \union swept \union cut) :
      IF hash[o] = None
      THEN Copies(o) = {}
      ELSE /\ PriceOf[o] \in levels
           /\ \E i \in Copies(o) : Copies(o) = {i} /\ list[PriceOf[o]][i] = hash[o]

\* When nobody is at work, a listed price has an order, whatever raced: a market
\* order that was accepted because the book has a level (balance.service.ts:261)
\* finds one.  A process that died within addOrder or deleteOrder may leave an
\* empty level.
NoEmptyLevel == Quiet /\ faults = 0 => \A p \in levels : list[p] # <<>>

\* What an order offered is traded, given back, or still open in its owner's
\* hash, and no part of it twice, also when the order was swept from the book:
\* its owner can still close it (order.service.ts:114-141).
EachAmountOnce ==
  Quiet =>
    \A o \in Orders \ (contested \union cut) :
      LET open == IF hash[o] = None THEN 0 ELSE Size[o] - hash[o].filled
      IN  traded[o] + returned[o] + open = IF pc[o] = "done" THEN Size[o] ELSE 0
=============================================================================
