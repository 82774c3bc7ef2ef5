------------------------------ MODULE Gateway -------------------------------
(***************************************************************************)
(* SpotPublicGateway: which socket of which user hears of which market.    *)
(* The gateway keeps everything in maps of the API process: the socket of  *)
(* a user, his room, the members of a room, the members of a timeframe, a  *)
(* timer per room; and it listens to one Redis channel per room and kind,  *)
(* once for every time it has subscribed.                                  *)
(*                                                                         *)
(* A handler is one action up to its first await.  What follows the await  *)
(* of a request is its reply, an action of its own.                        *)
(***************************************************************************)
EXTENDS Integers, FiniteSets

CONSTANTS
  Users, Rooms, Timeframes,
  Sockets,         \* connections of a client, one after the other
  Owner,           \* [Sockets -> Users]: the user of the socket's token
  ActiveAtBoot,    \* markets that are active when the first process starts
  MaxActivations,  \* bound: activations of a market
  MaxRestarts,     \* bound: restarts of the API
  MaxAsked,        \* bound: requests waiting for Redis or the database
  None             \* no socket, no room, nothing sent

ASSUME GatewayAssumption ==
  /\ Owner \in [Sockets -> Users]
  /\ ActiveAtBoot \subseteq Rooms
  /\ MaxActivations \in Nat /\ MaxRestarts \in Nat /\ MaxAsked \in Nat
  /\ None \notin Users \union Sockets \union Rooms

VARIABLES
  active,       \* markets with isActive in the database
  rooms,        \* keys of roomClients: rooms that exist
  open,         \* sockets that are connected
  spoken,       \* sockets whose handshake WsAuth has given the user's id
  clients,      \* [Users -> socket or None]
  clientRoom,   \* [Users -> room or None]
  roomClients,  \* [Rooms -> set of users]
  timeframes,   \* roomTimeframeClients: <<room, timeframe, user>>
  intervals,    \* rooms with a timer
  subs,         \* [Rooms -> listeners on the room's ticker and candle channels]
  asked,        \* requests before their reply: <<socket, kind, room>>
  sent,         \* the last step's emission: [kind, room, to, times], or None
  activations, restarts,
  newest,       \* history: [Users -> the user's last socket, or None]
  evicted,      \* history: sockets dropped when an older one disconnected
  abandoned,    \* history: <<room, user>> joined over without leaving
  lingering,    \* history: timeframes whose user has left the room
  resubscribed  \* history: rooms that existed at a later activation

sockets == <<open, spoken, clients>>
members == <<clientRoom, roomClients, timeframes, intervals>>
market == <<active, rooms, subs, activations, restarts>>
rest == <<market, sockets, members, asked>>
past == <<newest, evicted, abandoned, lingering, resubscribed>>
vars == <<active, rooms, open, spoken, clients, clientRoom, roomClients,
          timeframes, intervals, subs, asked, sent, activations, restarts,
          newest, evicted, abandoned, lingering, resubscribed>>

Of(u) == {s \in Sockets : Owner[s] = u}

\* subTicker and subCandles: one more listener for every room there is.
Subscribed(have) == [r \in Rooms |-> IF r \in have THEN subs[r] + 1 ELSE subs[r]]

\* onModuleInit: rooms for the active markets, then one subscription each.
Boot(markets) ==
  /\ rooms' = markets
  /\ subs' = [r \in Rooms |-> IF r \in markets THEN 1 ELSE 0]

Init ==
  /\ active = ActiveAtBoot
  /\ rooms = ActiveAtBoot
  /\ open = {}
  /\ spoken = {}
  /\ clients = [u \in Users |-> None]
  /\ clientRoom = [u \in Users |-> None]
  /\ roomClients = [r \in Rooms |-> {}]
  /\ timeframes = {}
  /\ intervals = {}
  /\ subs = [r \in Rooms |-> IF r \in ActiveAtBoot THEN 1 ELSE 0]
  /\ asked = {}
  /\ sent = None
  /\ activations = 0 /\ restarts = 0
  /\ newest = [u \in Users |-> None]
  /\ evicted = {} /\ abandoned = {} /\ lingering = {} /\ resubscribed = {}

(***************************************************************************)
(* Connections.                                                            *)
(***************************************************************************)

\* Mutant: a user keeps the socket he has.
ConnectSecond(s) ==
  /\ s \notin open
  /\ open' = open \union {s}
  /\ spoken' = spoken \ {s}
  /\ clients' = [clients EXCEPT ![Owner[s]] = IF @ = None THEN s ELSE @]
  /\ newest' = [newest EXCEPT ![Owner[s]] = s]
  /\ evicted' = evicted \ {s}
  /\ asked' = {a \in asked : a[1] # s}
  /\ sent' = None
  /\ UNCHANGED <<members, market, abandoned, lingering, resubscribed>>

\* handleConnection: the newest socket of a user replaces the older one.
Connect(s) ==
  /\ s \notin open
  /\ open' = open \union {s}
  /\ spoken' = spoken \ {s}
  /\ clients' = [clients EXCEPT ![Owner[s]] = s]
  /\ newest' = [newest EXCEPT ![Owner[s]] = s]
  /\ evicted' = evicted \ {s}
  /\ asked' = {a \in asked : a[1] # s}
  /\ sent' = None
  /\ UNCHANGED <<members, market, abandoned, lingering, resubscribed>>

\* Mutant: the member list of the room keeps the user.
LeaveCurrentInMap(u) ==
  /\ UNCHANGED roomClients
  /\ clientRoom' = [clientRoom EXCEPT ![u] = None]
  /\ abandoned' = abandoned \ {<<clientRoom[u], u>>}
  /\ lingering' = lingering \union {t \in timeframes : t[3] = u /\ t[1] = clientRoom[u]}

\* u is no longer in the room clientRoom names; his timeframes stay.
LeaveCurrent(u) ==
  /\ roomClients' = [r \in Rooms |-> IF r = clientRoom[u] THEN roomClients[r] \ {u}
                                     ELSE roomClients[r]]
  /\ clientRoom' = [clientRoom EXCEPT ![u] = None]
  /\ abandoned' = abandoned \ {<<clientRoom[u], u>>}
  /\ lingering' = lingering \union {t \in timeframes : t[3] = u /\ t[1] = clientRoom[u]}

\* handleDisconnect knows the user only of a socket that sent a message, and
\* drops whatever socket of his is registered.
Disconnect(s) ==
  LET u == Owner[s] IN
  /\ s \in open
  /\ open' = open \ {s}
  /\ \/ /\ s \in spoken
        /\ LeaveCurrent(u)
        /\ clients' = [clients EXCEPT ![u] = None]
        /\ evicted' = (evicted \union {clients[u]}) \ {s, None}
     \/ /\ s \notin spoken
        /\ UNCHANGED <<clients, clientRoom, roomClients, evicted, abandoned, lingering>>
  /\ sent' = None
  /\ UNCHANGED <<spoken, timeframes, intervals, market, asked, newest, resubscribed>>

(***************************************************************************)
(* Messages of a socket.  WsAuth has set the user's id before the handler. *)
(***************************************************************************)
Message(s) ==
  /\ s \in open
  /\ spoken' = spoken \union {s}
  /\ sent' = None
  /\ UNCHANGED <<open, clients, market, newest, evicted, resubscribed>>

Request(s, kind, r) ==
  /\ Cardinality(asked) < MaxAsked
  /\ asked' = asked \union {<<s, kind, r>>}

\* Mutant: one timer is thought to serve all rooms.
JoinRoomOneTimer(s, r) ==
  LET u == Owner[s] IN
  /\ r \in rooms
  /\ Message(s)
  /\ clientRoom' = [clientRoom EXCEPT ![u] = r]
  /\ roomClients' = [roomClients EXCEPT ![r] = @ \union {u}]
  /\ intervals' = IF intervals = {} THEN {r} ELSE intervals
  /\ Request(s, "room", r)
  /\ abandoned' = (abandoned \union ({<<clientRoom[u], u>>} \ {<<None, u>>})) \ {<<r, u>>}
  /\ lingering' = lingering \union {t \in timeframes : t[3] = u /\ t[1] # r}
  /\ UNCHANGED timeframes

\* A member of another room stays a member there.
JoinRoom(s, r) ==
  LET u == Owner[s] IN
  /\ r \in rooms
  /\ Message(s)
  /\ clientRoom' = [clientRoom EXCEPT ![u] = r]
  /\ roomClients' = [roomClients EXCEPT ![r] = @ \union {u}]
  /\ intervals' = intervals \union {r}
  /\ Request(s, "room", r)
  /\ abandoned' = (abandoned \union ({<<clientRoom[u], u>>} \ {<<None, u>>})) \ {<<r, u>>}
  /\ lingering' = lingering \union {t \in timeframes : t[3] = u /\ t[1] # r}
  /\ UNCHANGED timeframes

LeaveRoom(s) ==
  /\ clientRoom[Owner[s]] # None
  /\ Message(s)
  /\ LeaveCurrent(Owner[s])
  /\ UNCHANGED <<timeframes, intervals, asked>>

\* Mutant: the user's room is not checked.
JoinTimeframeAnywhere(s, tf) ==
  LET t == <<clientRoom[Owner[s]], tf, Owner[s]>> IN
  /\ Message(s)
  /\ timeframes' = timeframes \union {t}
  /\ lingering' = lingering \ {t}
  /\ UNCHANGED <<clientRoom, roomClients, intervals, asked, abandoned>>

\* handleSubTimeFrame: a timeframe of the user's current room.
JoinTimeframe(s, tf) ==
  LET t == <<clientRoom[Owner[s]], tf, Owner[s]>> IN
  /\ t[1] \in rooms
  /\ Message(s)
  /\ timeframes' = timeframes \union {t}
  /\ lingering' = lingering \ {t}
  /\ UNCHANGED <<clientRoom, roomClients, intervals, asked, abandoned>>

\* handleUnSubTimeFrame.
LeaveTimeframe(s, tf) ==
  LET t == <<clientRoom[Owner[s]], tf, Owner[s]>> IN
  /\ t \in timeframes
  /\ Message(s)
  /\ timeframes' = timeframes \ {t}
  /\ lingering' = lingering \ {t}
  /\ UNCHANGED <<clientRoom, roomClients, intervals, asked, abandoned>>

\* handleInitCandle: the candles of any room, for whoever is in some room.
InitCandle(s, r) ==
  /\ clientRoom[Owner[s]] # None /\ r \in rooms
  /\ Message(s)
  /\ Request(s, "candles", r)
  /\ UNCHANGED <<members, abandoned, lingering>>

\* handleInitTicker: the ticker of the user's room.
InitTicker(s) ==
  /\ clientRoom[Owner[s]] # None
  /\ Message(s)
  /\ Request(s, "ticker", clientRoom[Owner[s]])
  /\ UNCHANGED <<members, abandoned, lingering>>

\* A message whose handler returns at once.
Refused(s) ==
  /\ Message(s)
  /\ UNCHANGED <<members, asked, abandoned, lingering>>

(***************************************************************************)
(* Emissions.  A room's emission goes to the registered socket of each     *)
(* member; a message on a channel is handled once per listener.            *)
(***************************************************************************)
SocketsOf(us) == {clients[u] : u \in us} \ {None}

Emit(kind, r, to, times) ==
  /\ to # {} /\ times > 0
  /\ sent' = [kind |-> kind, room |-> r, to |-> to, times |-> times]
  /\ UNCHANGED past

\* subTradeMatch and subCancelOrder run once, at the boot.
TradeListeners == 1

\* broadcastTradeMatch and broadcastOrderCancel.
BroadcastTrade(r) ==
  /\ r \in rooms
  /\ Emit("trade", r, SocketsOf(roomClients[r]), TradeListeners)
  /\ UNCHANGED rest

BroadcastTicker(r) ==
  /\ Emit("ticker", r, SocketsOf(roomClients[r]), subs[r])
  /\ UNCHANGED rest

BroadcastCandles(r, tf) ==
  /\ Emit("candle", r, SocketsOf({u \in Users : <<r, tf, u>> \in timeframes}), subs[r])
  /\ UNCHANGED rest

\* The timer of a room.
UpdateOrderbook(r) ==
  /\ r \in intervals
  /\ Emit("book", r, SocketsOf(roomClients[r]), 1)
  /\ UNCHANGED rest

\* broadcastTickerSumary: every registered socket, of a member or not.
BroadcastSummary ==
  /\ Emit("summary", None, SocketsOf(Users), 1)
  /\ UNCHANGED rest

\* broadDepositCreate and broadWithdrawalUpdated.
NotifyUser(u) ==
  /\ Emit("notice", None, SocketsOf({u}), 1)
  /\ UNCHANGED rest

\* The rest of a request after its awaits: to the socket that asked, whatever
\* became of the user's registration; nothing reaches a socket that is gone.
Reply ==
  \E a \in asked :
    /\ asked' = asked \ {a}
    /\ \/ a[1] \in open /\ Emit(a[2], a[3], {a[1]}, 1)
       \/ a[1] \notin open /\ sent' = None /\ UNCHANGED past
    /\ UNCHANGED <<market, sockets, members>>

(***************************************************************************)
(* Markets and the process.                                                *)
(***************************************************************************)

\* Mutant: the listeners are added before the room exists.
ActivateSubscribingFirst(r) ==
  /\ activations < MaxActivations
  /\ activations' = activations + 1
  /\ active' = active \union {r}
  /\ rooms' = rooms \union {r}
  /\ subs' = Subscribed(rooms)
  /\ resubscribed' = resubscribed \union rooms
  /\ sent' = None
  /\ UNCHANGED <<sockets, members, asked, restarts, newest, evicted, abandoned, lingering>>

\* handleActiveMarketToken stores isActive and emits ACTIVE; the gateway makes
\* the room and subscribes every room it has, those it listens to included.
\* Activating an active market does the same; deactivating one stores nothing,
\* and no listener hears of it.
Activate(r) ==
  /\ activations < MaxActivations
  /\ activations' = activations + 1
  /\ active' = active \union {r}
  /\ rooms' = rooms \union {r}
  /\ subs' = Subscribed(rooms \union {r})
  /\ resubscribed' = resubscribed \union rooms
  /\ sent' = None
  /\ UNCHANGED <<sockets, members, asked, restarts, newest, evicted, abandoned, lingering>>

\* The API ends, by onModuleDestroy or not, and starts again: all sockets are
\* closed and all maps are empty.
Restart ==
  /\ restarts < MaxRestarts
  /\ restarts' = restarts + 1
  /\ Boot(active)
  /\ open' = {}
  /\ clients' = [u \in Users |-> None]
  /\ clientRoom' = [u \in Users |-> None]
  /\ roomClients' = [r \in Rooms |-> {}]
  /\ timeframes' = {} /\ intervals' = {} /\ asked' = {} /\ sent' = None
  /\ abandoned' = {} /\ lingering' = {} /\ resubscribed' = {}
  /\ UNCHANGED <<active, activations, spoken, newest, evicted>>

Next ==
  \/ \E s \in Sockets :
       \/ Connect(s) \/ Disconnect(s) \/ LeaveRoom(s) \/ InitTicker(s) \/ Refused(s)
       \/ \E r \in Rooms : JoinRoom(s, r) \/ InitCandle(s, r)
       \/ \E tf \in Timeframes : JoinTimeframe(s, tf) \/ LeaveTimeframe(s, tf)
  \/ \E r \in Rooms :
       \/ BroadcastTrade(r) \/ BroadcastTicker(r) \/ UpdateOrderbook(r) \/ Activate(r)
       \/ \E tf \in Timeframes : BroadcastCandles(r, tf)
  \/ \E u \in Users : NotifyUser(u)
  \/ BroadcastSummary \/ Reply \/ Restart

\* The timers of a running process fire again and again.
Fairness == \A r \in Rooms : WF_vars(UpdateOrderbook(r))

Spec == Init /\ [][Next]_vars /\ Fairness

(***************************************************************************)
(* Properties.                                                             *)
(***************************************************************************)
Emissions == [kind : {"trade", "ticker", "candle", "book", "summary", "notice",
                      "room", "candles"},
              room : Rooms \union {None}, to : SUBSET Sockets, times : Nat \ {0}]

\* Every variable has its type.
TypeOK ==
  /\ active \subseteq Rooms /\ rooms \subseteq Rooms
  /\ open \subseteq Sockets /\ spoken \subseteq Sockets
  /\ clients \in [Users -> Sockets \union {None}]
  /\ clientRoom \in [Users -> Rooms \union {None}]
  /\ roomClients \in [Rooms -> SUBSET Users]
  /\ timeframes \subseteq Rooms \X Timeframes \X Users
  /\ intervals \subseteq Rooms
  /\ subs \in [Rooms -> Nat]
  /\ asked \subseteq Sockets \X {"room", "candles", "ticker"} \X Rooms
  /\ sent \in Emissions \union {None}
  /\ activations \in 0 .. MaxActivations /\ restarts \in 0 .. MaxRestarts
  /\ newest \in [Users -> Sockets \union {None}]
  /\ evicted \subseteq Sockets
  /\ abandoned \subseteq Rooms \X Users
  /\ lingering \subseteq Rooms \X Timeframes \X Users
  /\ resubscribed \subseteq Rooms

\* The members of a room are the users who are in it, and those who went to
\* another room without leaving it; a user hears candles of the room he is in,
\* unless he left the room and not its timeframes; a user all of whose sockets
\* are gone is in no room, although the gateway does not learn of the end of a
\* socket that never spoke (spotPublic.gateway.ts:279-368).
RoomsAgree ==
  /\ \A r \in Rooms : \A u \in Users :
       u \in roomClients[r] <=> clientRoom[u] = r \/ <<r, u>> \in abandoned
  /\ \A t \in timeframes \ lingering : clientRoom[t[3]] = t[1]
  /\ \A u \in Users : Of(u) \intersect open = {} => clientRoom[u] = None

\* What is sent to a user goes to his newest socket, unless an older one of
\* his that had spoken was closed after it: then nothing is sent to him.
NewestSocket ==
  \A u \in Users :
    /\ clients[u] # None => clients[u] = newest[u]
    /\ newest[u] \in open /\ clients[u] = None => newest[u] \in evicted

\* Every room is listened to, and a market's event is sent more than once only
\* in rooms that existed when some market was activated (gateway lines 143-147).
HeardOnce ==
  /\ \A r \in rooms : subs[r] > 0 /\ (subs[r] > 1 => r \in resubscribed)
  /\ sent # None /\ sent.times > 1 => sent.room \in resubscribed

\* Whoever stays in a room with a registered socket keeps getting order books
\* (the room's timer, gateway lines 325-333).
MembersGetBooks ==
  \A r \in Rooms : \A u \in Users :
    <>[](u \in roomClients[r] /\ clients[u] # None)
      => []<>(sent # None /\ sent.kind = "book" /\ sent.room = r /\ clients[u] \in sent.to)
=============================================================================
