---------------------------- MODULE GatewayProof ----------------------------
(***************************************************************************)
(* The gateway's safety invariants, for every set of users, sockets and    *)
(* rooms.  RoomsAgree rests on the fact that a user in a room has an open  *)
(* socket that has spoken, NewestSocket on the owner of the newest socket, *)
(* HeardOnce on the rooms that have listeners.                             *)
(***************************************************************************)
EXTENDS Gateway, TLAPS

USE GatewayAssumption

SpokenInRoom ==
  \A u \in Users : clientRoom[u] # None => \E s \in open \intersect spoken : Owner[s] = u

NewestOwned == \A u \in Users : newest[u] # None => Owner[newest[u]] = u

Listened ==
  \A r \in Rooms : /\ subs[r] > 0 <=> r \in rooms
                   /\ subs[r] > 1 => r \in resubscribed

SentOnce == sent # None => (sent.times > 1 => sent.room \in resubscribed)

IInv == TypeOK /\ RoomsAgree /\ NewestSocket /\ SpokenInRoom /\ NewestOwned
               /\ Listened /\ SentOnce

-----------------------------------------------------------------------------
\* The initial states.
LEMMA Initial == Init => IInv
  BY DEF Init, IInv, TypeOK, RoomsAgree, NewestSocket, SpokenInRoom, NewestOwned,
         Listened, SentOnce, Of

-----------------------------------------------------------------------------
\* What a message changes.
LEMMA MessageTypes ==
  ASSUME TypeOK, NEW s \in Sockets, Message(s)
  PROVE  /\ active' \subseteq Rooms /\ rooms' \subseteq Rooms
         /\ open' \subseteq Sockets /\ spoken' \subseteq Sockets
         /\ clients' \in [Users -> Sockets \union {None}]
         /\ subs' \in [Rooms -> Nat]
         /\ sent' = None
         /\ activations' \in 0 .. MaxActivations /\ restarts' \in 0 .. MaxRestarts
         /\ newest' \in [Users -> Sockets \union {None}]
         /\ evicted' \subseteq Sockets
         /\ resubscribed' \subseteq Rooms
  BY DEF TypeOK, Message, market

\* The sockets an emission goes to.
LEMMA SocketsOfTypes ==
  ASSUME TypeOK, NEW us \in SUBSET Users
  PROVE  SocketsOf(us) \subseteq Sockets
  BY DEF TypeOK, SocketsOf

\* An emission changes nothing else but the requests.
LEMMA EmissionTypes ==
  ASSUME TypeOK, UNCHANGED <<market, sockets, members>>, asked' \subseteq asked,
         NEW kind \in {"trade", "ticker", "candle", "book", "summary", "notice",
                       "room", "candles"},
         NEW r \in Rooms \union {None}, NEW to \in SUBSET Sockets, NEW n \in Nat,
         Emit(kind, r, to, n)
  PROVE  TypeOK'
  BY DEF TypeOK, Emit, Emissions, market, sockets, members, past

\* Every step keeps the types.
LEMMA TypeStep == TypeOK /\ Next => TypeOK'
<1> SUFFICES ASSUME TypeOK, Next PROVE TypeOK'
  OBVIOUS
<1>1. ASSUME NEW s \in Sockets, Connect(s) PROVE TypeOK'
  BY <1>1 DEF TypeOK, Connect, members, market
<1>2. ASSUME NEW s \in Sockets, Disconnect(s) PROVE TypeOK'
  BY <1>2 DEF TypeOK, Disconnect, LeaveCurrent, market
<1>3. ASSUME NEW s \in Sockets, LeaveRoom(s) PROVE TypeOK'
  BY <1>3, MessageTypes DEF TypeOK, LeaveRoom, LeaveCurrent
<1>4. ASSUME NEW s \in Sockets, InitTicker(s) PROVE TypeOK'
  BY <1>4, MessageTypes DEF TypeOK, InitTicker, Request, members
<1>5. ASSUME NEW s \in Sockets, Refused(s) PROVE TypeOK'
  BY <1>5, MessageTypes DEF TypeOK, Refused, members
<1>6. ASSUME NEW s \in Sockets, NEW r \in Rooms, JoinRoom(s, r) PROVE TypeOK'
  <2>1. Owner[s] \in Users
    OBVIOUS
  <2>2. abandoned' \subseteq Rooms \X Users
    BY <1>6, <2>1 DEF TypeOK, JoinRoom
  <2> QED
    BY <1>6, <2>1, <2>2, MessageTypes DEF TypeOK, JoinRoom, Request
<1>7. ASSUME NEW s \in Sockets, NEW r \in Rooms, InitCandle(s, r) PROVE TypeOK'
  BY <1>7, MessageTypes DEF TypeOK, InitCandle, Request, members
<1>8. ASSUME NEW s \in Sockets, NEW tf \in Timeframes, JoinTimeframe(s, tf) PROVE TypeOK'
  BY <1>8, MessageTypes DEF TypeOK, JoinTimeframe
<1>9. ASSUME NEW s \in Sockets, NEW tf \in Timeframes, LeaveTimeframe(s, tf) PROVE TypeOK'
  BY <1>9, MessageTypes DEF TypeOK, LeaveTimeframe
<1>10. ASSUME NEW r \in Rooms, BroadcastTrade(r) PROVE TypeOK'
  BY <1>10, EmissionTypes, SocketsOfTypes DEF BroadcastTrade, TradeListeners, rest, TypeOK
<1>11. ASSUME NEW r \in Rooms, BroadcastTicker(r) PROVE TypeOK'
  BY <1>11, EmissionTypes, SocketsOfTypes DEF BroadcastTicker, rest, TypeOK
<1>12. ASSUME NEW r \in Rooms, UpdateOrderbook(r) PROVE TypeOK'
  BY <1>12, EmissionTypes, SocketsOfTypes DEF UpdateOrderbook, rest, TypeOK
<1>13. ASSUME NEW r \in Rooms, Activate(r) PROVE TypeOK'
  BY <1>13 DEF TypeOK, Activate, Subscribed, sockets, members
<1>14. ASSUME NEW r \in Rooms, NEW tf \in Timeframes, BroadcastCandles(r, tf) PROVE TypeOK'
  BY <1>14, EmissionTypes, SocketsOfTypes DEF BroadcastCandles, rest, TypeOK
<1>15. ASSUME NEW u \in Users, NotifyUser(u) PROVE TypeOK'
  BY <1>15, EmissionTypes, SocketsOfTypes DEF NotifyUser, rest, TypeOK
<1>16. CASE BroadcastSummary
  BY <1>16, EmissionTypes, SocketsOfTypes DEF BroadcastSummary, rest, TypeOK
<1>17. CASE Reply
  <2> PICK a \in asked : Reply!(a)
    BY <1>17 DEF Reply
  <2>1. /\ a[1] \in Sockets /\ a[2] \in {"room", "candles", "ticker"} /\ a[3] \in Rooms
        /\ UNCHANGED <<market, sockets, members>> /\ asked' \subseteq asked
    BY DEF TypeOK
  <2>2. CASE a[1] \in open /\ Emit(a[2], a[3], {a[1]}, 1)
    BY <2>1, <2>2, EmissionTypes
  <2>3. CASE a[1] \notin open /\ sent' = None /\ UNCHANGED past
    BY <2>1, <2>3 DEF TypeOK, market, sockets, members, past
  <2> QED
    BY <2>2, <2>3
<1>18. CASE Restart
  BY <1>18 DEF TypeOK, Restart, Boot
<1> QED
  BY <1>1, <1>2, <1>3, <1>4, <1>5, <1>6, <1>7, <1>8, <1>9, <1>10, <1>11, <1>12,
     <1>13, <1>14, <1>15, <1>16, <1>17, <1>18 DEF Next

-----------------------------------------------------------------------------
\* Steps that leave the connections and the members as they are.
LEMMA EmissionsKeep ==
  ASSUME NEW r \in Rooms \union {None}, NEW tf,
         \/ BroadcastTrade(r) \/ BroadcastTicker(r) \/ UpdateOrderbook(r)
         \/ BroadcastCandles(r, tf) \/ NotifyUser(r) \/ BroadcastSummary
  PROVE  UNCHANGED <<rest, past>>
  BY DEF BroadcastTrade, BroadcastTicker, UpdateOrderbook, BroadcastCandles, NotifyUser,
         BroadcastSummary, Emit

LEMMA NoticesKeep ==
  ASSUME NEW u \in Users, NotifyUser(u)
  PROVE  UNCHANGED <<rest, past>>
  BY DEF NotifyUser, Emit

LEMMA RepliesKeep == Reply => UNCHANGED <<market, sockets, members, past>>
  BY DEF Reply, Emit

\* The members of a room, and the open socket of whoever is in one.
RoomsInv == RoomsAgree /\ SpokenInRoom

LEMMA RoomsUnchanged ==
  RoomsInv /\ UNCHANGED <<sockets, members, abandoned, lingering>> => RoomsInv'
  BY DEF RoomsInv, RoomsAgree, SpokenInRoom, Of, sockets, members

\* Every step keeps the members.
LEMMA RoomsStep == TypeOK /\ RoomsInv /\ Next => RoomsInv'
<1> SUFFICES ASSUME TypeOK, RoomsInv, Next PROVE RoomsInv'
  OBVIOUS
<1>1. ASSUME NEW s \in Sockets, Connect(s) PROVE RoomsInv'
  BY <1>1 DEF TypeOK, RoomsInv, RoomsAgree, SpokenInRoom, Of, Connect, members
<1>2. ASSUME NEW s \in Sockets, Disconnect(s) PROVE RoomsInv'
  <2> DEFINE u == Owner[s]
  <2>1. CASE s \in spoken
    <3>1. LeaveCurrent(u) /\ open' = open \ {s} /\ UNCHANGED <<spoken, timeframes>>
      BY <1>2, <2>1 DEF Disconnect
    <3> QED
      BY <3>1 DEF TypeOK, RoomsInv, RoomsAgree, SpokenInRoom, Of, LeaveCurrent
  <2>2. CASE s \notin spoken
    BY <1>2, <2>2 DEF TypeOK, RoomsInv, RoomsAgree, SpokenInRoom, Of, Disconnect
  <2> QED
    BY <2>1, <2>2
<1>3. ASSUME NEW s \in Sockets, LeaveRoom(s) PROVE RoomsInv'
  BY <1>3 DEF TypeOK, RoomsInv, RoomsAgree, SpokenInRoom, Of, LeaveRoom, LeaveCurrent, Message
<1>4. ASSUME NEW s \in Sockets, InitTicker(s) PROVE RoomsInv'
  BY <1>4 DEF RoomsInv, RoomsAgree, SpokenInRoom, Of, InitTicker, Message, members
<1>5. ASSUME NEW s \in Sockets, Refused(s) PROVE RoomsInv'
  BY <1>5 DEF RoomsInv, RoomsAgree, SpokenInRoom, Of, Refused, Message, members
<1>6. ASSUME NEW s \in Sockets, NEW r \in Rooms, JoinRoom(s, r) PROVE RoomsInv'
  <2> DEFINE u == Owner[s]
  <2>0. u \in Users
    OBVIOUS
  <2>1. \A q \in Rooms : \A v \in Users :
          (v \in roomClients[q] <=> clientRoom[v] = q \/ <<q, v>> \in abandoned)'
    BY <1>6, <2>0 DEF TypeOK, RoomsInv, RoomsAgree, JoinRoom
  <2>2. \A t \in timeframes' \ lingering' : clientRoom'[t[3]] = t[1]
    BY <1>6, <2>0 DEF TypeOK, RoomsInv, RoomsAgree, JoinRoom
  <2>3. (\A v \in Users : Of(v) \intersect open = {} => clientRoom[v] = None)' /\ SpokenInRoom'
    BY <1>6, <2>0 DEF TypeOK, RoomsInv, RoomsAgree, SpokenInRoom, Of, JoinRoom, Message
  <2> QED
    BY <2>1, <2>2, <2>3 DEF RoomsInv, RoomsAgree
<1>7. ASSUME NEW s \in Sockets, NEW r \in Rooms, InitCandle(s, r) PROVE RoomsInv'
  BY <1>7 DEF RoomsInv, RoomsAgree, SpokenInRoom, Of, InitCandle, Message, members
<1>8. ASSUME NEW s \in Sockets, NEW tf \in Timeframes, JoinTimeframe(s, tf) PROVE RoomsInv'
  BY <1>8 DEF RoomsInv, RoomsAgree, SpokenInRoom, Of, JoinTimeframe, Message
<1>9. ASSUME NEW s \in Sockets, NEW tf \in Timeframes, LeaveTimeframe(s, tf) PROVE RoomsInv'
  BY <1>9 DEF RoomsInv, RoomsAgree, SpokenInRoom, Of, LeaveTimeframe, Message
<1>10. CASE \E r \in Rooms : BroadcastTrade(r) \/ BroadcastTicker(r) \/ UpdateOrderbook(r)
                              \/ \E tf \in Timeframes : BroadcastCandles(r, tf)
  BY <1>10, EmissionsKeep, RoomsUnchanged DEF rest, past
<1>11. ASSUME NEW r \in Rooms, Activate(r) PROVE RoomsInv'
  BY <1>11, RoomsUnchanged DEF Activate
<1>12. CASE (\E u \in Users : NotifyUser(u)) \/ BroadcastSummary
  <2>1. UNCHANGED <<rest, past>>
    BY <1>12, NoticesKeep DEF BroadcastSummary, Emit
  <2> QED
    BY <2>1, RoomsUnchanged DEF rest, past
<1>13. CASE Reply
  BY <1>13, RepliesKeep, RoomsUnchanged DEF past
<1>14. CASE Restart
  BY <1>14 DEF TypeOK, RoomsInv, RoomsAgree, SpokenInRoom, Of, Restart
<1> QED
  BY <1>1, <1>2, <1>3, <1>4, <1>5, <1>6, <1>7, <1>8, <1>9, <1>10, <1>11, <1>12,
     <1>13, <1>14 DEF Next

-----------------------------------------------------------------------------
\* Where a user's messages go.
NewestInv == NewestSocket /\ NewestOwned

LEMMA NewestUnchanged ==
  NewestInv /\ UNCHANGED <<open, clients, newest, evicted>> => NewestInv'
  BY DEF NewestInv, NewestSocket, NewestOwned

\* Every step keeps the newest socket registered, or evicted.
LEMMA NewestStep == TypeOK /\ NewestInv /\ Next => NewestInv'
<1> SUFFICES ASSUME TypeOK, NewestInv, Next PROVE NewestInv'
  OBVIOUS
<1>1. ASSUME NEW s \in Sockets, Connect(s) PROVE NewestInv'
  BY <1>1 DEF TypeOK, NewestInv, NewestSocket, NewestOwned, Connect
<1>2. ASSUME NEW s \in Sockets, Disconnect(s) PROVE NewestInv'
  BY <1>2 DEF TypeOK, NewestInv, NewestSocket, NewestOwned, Disconnect
<1>3. ASSUME NEW s \in Sockets, Message(s) PROVE NewestInv'
  BY <1>3, NewestUnchanged DEF Message
<1>4. ASSUME NEW s \in Sockets,
             \/ LeaveRoom(s) \/ InitTicker(s) \/ Refused(s)
             \/ \E r \in Rooms : JoinRoom(s, r) \/ InitCandle(s, r)
             \/ \E tf \in Timeframes : JoinTimeframe(s, tf) \/ LeaveTimeframe(s, tf)
      PROVE  Message(s)
  BY <1>4 DEF LeaveRoom, InitTicker, Refused, JoinRoom, InitCandle, JoinTimeframe,
              LeaveTimeframe
<1>5. CASE \E r \in Rooms : BroadcastTrade(r) \/ BroadcastTicker(r) \/ UpdateOrderbook(r)
                              \/ \E tf \in Timeframes : BroadcastCandles(r, tf)
  BY <1>5, EmissionsKeep, NewestUnchanged DEF rest, past, sockets
<1>6. ASSUME NEW r \in Rooms, Activate(r) PROVE NewestInv'
  BY <1>6, NewestUnchanged DEF Activate, sockets
<1>7. CASE (\E u \in Users : NotifyUser(u)) \/ BroadcastSummary
  <2>1. UNCHANGED <<rest, past>>
    BY <1>7, NoticesKeep DEF BroadcastSummary, Emit
  <2> QED
    BY <2>1, NewestUnchanged DEF rest, past, sockets
<1>8. CASE Reply
  BY <1>8, RepliesKeep, NewestUnchanged DEF past, sockets
<1>9. CASE Restart
  BY <1>9 DEF TypeOK, NewestInv, NewestSocket, NewestOwned, Restart
<1> QED
  BY <1>1, <1>2, <1>3, <1>4, <1>5, <1>6, <1>7, <1>8, <1>9 DEF Next

-----------------------------------------------------------------------------
\* Who listens, and how often an emission is sent.
HeardInv == Listened /\ SentOnce

LEMMA HeardUnchanged ==
  Listened /\ UNCHANGED <<market, resubscribed>> => Listened'
  BY DEF Listened, market

\* Every step keeps one listener to a room until a market is activated.
LEMMA HeardStep == TypeOK /\ HeardInv /\ Next => HeardInv'
<1> SUFFICES ASSUME TypeOK, HeardInv, Next PROVE HeardInv'
  OBVIOUS
<1>1. ASSUME NEW s \in Sockets, Connect(s) \/ Disconnect(s) PROVE HeardInv'
  BY <1>1, HeardUnchanged DEF HeardInv, SentOnce, Connect, Disconnect
<1>2. ASSUME NEW s \in Sockets, Message(s) PROVE HeardInv'
  BY <1>2, HeardUnchanged DEF HeardInv, SentOnce, Message
<1>3. ASSUME NEW s \in Sockets,
             \/ LeaveRoom(s) \/ InitTicker(s) \/ Refused(s)
             \/ \E r \in Rooms : JoinRoom(s, r) \/ InitCandle(s, r)
             \/ \E tf \in Timeframes : JoinTimeframe(s, tf) \/ LeaveTimeframe(s, tf)
      PROVE  Message(s)
  BY <1>3 DEF LeaveRoom, InitTicker, Refused, JoinRoom, InitCandle, JoinTimeframe,
              LeaveTimeframe
\* An emission is heard once, or by the listeners of a room.
<1>4. ASSUME NEW kind, NEW r, NEW to, NEW n, Emit(kind, r, to, n),
             UNCHANGED market, n = 1 \/ (r \in Rooms /\ n = subs[r])
      PROVE  HeardInv'
  BY <1>4, HeardUnchanged DEF HeardInv, Listened, SentOnce, Emit, past
<1>5. ASSUME NEW r \in Rooms, BroadcastTrade(r) \/ BroadcastTicker(r) \/ UpdateOrderbook(r)
      PROVE  HeardInv'
  BY <1>5, <1>4 DEF BroadcastTrade, TradeListeners, BroadcastTicker, UpdateOrderbook, rest
<1>6. ASSUME NEW r \in Rooms, NEW tf \in Timeframes, BroadcastCandles(r, tf) PROVE HeardInv'
  BY <1>6, <1>4 DEF BroadcastCandles, rest
<1>7. CASE (\E u \in Users : NotifyUser(u)) \/ BroadcastSummary
  BY <1>7, <1>4 DEF NotifyUser, BroadcastSummary, rest
<1>8. CASE Reply
  BY <1>8, <1>4, HeardUnchanged DEF Reply, HeardInv, SentOnce, past
<1>9. ASSUME NEW r \in Rooms, Activate(r) PROVE HeardInv'
  <2>1. Listened'
    BY <1>9 DEF TypeOK, HeardInv, Listened, Activate, Subscribed
  <2> QED
    BY <1>9, <2>1 DEF HeardInv, SentOnce, Activate
<1>10. CASE Restart
  BY <1>10 DEF TypeOK, HeardInv, Listened, SentOnce, Restart, Boot
<1> QED
  BY <1>1, <1>2, <1>3, <1>5, <1>6, <1>7, <1>8, <1>9, <1>10 DEF Next

-----------------------------------------------------------------------------
\* The invariant is inductive.
LEMMA Step == IInv /\ [Next]_vars => IInv'
<1> SUFFICES ASSUME IInv, [Next]_vars PROVE IInv'
  OBVIOUS
<1>1. CASE Next
  BY <1>1, TypeStep, RoomsStep, NewestStep, HeardStep
     DEF IInv, RoomsInv, NewestInv, HeardInv
<1>2. CASE UNCHANGED vars
  BY <1>2 DEF vars, IInv, TypeOK, RoomsAgree, NewestSocket, SpokenInRoom, NewestOwned,
              Listened, SentOnce, Of
<1> QED
  BY <1>1, <1>2

\* The inductive invariant holds in every behaviour of the gateway.
THEOREM Invariance == Spec => []IInv
  BY Initial, Step, PTL DEF Spec

\* Every variable of the gateway keeps its type.
THEOREM TypeCorrect == Spec => []TypeOK
  BY Invariance, PTL DEF IInv

\* The maps of users and rooms agree, but for the rooms joined over; whose
\* sockets are all gone is in no room.
THEOREM RoomMapsAgree == Spec => []RoomsAgree
  BY Invariance, PTL DEF IInv

\* What is sent to a user goes to his newest socket, unless an older one evicted it.
THEOREM SentToTheNewest == Spec => []NewestSocket
  BY Invariance, PTL DEF IInv

\* Every room is listened to, once until a market is activated again.
THEOREM ListenedOnce == Spec => []HeardOnce
<1>1. IInv => HeardOnce
  BY DEF IInv, TypeOK, Listened, SentOnce, HeardOnce
<1> QED
  BY <1>1, Invariance, PTL
=============================================================================
