--------------------------- MODULE RealtimeProofs ---------------------------
(***************************************************************************)
(* Proofs about Realtime, for any sockets, users, sessions and             *)
(* disturbances.  A socket is in its handshake, registered or neither, and *)
(* is in a socket.io room only while it is registered and open (BaseInv).  *)
(* Without overlapping handshakes the registered sockets are exactly the   *)
(* routed ones (Exclusive), which gives each user one avatar and one room; *)
(* views follow because whoever learns of a user is told where the user    *)
(* goes; and the place of a user's routed socket is their place in         *)
(* CampusMap, moved by the event each step handles.                        *)
(***************************************************************************)
EXTENDS Realtime, TLAPS

\* A socket in its handshake is not registered.
HandshakeBare == \A c \in handshake : room[c] = None

BaseInv == TypeOK /\ HandshakeBare /\ StateIndexed /\ RouteSound /\ Subscribed

-----------------------------------------------------------------------------
(* The lemmas about single operators.                                      *)

\* Every name a handler is given for a room is one.
LEMMA DestinationIsRoom ==
  ASSUME NEW session \in Sessions \cup {None}
  PROVE  Destination(session) \in Rooms
BY RealtimeAssumption DEF Destination, Rooms

\* The sockets that listen to a room learn of a user, and no room is None.
LEMMA AnnounceTypes ==
  ASSUME TypeOK, NEW u \in Users, NEW r
  PROVE  /\ Announce(u, r) \in [Conns -> SUBSET Users]
         /\ Withdraw(u, r) \in [Conns -> SUBSET Users]
BY DEF TypeOK, Announce, Withdraw

LEMMA OccupantsAreUsers ==
  ASSUME NEW conns \in SUBSET Conns
  PROVE  Occupants(conns) \in SUBSET Users
BY RealtimeAssumption DEF Occupants

LEMMA NoneIsNoRoom == None \notin Rooms /\ None \notin Conns
BY RealtimeAssumption DEF Rooms

\* What the handlers call the events they handle.
LEMMA EventTypes ==
  ASSUME NEW u \in Users, NEW s \in Sessions, NEW r \in Rooms
  PROVE  /\ Quiet \in Events
         /\ [name |-> "connection", userId |-> u] \in Events
         /\ [name |-> "disconnect", userId |-> u] \in Events
         /\ [name |-> "session.left", userId |-> u] \in Events
         /\ [name |-> "user.connected", userId |-> u, roomId |-> r] \in Events
         /\ [name |-> "session.joined", userId |-> u, sessionId |-> s] \in Events
         /\ [name |-> "session.ended", sessionId |-> s] \in Events
BY DEF Events

LEMMA ForgetIndexed ==
  ASSUME TypeOK, StateIndexed, NEW c \in Conns, room[c] # None, Forget(c)
  PROVE  /\ room' \in [Conns -> Rooms \cup {None}]
         /\ byRoom' \in [Rooms -> SUBSET Conns]
         /\ StateIndexed'
         /\ room'[c] = None
         /\ \A d \in Conns : d # c => room'[d] = room[d]
BY NoneIsNoRoom DEF TypeOK, Forget, StateIndexed

-----------------------------------------------------------------------------
(* The invariant, action by action.                                        *)

LEMMA BaseInit == Init => BaseInv
BY RealtimeAssumption
   DEF Init, BaseInv, TypeOK, HandshakeBare, StateIndexed, RouteSound, Subscribed,
       Registered, Rooms, Disturbances, Events

LEMMA ConnectStep ==
  ASSUME BaseInv, NEW c \in Conns, Connect(c)
  PROVE  BaseInv'
<1> USE RealtimeAssumption, NoneIsNoRoom
<1> DEFINE u == Owner[c]
           old == route[u]
<1>0. /\ TypeOK /\ HandshakeBare /\ StateIndexed /\ RouteSound /\ Subscribed
      /\ u \in Users /\ old \in Conns \cup {None}
  BY DEF BaseInv, TypeOK
<1>1. /\ socket[c] = "gone" /\ c \notin handshake /\ room[c] = None
      /\ handshake' = handshake \cup {c} /\ UNCHANGED <<online, assigned, env>>
      /\ socket' = [d \in Conns |->
                      IF d = c THEN "alive" ELSE IF d = old THEN "gone" ELSE socket[d]]
      /\ joined' = [d \in Conns |-> IF d \in {c, old} THEN {} ELSE joined[d]]
      /\ view' = [view EXCEPT ![c] = {}]
      /\ event' \in Events
  BY <1>0 DEF Connect, Events
<1>2. CASE old = None
  <2>1. UNCHANGED <<room, byRoom, route>>
    BY <1>2 DEF Connect, TakeOver
  <2>2. TypeOK'
    BY <1>0, <1>1, <2>1 DEF TypeOK
  <2>3. HandshakeBare'
    BY <1>0, <1>1, <1>2, <2>1 DEF HandshakeBare, TypeOK
  <2>4. StateIndexed' /\ RouteSound'
    BY <1>0, <1>1, <2>1 DEF StateIndexed, RouteSound
  <2>5. Subscribed'
    BY <1>0, <1>1, <1>2, <2>1 DEF Subscribed, Registered, TypeOK
  <2> QED
    BY <2>2, <2>3, <2>4, <2>5 DEF BaseInv
<1>3. CASE old # None
  <2>1. old \in Conns /\ room[old] # None /\ Owner[old] = u
    BY <1>0, <1>3 DEF RouteSound
  <2>2. Forget(old) /\ route' = [route EXCEPT ![u] = None]
    BY <1>3 DEF Connect, TakeOver
  <2>3. /\ room' \in [Conns -> Rooms \cup {None}] /\ byRoom' \in [Rooms -> SUBSET Conns]
        /\ StateIndexed'
        /\ room'[old] = None
        /\ \A d \in Conns : d # old => room'[d] = room[d]
    BY <1>0, <2>1, <2>2, ForgetIndexed
  <2>4. TypeOK'
    BY <1>0, <1>1, <2>2, <2>3 DEF TypeOK
  <2>5. HandshakeBare'
    BY <1>0, <1>1, <2>1, <2>3 DEF HandshakeBare, TypeOK
  <2>6. RouteSound'
    <3> SUFFICES ASSUME NEW v \in Users, route'[v] # None
                 PROVE  /\ Owner[route'[v]] = v
                        /\ room'[route'[v]] # None
                        /\ v \in online'
      BY DEF RouteSound
    <3>1. v # u /\ route'[v] = route[v]
      BY <1>0, <2>2 DEF TypeOK
    <3>2. Owner[route[v]] = v /\ room[route[v]] # None /\ v \in online
      BY <1>0, <3>1 DEF RouteSound
    <3>3. route[v] # old /\ route[v] \in Conns
      BY <1>0, <2>1, <3>1, <3>2 DEF TypeOK
    <3> QED
      BY <1>1, <2>3, <3>1, <3>2, <3>3
  <2>7. Subscribed'
    BY <1>0, <1>1, <2>1, <2>3 DEF Subscribed, Registered, TypeOK
  <2> QED
    BY <2>3, <2>4, <2>5, <2>6, <2>7 DEF BaseInv
<1> QED
  BY <1>2, <1>3

LEMMA RegisterStep ==
  ASSUME BaseInv, NEW c \in Conns, NEW session \in Sessions \cup {None},
         Register(c, session)
  PROVE  BaseInv'
<1> USE RealtimeAssumption, NoneIsNoRoom
<1> DEFINE u == Owner[c]
           r == Destination(session)
<1>0. /\ TypeOK /\ HandshakeBare /\ StateIndexed /\ RouteSound /\ Subscribed
      /\ u \in Users /\ r \in Rooms
  BY DestinationIsRoom DEF BaseInv
<1> HIDE DEF r
<1>1. /\ c \in handshake /\ handshake' = handshake \ {c}
      /\ room' = [room EXCEPT ![c] = r]
      /\ byRoom' = [byRoom EXCEPT ![r] = @ \cup {c}]
      /\ joined' = [joined EXCEPT ![c] = Joins(c, r)]
      /\ route' = [route EXCEPT ![u] = c]
      /\ online' = online \cup {u}
      /\ view' = [Announce(u, r) EXCEPT ![c] = Occupants(byRoom[r] \cup {c})]
      /\ UNCHANGED <<socket, assigned, env>>
      /\ event' \in Events
  BY <1>0 DEF Register, r, Events
<1>2. Announce(u, r) \in [Conns -> SUBSET Users]
      /\ Occupants(byRoom[r] \cup {c}) \in SUBSET Users
  BY <1>0, AnnounceTypes, OccupantsAreUsers DEF TypeOK
<1>3. TypeOK'
  BY <1>0, <1>1, <1>2 DEF TypeOK, Joins
<1>4. HandshakeBare'
  BY <1>0, <1>1 DEF HandshakeBare, TypeOK
<1>5. StateIndexed'
  BY <1>0, <1>1 DEF StateIndexed, HandshakeBare, TypeOK
<1>6. RouteSound'
  BY <1>0, <1>1 DEF RouteSound, TypeOK
<1>7. Subscribed'
  BY <1>0, <1>1 DEF Subscribed, Registered, HandshakeBare, TypeOK, Joins
<1> QED
  BY <1>3, <1>4, <1>5, <1>6, <1>7 DEF BaseInv

LEMMA DisconnectStep ==
  ASSUME BaseInv, NEW c \in Conns, Disconnect(c)
  PROVE  BaseInv'
<1> USE RealtimeAssumption, NoneIsNoRoom
<1> DEFINE u == Owner[c]
<1>0. /\ TypeOK /\ HandshakeBare /\ StateIndexed /\ RouteSound /\ Subscribed
      /\ u \in Users
  BY DEF BaseInv
<1>1. /\ socket[c] = "alive" /\ room[c] # None
      /\ socket' = [socket EXCEPT ![c] = "gone"]
      /\ joined' = [joined EXCEPT ![c] = {}]
      /\ Forget(c) /\ Unroute(c)
      /\ view' = Withdraw(u, room[c])
      /\ UNCHANGED <<handshake, assigned, env>>
      /\ event' \in Events
  BY <1>0 DEF Disconnect, Events
<1>2. /\ room' \in [Conns -> Rooms \cup {None}] /\ byRoom' \in [Rooms -> SUBSET Conns]
      /\ StateIndexed'
      /\ room'[c] = None
      /\ \A d \in Conns : d # c => room'[d] = room[d]
  BY <1>0, <1>1, ForgetIndexed
<1>3. route' \in [Users -> Conns \cup {None}] /\ online' \subseteq Users
  BY <1>0, <1>1 DEF Unroute, TypeOK
<1>4. TypeOK'
  BY <1>0, <1>1, <1>2, <1>3, AnnounceTypes DEF TypeOK
<1>5. HandshakeBare'
  BY <1>0, <1>1, <1>2 DEF HandshakeBare, TypeOK
<1>6. RouteSound'
  <2> SUFFICES ASSUME NEW v \in Users, route'[v] # None
               PROVE  /\ Owner[route'[v]] = v
                      /\ room'[route'[v]] # None
                      /\ v \in online'
    BY DEF RouteSound
  <2>1. route'[v] = route[v] /\ route[v] # c
    BY <1>0, <1>1 DEF Unroute, RouteSound, TypeOK
  <2>2. Owner[route[v]] = v /\ room[route[v]] # None /\ v \in online
    BY <1>0, <2>1 DEF RouteSound
  <2>3. v \in online'
    BY <1>0, <1>1, <2>1, <2>2 DEF Unroute, TypeOK
  <2> QED
    BY <1>0, <1>2, <2>1, <2>2, <2>3 DEF TypeOK
<1>7. Subscribed'
  BY <1>0, <1>1, <1>2 DEF Subscribed, Registered, TypeOK
<1> QED
  BY <1>2, <1>4, <1>5, <1>6, <1>7 DEF BaseInv

\* The sockets a switch to room r moves.
Moved(users, r) ==
  {c \in {route[u] : u \in {v \in users : route[v] # None}} : room[c] \notin {r, None}}

LEMMA MovedAreRegistered ==
  ASSUME BaseInv, NEW users \in SUBSET Users, NEW r \in Rooms
  PROVE  /\ Moved(users, r) \subseteq Registered
         /\ \A c \in Moved(users, r) : Owner[c] \in users /\ route[Owner[c]] = c
BY DEF BaseInv, TypeOK, RouteSound, Moved, Registered

LEMMA SwitchStep ==
  ASSUME BaseInv, NEW users \in SUBSET Users, NEW r \in Rooms, Switch(users, r),
         assigned' \in [Users -> Rooms], event' \in Events
  PROVE  BaseInv'
<1> USE RealtimeAssumption, NoneIsNoRoom
<1> DEFINE M == Moved(users, r)
<1>0. /\ TypeOK /\ HandshakeBare /\ StateIndexed /\ RouteSound /\ Subscribed
  BY DEF BaseInv
<1>1. /\ room' = [c \in Conns |-> IF c \in M THEN r ELSE room[c]]
      /\ byRoom' = [q \in Rooms |-> IF q = r THEN byRoom[q] \cup M
                                    ELSE byRoom[q] \ {c \in M : room[c] = q}]
      /\ joined' = [c \in Conns |-> IF c \in M THEN Joins(c, r) \ {room[c]}
                                    ELSE joined[c]]
      /\ UNCHANGED <<socket, handshake, route, online, env>>
  BY DEF Switch, Moved, Resubscribe
<1>2. view' \in [Conns -> SUBSET Users]
  <2> DEFINE left(c) == {d \in M : room[d] \in joined[c]}
  <2>1. view' = [c \in Conns |->
                   IF c \in M THEN Occupants(byRoom[r] \cup M)
                   ELSE IF r \in joined[c] THEN view[c] \cup Occupants(M)
                   ELSE view[c] \ Occupants(left(c))]
    BY DEF Switch, Moved
  <2>2. M \in SUBSET Conns
    BY MovedAreRegistered DEF Registered
  <2>3. Occupants(byRoom[r] \cup M) \in SUBSET Users /\ Occupants(M) \in SUBSET Users
    BY <1>0, <2>2, OccupantsAreUsers DEF TypeOK
  <2> HIDE DEF M, left
  <2> QED
    BY <1>0, <2>1, <2>3 DEF TypeOK
<1>3. M \subseteq Registered /\ M \subseteq Conns
  BY MovedAreRegistered DEF Registered
<1>m. \A c \in M : room[c] # r
  BY DEF M, Moved
<1> HIDE DEF M
<1>4. TypeOK'
  BY <1>0, <1>1, <1>2, <1>3 DEF TypeOK, Joins
<1>5. HandshakeBare'
  BY <1>0, <1>1, <1>3 DEF HandshakeBare, TypeOK, Registered
<1>6. StateIndexed'
  BY <1>0, <1>1, <1>3 DEF StateIndexed, TypeOK
<1>7. RouteSound'
  BY <1>0, <1>1 DEF RouteSound, TypeOK
<1>8. Subscribed'
  <2> SUFFICES ASSUME NEW c \in Conns
               PROVE  joined'[c] = IF room'[c] # None /\ socket'[c] = "alive"
                                   THEN {room'[c]} ELSE {}
    BY <1>0, <1>1 DEF Subscribed, Registered, TypeOK
  <2>1. joined[c] = IF room[c] # None /\ socket[c] = "alive" THEN {room[c]} ELSE {}
    BY <1>0 DEF Subscribed, Registered
  <2>2. CASE c \in M
    <3>1. /\ joined'[c] = Joins(c, r) \ {room[c]} /\ room'[c] = r /\ socket' = socket
          /\ room[c] # r /\ room[c] # None
      BY <1>1, <1>3, <1>m, <2>2 DEF Registered
    <3> QED
      BY <2>1, <3>1 DEF Joins
  <2>3. CASE c \notin M
    BY <1>1, <2>1, <2>3
  <2> QED
    BY <2>2, <2>3
<1> QED
  BY <1>4, <1>5, <1>6, <1>7, <1>8 DEF BaseInv

LEMMA BaseStep == BaseInv /\ [Next]_vars => BaseInv'
<1> SUFFICES ASSUME BaseInv, [Next]_vars
             PROVE  BaseInv'
  OBVIOUS
<1> USE RealtimeAssumption
<1>0. /\ TypeOK /\ HandshakeBare /\ StateIndexed /\ RouteSound /\ Subscribed
  BY DEF BaseInv
<1>1. ASSUME NEW c \in Conns, Refuse(c)
      PROVE  BaseInv'
  BY <1>0, <1>1 DEF Refuse, BaseInv, TypeOK, HandshakeBare, StateIndexed,
                    RouteSound, Subscribed, Registered, Events
<1>2. ASSUME NEW c \in Conns, DropHandshake(c)
      PROVE  BaseInv'
  <2>1. /\ socket[c] = "alive" /\ room[c] = None
        /\ socket' = [socket EXCEPT ![c] = "gone"]
        /\ joined' = [joined EXCEPT ![c] = {}]
        /\ event' \in Events
        /\ UNCHANGED <<handshake, room, byRoom, route, online, view, assigned, env>>
    BY <1>2 DEF DropHandshake, Events
  <2>2. TypeOK'
    BY <1>0, <2>1 DEF TypeOK
  <2>3. Subscribed'
    BY <1>0, <2>1 DEF Subscribed, Registered, TypeOK
  <2> QED
    BY <1>0, <2>1, <2>2, <2>3 DEF BaseInv, HandshakeBare, StateIndexed, RouteSound
<1>3. ASSUME NEW c \in Conns, RequestState(c)
      PROVE  BaseInv'
  <2>1. byRoom[room[c]] \in SUBSET Conns
    BY <1>0, <1>3 DEF RequestState, TypeOK
  <2>2. Occupants(byRoom[room[c]]) \in SUBSET Users
    BY <2>1, OccupantsAreUsers
  <2> QED
    BY <1>0, <1>3, <2>2
       DEF RequestState, BaseInv, TypeOK, HandshakeBare, StateIndexed,
           RouteSound, Subscribed, Registered, Events
<1>4. ASSUME NEW u \in Users, NEW s \in Sessions, SessionJoined(u, s)
      PROVE  BaseInv'
  <2>1. s \in Rooms /\ {u} \in SUBSET Users
    BY DEF Rooms
  <2>2. assigned' \in [Users -> Rooms] /\ event' \in Events
    BY <1>0, <1>4, <2>1, EventTypes DEF SessionJoined, TypeOK
  <2> QED
    BY <1>4, <2>1, <2>2, SwitchStep DEF SessionJoined
<1>5. ASSUME NEW u \in Users, SessionLeft(u)
      PROVE  BaseInv'
  <2>1. CommonArea \in Rooms /\ {u} \in SUBSET Users
    BY DEF Rooms
  <2>2. assigned' \in [Users -> Rooms] /\ event' \in Events
    BY <1>0, <1>5, <2>1 DEF SessionLeft, TypeOK, Events
  <2> QED
    BY <1>5, <2>1, <2>2, SwitchStep DEF SessionLeft
<1>6. ASSUME NEW s \in Sessions, SessionEnded(s)
      PROVE  BaseInv'
  <2>1. CommonArea \in Rooms /\ s \in Rooms
    BY DEF Rooms
  <2>2. Occupants(byRoom[s]) \in SUBSET Users
    BY <1>0, <2>1, OccupantsAreUsers DEF TypeOK
  <2>3. assigned' \in [Users -> Rooms] /\ event' \in Events
    BY <1>0, <1>6, <2>1 DEF SessionEnded, TypeOK, Events
  <2> QED
    BY <1>6, <2>1, <2>2, <2>3, SwitchStep DEF SessionEnded
<1>7. CASE UNCHANGED vars
  BY <1>0, <1>7 DEF vars, BaseInv, TypeOK, HandshakeBare, StateIndexed, RouteSound,
                    Subscribed, Registered
<1> QED
  BY <1>1, <1>2, <1>3, <1>4, <1>5, <1>6, <1>7, ConnectStep, RegisterStep,
     DisconnectStep DEF Next

LEMMA BaseInductive == Spec => []BaseInv
BY BaseInit, BaseStep, PTL DEF Spec

\* Every variable keeps its type, whatever clients and the database do.
THEOREM TypeCorrect == Spec => []TypeOK
<1>1. BaseInv => TypeOK
  BY DEF BaseInv
<1> QED
  BY <1>1, BaseInductive, PTL

\* The maps of StateService agree, a route leads to a registered socket of its
\* user, and a socket listens to its room while it is registered and open and to
\* nothing otherwise, whatever clients, the database and the session events do.
THEOREM RegistryAlwaysSound == Spec => []RegistrySound
<1>1. BaseInv => RegistrySound
  BY DEF BaseInv, RegistrySound
<1> QED
  BY <1>1, BaseInductive, PTL

-----------------------------------------------------------------------------
(* One avatar per user.                                                    *)

\* Without overlapping handshakes, the registered sockets are the routed ones and
\* a user in a handshake has no other socket on the way.
Exclusive ==
  "overlap" \notin env =>
    /\ \A c \in Conns : room[c] # None => route[Owner[c]] = c
    /\ \A c \in handshake : route[Owner[c]] = None
    /\ \A c, d \in handshake : Owner[c] = Owner[d] => c = d

LEMMA ConnectExclusive ==
  ASSUME BaseInv, Exclusive, NEW c \in Conns, Connect(c)
  PROVE  Exclusive'
<1> USE RealtimeAssumption, NoneIsNoRoom
<1> DEFINE u == Owner[c]
           old == route[u]
<1> SUFFICES ASSUME "overlap" \notin env
             PROVE  /\ \A d \in Conns : room'[d] # None => route'[Owner[d]] = d
                    /\ \A d \in handshake' : route'[Owner[d]] = None
                    /\ \A d, e \in handshake' : Owner[d] = Owner[e] => d = e
  BY DEF Connect, Exclusive
<1>0. TypeOK /\ RouteSound /\ u \in Users /\ handshake \subseteq Conns
  BY DEF BaseInv, TypeOK
<1>1. /\ \A d \in Conns : room[d] # None => route[Owner[d]] = d
      /\ \A d \in handshake : route[Owner[d]] = None /\ Owner[d] # u
      /\ \A d, e \in handshake : Owner[d] = Owner[e] => d = e
  BY DEF Exclusive, Connect, InHandshake
<1>2. room[c] = None /\ handshake' = handshake \cup {c} /\ TakeOver(u)
  BY DEF Connect
<1>3. route' = [route EXCEPT ![u] = None]
  BY <1>0, <1>2 DEF TakeOver, TypeOK
<1>4. \A d \in Conns : room'[d] # None => room[d] # None /\ Owner[d] # u
  <2>1. CASE old = None
    BY <1>0, <1>1, <1>2, <2>1 DEF TakeOver
  <2>2. CASE old # None
    <3>1. old \in Conns /\ room' = [room EXCEPT ![old] = None]
      BY <1>0, <1>2, <2>2 DEF TakeOver, Forget, TypeOK
    <3> QED
      BY <1>0, <1>1, <3>1 DEF TypeOK
  <2> QED
    BY <2>1, <2>2
<1> QED
  BY <1>0, <1>1, <1>2, <1>3, <1>4 DEF TypeOK

LEMMA SwitchExclusive ==
  ASSUME BaseInv, Exclusive, NEW users \in SUBSET Users, NEW r \in Rooms,
         Switch(users, r)
  PROVE  Exclusive'
<1>1. UNCHANGED <<route, handshake, env>>
  BY DEF Switch
<1>2. \A c \in Conns : room'[c] # None => room[c] # None
  <2>1. room' = [c \in Conns |-> IF c \in Moved(users, r) THEN r ELSE room[c]]
    BY DEF Switch, Moved
  <2> QED
    BY <2>1, MovedAreRegistered DEF Registered
<1> QED
  BY <1>1, <1>2 DEF Exclusive

LEMMA ExclusiveInit == Init => Exclusive
BY DEF Init, Exclusive

LEMMA ExclusiveStep == BaseInv /\ Exclusive /\ [Next]_vars => Exclusive'
<1> SUFFICES ASSUME BaseInv, Exclusive, [Next]_vars
             PROVE  Exclusive'
  OBVIOUS
<1> USE RealtimeAssumption, NoneIsNoRoom
<1>0. TypeOK /\ HandshakeBare /\ RouteSound
  BY DEF BaseInv
<1>1. ASSUME NEW c \in Conns, NEW session \in Sessions \cup {None}, Register(c, session)
      PROVE  Exclusive'
  <2> DEFINE r == Destination(session)
  <2>1. /\ c \in handshake /\ handshake' = handshake \ {c}
        /\ room' = [room EXCEPT ![c] = r]
        /\ route' = [route EXCEPT ![Owner[c]] = c]
        /\ UNCHANGED env
    BY <1>1 DEF Register
  <2> QED
    BY <1>0, <2>1 DEF Exclusive, TypeOK
<1>2. ASSUME NEW c \in Conns, Disconnect(c)
      PROVE  Exclusive'
  <2>1. /\ room' = [room EXCEPT ![c] = None] /\ UNCHANGED <<handshake, env>>
        /\ route' = IF route[Owner[c]] = c THEN [route EXCEPT ![Owner[c]] = None] ELSE route
    BY <1>2 DEF Disconnect, Forget, Unroute
  <2> QED
    BY <1>0, <2>1 DEF Exclusive, TypeOK
<1>3. ASSUME NEW c \in Conns, Refuse(c) \/ DropHandshake(c) \/ RequestState(c)
      PROVE  Exclusive'
  BY <1>3 DEF Refuse, DropHandshake, RequestState, Exclusive
<1>4. ASSUME NEW u \in Users, NEW s \in Sessions, SessionJoined(u, s)
      PROVE  Exclusive'
  BY <1>4, SwitchExclusive DEF SessionJoined, Rooms
<1>5. ASSUME NEW u \in Users, SessionLeft(u)
      PROVE  Exclusive'
  BY <1>5, SwitchExclusive DEF SessionLeft, Rooms
<1>6. ASSUME NEW s \in Sessions, SessionEnded(s)
      PROVE  Exclusive'
  <2>1. s \in Rooms /\ CommonArea \in Rooms
    BY DEF Rooms
  <2>2. Occupants(byRoom[s]) \in SUBSET Users
    BY <1>0, <2>1, OccupantsAreUsers DEF TypeOK
  <2> QED
    BY <1>6, <2>1, <2>2, SwitchExclusive DEF SessionEnded
<1>7. CASE UNCHANGED vars
  BY <1>7 DEF vars, Exclusive
<1> QED
  BY <1>1, <1>2, <1>3, <1>4, <1>5, <1>6, <1>7, ConnectExclusive DEF Next

LEMMA ExclusiveInductive == Spec => [](BaseInv /\ Exclusive)
BY BaseInit, BaseStep, ExclusiveInit, ExclusiveStep, PTL DEF Spec

\* Two registered sockets of one user need two handshakes of that user at once.
THEOREM OneAvatarAlways == Spec => []OneAvatarPerUser
<1>1. BaseInv /\ Exclusive => OneAvatarPerUser
  BY DEF Exclusive, OneAvatarPerUser, Registered
<1> QED
  BY <1>1, ExclusiveInductive, PTL

-----------------------------------------------------------------------------
(* The room the events named.                                              *)

\* A switch takes the routed sockets of its users, when these are in a room at all,
\* to room r, and leaves the others where they are.
LEMMA MovedAreRouted ==
  ASSUME BaseInv, NEW users \in SUBSET Users, NEW r \in Rooms, NEW c \in Conns
  PROVE  c \in Moved(users, r)
           <=> Owner[c] \in users /\ route[Owner[c]] = c /\ room[c] # r
BY RealtimeAssumption, NoneIsNoRoom DEF Moved, BaseInv, TypeOK, RouteSound

LEMMA SwitchMoves ==
  ASSUME BaseInv, NEW users \in SUBSET Users, NEW r \in Rooms, Switch(users, r)
  PROVE  \A c \in Conns :
           room'[c] = IF Owner[c] \in users /\ route[Owner[c]] = c THEN r ELSE room[c]
<1>1. room' = [c \in Conns |-> IF c \in Moved(users, r) THEN r ELSE room[c]]
  BY DEF Switch, Moved
<1> QED
  BY <1>1, MovedAreRouted

\* Whoever is shown in the room of an ended session was assigned to it.
LEMMA EndedMembers ==
  ASSUME BaseInv, Exclusive, "overlap" \notin env, NEW s \in Rooms
  PROVE  /\ Occupants(byRoom[s]) \in SUBSET Users
         /\ \A c \in Conns :
              room[c] # None => (Owner[c] \in Occupants(byRoom[s]) <=> room[c] = s)
<1> USE RealtimeAssumption, NoneIsNoRoom
<1>1. byRoom[s] \in SUBSET Conns /\ \A d \in Conns : d \in byRoom[s] <=> room[d] = s
  BY DEF BaseInv, TypeOK, StateIndexed
<1>2. ASSUME NEW c \in Conns, room[c] # None
      PROVE  Owner[c] \in Occupants(byRoom[s]) <=> room[c] = s
  <2>1. ASSUME NEW d \in byRoom[s], Owner[d] = Owner[c]
        PROVE  d = c
    BY <1>1, <1>2, <2>1 DEF Exclusive
  <2> QED
    BY <1>1, <2>1 DEF Occupants
<1> QED
  BY <1>1, <1>2, OccupantsAreUsers

LEMMA AssignedInit == Init => InAssignedRoom
BY DEF Init, InAssignedRoom, Registered

LEMMA AssignedStep ==
  BaseInv /\ Exclusive /\ InAssignedRoom /\ [Next]_vars => InAssignedRoom'
<1> SUFFICES ASSUME BaseInv, Exclusive, InAssignedRoom, [Next]_vars,
                    env' \cap {"overlap", "relocate"} = {}
             PROVE  \A c \in Conns : room'[c] # None => room'[c] = assigned'[Owner[c]]
  BY DEF InAssignedRoom, Registered
<1> USE RealtimeAssumption, NoneIsNoRoom
<1>0. TypeOK /\ env' = env
  BY DEF BaseInv, Next, vars, Connect, Register, Refuse, DropHandshake, Disconnect,
         RequestState, SessionJoined, SessionLeft, SessionEnded, Switch
<1>e. "overlap" \notin env /\ "relocate" \notin env
  BY <1>0
<1>i. \A c \in Conns : room[c] # None =>
        room[c] = assigned[Owner[c]] /\ route[Owner[c]] = c
  BY <1>0, <1>e DEF InAssignedRoom, Registered, Exclusive
<1> DEFINE Goal == \A c \in Conns : room'[c] # None => room'[c] = assigned'[Owner[c]]
<1>1. ASSUME NEW c \in Conns, Connect(c)
      PROVE  Goal
  <2>1. /\ UNCHANGED assigned
        /\ room' = room \/ room' = [room EXCEPT ![route[Owner[c]]] = None]
    BY <1>1 DEF Connect, TakeOver, Forget
  <2> QED
    BY <1>0, <1>i, <2>1 DEF TypeOK
<1>2. ASSUME NEW c \in Conns, NEW session \in Sessions \cup {None}, Register(c, session)
      PROVE  Goal
  BY <1>0, <1>e, <1>i, <1>2 DEF Register, TypeOK
<1>3. ASSUME NEW c \in Conns, Disconnect(c)
      PROVE  Goal
  BY <1>0, <1>i, <1>3 DEF Disconnect, Forget, TypeOK
<1>4. ASSUME NEW c \in Conns, Refuse(c) \/ DropHandshake(c) \/ RequestState(c)
      PROVE  Goal
  BY <1>0, <1>i, <1>4 DEF Refuse, DropHandshake, RequestState
<1>5. ASSUME NEW u \in Users, NEW r \in Rooms, Switch({u}, r),
             assigned' = [assigned EXCEPT ![u] = r]
      PROVE  Goal
  <2>1. \A c \in Conns :
          room'[c] = IF Owner[c] \in {u} /\ route[Owner[c]] = c THEN r ELSE room[c]
    BY <1>5, SwitchMoves
  <2>2. \A v \in Users : assigned'[v] = IF v = u THEN r ELSE assigned[v]
    BY <1>0, <1>5 DEF TypeOK
  <2> QED
    BY <1>i, <2>1, <2>2
<1>6. ASSUME NEW s \in Sessions, SessionEnded(s)
      PROVE  Goal
  <2>1. s \in Rooms /\ CommonArea \in Rooms
    BY DEF Rooms
  <2>2. /\ Switch(Occupants(byRoom[s]), CommonArea)
        /\ assigned' = [u \in Users |-> IF assigned[u] = s THEN CommonArea ELSE assigned[u]]
    BY <1>6 DEF SessionEnded
  <2>3. \A c \in Conns :
          room[c] # None => (Owner[c] \in Occupants(byRoom[s]) <=> room[c] = s)
    BY <1>e, <2>1, EndedMembers
  <2>4. \A c \in Conns :
          room'[c] = IF Owner[c] \in Occupants(byRoom[s]) /\ route[Owner[c]] = c
                     THEN CommonArea ELSE room[c]
    BY <1>e, <2>1, <2>2, EndedMembers, SwitchMoves
  <2> QED
    BY <1>0, <1>i, <2>2, <2>3, <2>4 DEF TypeOK, RouteSound, BaseInv
<1>7. CASE UNCHANGED vars
  BY <1>i, <1>7 DEF vars
<1>8. CommonArea \in Rooms /\ Sessions \subseteq Rooms
  BY DEF Rooms
<1>9. ASSUME NEW u \in Users, NEW s \in Sessions, SessionJoined(u, s)
      PROVE  Goal
  BY <1>5, <1>8, <1>9 DEF SessionJoined
<1>10. ASSUME NEW u \in Users, SessionLeft(u)
       PROVE  Goal
  BY <1>5, <1>8, <1>10 DEF SessionLeft
<1> QED
  BY <1>1, <1>2, <1>3, <1>4, <1>6, <1>7, <1>9, <1>10 DEF Next

LEMMA AssignedInductive == Spec => [](BaseInv /\ Exclusive /\ InAssignedRoom)
BY AssignedInit, AssignedStep, ExclusiveInductive, PTL DEF Spec

\* A registered socket is in the room its user's events last named, whatever the
\* order of connects, takeovers, closes and events, when the database read of a
\* handshake agrees with the events.
THEOREM InAssignedRoomAlways == Spec => []InAssignedRoom
BY AssignedInductive, PTL

-----------------------------------------------------------------------------
(* Who counts as online.                                                   *)

\* Sockets the process waits for or has registered are open, unless one can close
\* during its handshake; users online have one of them, unless handshakes fail.
SocketsOpen ==
  "hangup" \notin env =>
    \A c \in Conns : c \in handshake \/ room[c] # None => socket[c] = "alive"
OnlineHeld ==
  "dbfail" \notin env => \A u \in online : route[u] # None \/ InHandshake(u)

LEMMA OpenStep ==
  BaseInv /\ SocketsOpen /\ [Next]_vars => SocketsOpen'
<1> SUFFICES ASSUME BaseInv, SocketsOpen, [Next]_vars, "hangup" \notin env', NEW d \in Conns,
                    d \in handshake' \/ room'[d] # None
             PROVE  socket'[d] = "alive"
  BY DEF SocketsOpen
<1> USE RealtimeAssumption, NoneIsNoRoom
<1>0. TypeOK /\ HandshakeBare /\ RouteSound /\ env' = env
  BY DEF BaseInv, Next, vars, Connect, Register, Refuse, DropHandshake, Disconnect,
         RequestState, SessionJoined, SessionLeft, SessionEnded, Switch
<1>i. \A c \in Conns : c \in handshake \/ room[c] # None => socket[c] = "alive"
  BY <1>0 DEF SocketsOpen
<1>1. ASSUME NEW c \in Conns, Connect(c)
      PROVE  socket'[d] = "alive"
  <2> DEFINE old == route[Owner[c]]
  <2>1. /\ handshake' = handshake \cup {c}
        /\ socket' = [e \in Conns |->
                        IF e = c THEN "alive" ELSE IF e = old THEN "gone" ELSE socket[e]]
        /\ TakeOver(Owner[c])
    BY <1>1 DEF Connect
  <2>2. CASE old = None
    BY <1>0, <1>i, <2>1, <2>2 DEF TakeOver, TypeOK
  <2>3. CASE old # None
    <3>1. old \in Conns /\ old \notin handshake /\ room' = [room EXCEPT ![old] = None]
      BY <1>0, <2>1, <2>3 DEF TakeOver, Forget, TypeOK, RouteSound, HandshakeBare
    <3> QED
      BY <1>0, <1>i, <2>1, <3>1 DEF TypeOK
  <2> QED
    BY <2>2, <2>3
<1>2. ASSUME NEW c \in Conns, NEW session \in Sessions \cup {None}, Register(c, session)
      PROVE  socket'[d] = "alive"
  BY <1>0, <1>i, <1>2 DEF Register, TypeOK
<1>3. ASSUME NEW c \in Conns, Disconnect(c)
      PROVE  socket'[d] = "alive"
  BY <1>0, <1>i, <1>3 DEF Disconnect, Forget, TypeOK, HandshakeBare
<1>4. ASSUME NEW c \in Conns, Refuse(c) \/ DropHandshake(c) \/ RequestState(c)
      PROVE  socket'[d] = "alive"
  BY <1>0, <1>i, <1>4 DEF Refuse, DropHandshake, RequestState, TypeOK, HandshakeBare
<1>5. ASSUME NEW users \in SUBSET Users, NEW r \in Rooms, Switch(users, r)
      PROVE  socket'[d] = "alive"
  <2>1. UNCHANGED <<handshake, socket>>
    BY <1>5 DEF Switch
  <2>2. room'[d] # None => room[d] # None
    <3>1. room'[d] = IF Owner[d] \in users /\ route[Owner[d]] = d THEN r ELSE room[d]
      BY <1>0, <1>5, SwitchMoves
    <3>2. route[Owner[d]] = d => room[d] # None
      BY <1>0 DEF RouteSound, TypeOK
    <3> QED
      BY <3>1, <3>2
  <2> QED
    BY <1>i, <2>1, <2>2
<1>6. Occupants(byRoom[CommonArea]) \in SUBSET Users
      /\ \A s \in Sessions : Occupants(byRoom[s]) \in SUBSET Users
  BY <1>0, OccupantsAreUsers DEF TypeOK, Rooms
<1>7. CommonArea \in Rooms /\ Sessions \subseteq Rooms
  BY DEF Rooms
<1>8. CASE \/ \E u \in Users : SessionLeft(u) \/ \E s \in Sessions : SessionJoined(u, s)
           \/ \E s \in Sessions : SessionEnded(s)
  BY <1>5, <1>6, <1>7, <1>8 DEF SessionLeft, SessionJoined, SessionEnded
<1>9. CASE UNCHANGED vars
  BY <1>i, <1>9 DEF vars
<1> QED
  BY <1>1, <1>2, <1>3, <1>4, <1>8, <1>9 DEF Next

LEMMA HeldStep ==
  BaseInv /\ OnlineHeld /\ [Next]_vars => OnlineHeld'
<1> SUFFICES ASSUME BaseInv, OnlineHeld, [Next]_vars, "dbfail" \notin env', NEW v \in online'
             PROVE  route'[v] # None \/ InHandshake(v)'
  BY DEF OnlineHeld
<1> USE RealtimeAssumption, NoneIsNoRoom
<1>0. TypeOK /\ RouteSound /\ env' = env
  BY DEF BaseInv, Next, vars, Connect, Register, Refuse, DropHandshake, Disconnect,
         RequestState, SessionJoined, SessionLeft, SessionEnded, Switch
<1>i. \A u \in online : route[u] # None \/ InHandshake(u)
  BY <1>0 DEF OnlineHeld
<1> DEFINE Goal == route'[v] # None \/ InHandshake(v)'
<1>1. ASSUME NEW c \in Conns, Connect(c)
      PROVE  Goal
  <2>1. /\ online' = online /\ handshake' = handshake \cup {c}
        /\ route' = route \/ route' = [route EXCEPT ![Owner[c]] = None]
    BY <1>1 DEF Connect, TakeOver
  <2> QED
    BY <1>0, <1>i, <2>1 DEF InHandshake, TypeOK
<1>2. ASSUME NEW c \in Conns, NEW session \in Sessions \cup {None}, Register(c, session)
      PROVE  Goal
  BY <1>0, <1>i, <1>2 DEF Register, InHandshake, TypeOK
<1>3. ASSUME NEW c \in Conns, Disconnect(c)
      PROVE  Goal
  BY <1>0, <1>i, <1>3 DEF Disconnect, Unroute, InHandshake, TypeOK
<1>4. ASSUME NEW c \in Conns, DropHandshake(c) \/ RequestState(c)
      PROVE  Goal
  BY <1>i, <1>4 DEF DropHandshake, RequestState, InHandshake
<1>5. ASSUME NEW c \in Conns, Refuse(c)
      PROVE  Goal
  BY <1>0, <1>5 DEF Refuse
<1>6. CASE \/ \E u \in Users : SessionLeft(u) \/ \E s \in Sessions : SessionJoined(u, s)
           \/ \E s \in Sessions : SessionEnded(s)
  BY <1>i, <1>6 DEF SessionLeft, SessionJoined, SessionEnded, Switch, InHandshake
<1>7. CASE UNCHANGED vars
  BY <1>i, <1>7 DEF vars, InHandshake
<1> QED
  BY <1>1, <1>2, <1>3, <1>4, <1>5, <1>6, <1>7 DEF Next

LEMMA HeldInductive == Spec => [](BaseInv /\ SocketsOpen /\ OnlineHeld)
<1>1. Init => SocketsOpen /\ OnlineHeld
  BY DEF Init, SocketsOpen, OnlineHeld
<1> QED
  BY <1>1, OpenStep, HeldStep, BaseInit, BaseStep, PTL DEF Spec

\* Whoever counts as online has an open socket: only a handshake that fails or is
\* cut short leaves somebody online without one.
THEOREM OnlineHasSocketAlways == Spec => []OnlineHasSocket
<1>1. BaseInv /\ SocketsOpen /\ OnlineHeld => OnlineHasSocket
  <2> SUFFICES ASSUME BaseInv, SocketsOpen, OnlineHeld,
                      "hangup" \notin env, "dbfail" \notin env, NEW u \in online
               PROVE  \E c \in Conns : Owner[c] = u /\ socket[c] = "alive"
    BY DEF OnlineHasSocket, NoGhosts
  <2>1. CASE route[u] # None
    BY <2>1 DEF BaseInv, TypeOK, RouteSound, SocketsOpen
  <2>2. CASE InHandshake(u)
    BY <2>2 DEF InHandshake, BaseInv, TypeOK, SocketsOpen
  <2> QED
    BY <2>1, <2>2 DEF OnlineHeld
<1> QED
  BY <1>1, HeldInductive, PTL

-----------------------------------------------------------------------------
(* The map the clients are shown.                                          *)

\* A switch moves its users on the map, those of them who are on it.
LEMMA SwitchOnMap ==
  ASSUME BaseInv, NEW users \in SUBSET Users, NEW r \in Rooms, Switch(users, r)
  PROVE  Map!MoveTo(users, r) /\ env' = env
<1> USE RealtimeAssumption, NoneIsNoRoom
<1>1. UNCHANGED <<route, env>>
  BY DEF Switch
<1>2. \A c \in Conns :
        room'[c] = IF Owner[c] \in users /\ route[Owner[c]] = c THEN r ELSE room[c]
  BY SwitchMoves
<1>3. ASSUME NEW u \in Users
      PROVE  (IF route'[u] = None THEN None ELSE room'[route'[u]])
               = IF u \in users /\ Place[u] # None THEN r ELSE Place[u]
  BY <1>1, <1>2 DEF Place, BaseInv, TypeOK, RouteSound
<1> QED
  BY <1>1, <1>3 DEF Place, Map!MoveTo

LEMMA MapInit == Init => Map!MapInit
BY DEF Init, Map!MapInit, Map!NobodyPlaced, Place, Quiet

LEMMA MapStep ==
  BaseInv /\ Exclusive /\ [Next]_vars => [Map!MapNext /\ UNCHANGED env]_(Map!mapVars)
<1> SUFFICES ASSUME BaseInv, Exclusive, [Next]_vars
             PROVE  (Map!MapNext /\ UNCHANGED env) \/ UNCHANGED <<Place, env, event>>
  BY DEF Map!mapVars
<1> USE RealtimeAssumption, NoneIsNoRoom
<1>0. TypeOK /\ HandshakeBare /\ RouteSound
  BY DEF BaseInv
<1> DEFINE Goal == Map!MapNext /\ UNCHANGED env
<1>1. ASSUME NEW c \in Conns, Connect(c)
      PROVE  Goal
  <2> DEFINE u == Owner[c]
             old == route[u]
  <2>1. /\ UNCHANGED env /\ TakeOver(u) /\ u \in Users
        /\ event' = [name |-> "connection", userId |-> u]
    BY <1>1 DEF Connect
  <2>2. Map!Vanish(u)
    <3>1. CASE old = None
      <4>1. Place' = Place /\ Place[u] = None
        BY <2>1, <3>1 DEF TakeOver, Place
      <4> QED
        BY <4>1 DEF Map!Vanish, Place
    <3>2. CASE old # None
      <4>1. /\ room' = [room EXCEPT ![old] = None]
            /\ route' = [route EXCEPT ![u] = None]
            /\ \A v \in Users : v # u => route[v] # old
        BY <1>0, <2>1, <3>2 DEF TakeOver, Forget, RouteSound
      <4>2. Place' = [Place EXCEPT ![u] = None]
        BY <1>0, <2>1, <4>1 DEF Place, TypeOK
      <4> QED
        BY <4>2 DEF Map!Vanish
    <3> QED
      BY <3>1, <3>2
  <2> QED
    BY <2>1, <2>2 DEF Map!Connection, Map!MapNext
<1>2. ASSUME NEW c \in Conns, NEW session \in Sessions \cup {None}, Register(c, session)
      PROVE  Goal
  <2> DEFINE u == Owner[c]
             r == Destination(session)
  <2>1. /\ c \in handshake /\ room[c] = None /\ u \in Users /\ UNCHANGED env
        /\ room' = [room EXCEPT ![c] = r]
        /\ route' = [route EXCEPT ![u] = c]
        /\ \A v \in Users : route[v] # None => route[v] # c
        /\ event' = [name |-> "user.connected", userId |-> u, roomId |-> r]
    BY <1>0, <1>2 DEF Register, HandshakeBare, RouteSound
  <2>2. r \in Sessions \cup {CommonArea}
    BY DestinationIsRoom DEF Rooms
  <2> HIDE DEF r
  <2>3. Place' = [Place EXCEPT ![u] = r]
    BY <1>0, <2>1, <2>2 DEF Place, TypeOK
  <2>4. Place[u] = None \/ "overlap" \in env
    BY <2>1 DEF Place, Exclusive
  <2>5. Map!Connected(u, r)
    BY <2>1, <2>3, <2>4 DEF Map!Connected, Map!Appear
  <2> QED
    BY <2>1, <2>2, <2>5 DEF Map!MapNext
<1>3. ASSUME NEW c \in Conns, Disconnect(c)
      PROVE  Goal
  <2> DEFINE u == Owner[c]
  <2>1. /\ u \in Users /\ UNCHANGED env /\ room[c] # None
        /\ room' = [room EXCEPT ![c] = None]
        /\ route' = IF route[u] = c THEN [route EXCEPT ![u] = None] ELSE route
        /\ \A v \in Users : v # u => route[v] # c
        /\ event' = [name |-> "disconnect", userId |-> u]
    BY <1>0, <1>3 DEF Disconnect, Forget, Unroute, RouteSound
  <2>2. CASE route[u] = c
    <3>1. Place' = [Place EXCEPT ![u] = None]
      BY <1>0, <2>1, <2>2 DEF Place, TypeOK
    <3> QED
      BY <2>1, <3>1 DEF Map!Vanish, Map!Disconnected, Map!MapNext
  <2>3. CASE route[u] # c
    <3>1. Place' = Place
      BY <1>0, <2>1, <2>3 DEF Place, TypeOK
    <3>2. "overlap" \in env
      BY <2>1, <2>3 DEF Exclusive
    <3> QED
      BY <2>1, <3>1, <3>2 DEF Map!Disconnected, Map!MapNext
  <2> QED
    BY <2>2, <2>3
<1>4. ASSUME NEW c \in Conns, Refuse(c) \/ DropHandshake(c) \/ RequestState(c)
      PROVE  Goal
  <2>1. Place' = Place /\ env' = env /\ event' = [name |-> "none"]
    BY <1>4 DEF Refuse, DropHandshake, RequestState, Place, Quiet
  <2> QED
    BY <2>1 DEF Map!Unplaced, Map!MapNext
<1>5. ASSUME NEW u \in Users, NEW s \in Sessions, SessionJoined(u, s)
      PROVE  Goal
  <2>1. Map!MoveTo({u}, s) /\ env' = env
    BY <1>5, SwitchOnMap DEF SessionJoined, Rooms
  <2> QED
    BY <1>5, <2>1 DEF SessionJoined, Map!EnterSession, Map!JoinedSession, Map!MapNext
<1>6. ASSUME NEW u \in Users, SessionLeft(u)
      PROVE  Goal
  <2>1. Map!MoveTo({u}, CommonArea) /\ env' = env
    BY <1>6, SwitchOnMap DEF SessionLeft, Rooms
  <2> QED
    BY <1>6, <2>1 DEF SessionLeft, Map!LeaveSession, Map!LeftSession, Map!MapNext
<1>7. ASSUME NEW s \in Sessions, SessionEnded(s)
      PROVE  Goal
  <2> DEFINE shown == {u \in Users : Place[u] = s}
             there == Occupants(byRoom[s])
  <2>1. s \in Rooms /\ CommonArea \in Rooms
    BY DEF Rooms
  <2>2. there \in SUBSET Users
    BY <1>0, <2>1, OccupantsAreUsers DEF TypeOK
  <2>3. Map!MoveTo(there, CommonArea) /\ env' = env
    BY <1>7, <2>1, <2>2, SwitchOnMap DEF SessionEnded
  <2>4. shown \subseteq there
    BY <1>0, <2>1 DEF Place, Occupants, BaseInv, StateIndexed, RouteSound, TypeOK
  <2>5. there \ shown # {} => "overlap" \in env
    <3> SUFFICES ASSUME "overlap" \notin env, NEW c \in byRoom[s]
                 PROVE  Owner[c] \in shown
      BY DEF Occupants
    <3>1. c \in Conns /\ room[c] = s
      BY <1>0, <2>1 DEF BaseInv, StateIndexed, TypeOK
    <3>2. route[Owner[c]] = c
      BY <2>1, <3>1 DEF Exclusive
    <3> QED
      BY <3>1, <3>2 DEF Place
  <2>6. there = shown \cup (there \ shown) /\ there \ shown \in SUBSET Users
    BY <2>2, <2>4
  <2> HIDE DEF shown, there
  <2>7. Map!MoveTo(shown \cup (there \ shown), CommonArea)
    BY <2>3, <2>6
  <2>8. Map!EndSession(s)
    BY <2>5, <2>6, <2>7 DEF Map!EndSession, shown
  <2> QED
    BY <1>7, <2>3, <2>8 DEF SessionEnded, Map!EndedSession, Map!MapNext
<1>8. CASE UNCHANGED vars
  BY <1>8 DEF vars, Place
<1> QED
  BY <1>1, <1>2, <1>3, <1>4, <1>5, <1>6, <1>7, <1>8 DEF Next

\* The sockets, maps and routes implement the campus map: handling an event shows
\* on the map as exactly what that event does there to the user or the session it
\* names, for any sockets of any users and under every disturbance.
THEOREM MapImplemented == Spec => ImplementsMap
BY MapInit, MapStep, ExclusiveInductive, PTL DEF Spec, ImplementsMap, Map!MapSpec

-----------------------------------------------------------------------------
(* What the clients show.                                                  *)

LEMMA RoomsOccupants ==
  ASSUME BaseInv, NEW r \in Rooms, NEW u
  PROVE  u \in Occupants(byRoom[r]) <=> \E c \in Conns : room[c] = r /\ Owner[c] = u
BY DEF BaseInv, StateIndexed, TypeOK, Occupants

\* The disturbances without which the views are honest.
Orderly == env \cap {"overlap", "relocate", "dbfail"} = {}

\* What ViewsHonest says of one socket, in terms of StateService's first map.
Honest(c) ==
  /\ \A d \in Conns : room[d] = room[c] => Owner[d] \in view[c]
  /\ \A u \in view[c] : u \in online /\ assigned[u] = room[c]

\* The sockets that can show something.
Shows(c) == socket[c] = "alive" /\ room[c] # None

AllHonest == Orderly => \A c \in Conns : Shows(c) => Honest(c)

ViewInv ==
  BaseInv /\ Exclusive /\ InAssignedRoom /\ OnlineHeld /\ AllHonest

\* What the parts of ViewInv say about a registered socket.
LEMMA ViewFacts ==
  ASSUME ViewInv, Orderly, NEW c \in Conns, room[c] # None
  PROVE  /\ route[Owner[c]] = c /\ Owner[c] \in online
         /\ assigned[Owner[c]] = room[c] /\ room[c] \in Rooms
         /\ Shows(c) => joined[c] = {room[c]} /\ Honest(c)
BY RealtimeAssumption
   DEF ViewInv, BaseInv, TypeOK, RouteSound, Exclusive, InAssignedRoom, Registered,
       Subscribed, AllHonest, Orderly, Shows

\* An event that assigns its users to room r and moves the routed ones keeps the
\* views honest: whoever is online and assigned elsewhere by it is moved by it.
LEMMA SwitchKeepsViews ==
  ASSUME ViewInv, Orderly, NEW users \in SUBSET Users, NEW r \in Rooms,
         Switch(users, r),
         \A u \in online : assigned'[u] = IF u \in users THEN r ELSE assigned[u],
         \A u \in online \cap users : route[u] # None
  PROVE  \A c \in Conns : Shows(c)' => Honest(c)'
<1> USE RealtimeAssumption, NoneIsNoRoom
<1> DEFINE M == Moved(users, r)
           left(c) == {d \in M : room[d] \in joined[c]}
<1>0. BaseInv /\ TypeOK /\ online' = online /\ M \subseteq Conns
  BY MovedAreRegistered DEF ViewInv, BaseInv, Switch, Registered
<1>1. \A c \in Conns :
        c \in M <=> Owner[c] \in users /\ route[Owner[c]] = c /\ room[c] # r
  BY <1>0, MovedAreRouted
<1>2. view' = [c \in Conns |->
                 IF c \in M THEN Occupants(byRoom[r] \cup M)
                 ELSE IF r \in joined[c] THEN view[c] \cup Occupants(M)
                 ELSE view[c] \ Occupants(left(c))]
  BY DEF Switch, Moved
<1>3. room' = [c \in Conns |-> IF c \in M THEN r ELSE room[c]]
  BY DEF Switch, Moved
<1>4. \A c \in M : room[c] # None
  BY MovedAreRegistered DEF ViewInv, Registered
<1> HIDE DEF M
<1> SUFFICES ASSUME NEW c \in Conns, Shows(c)'
             PROVE  Honest(c)'
  OBVIOUS
<1>5. Shows(c) /\ room[c] # None
  BY <1>3, <1>4 DEF Shows, Switch
<1>6. Honest(c) /\ room[c] \in Rooms /\ joined[c] = {room[c]}
  BY <1>5, ViewFacts
<1>7. \A d \in Conns : room[d] # None =>
        /\ route[Owner[d]] = d /\ Owner[d] \in online
        /\ assigned[Owner[d]] = room[d]
  BY ViewFacts
<1>8. \A d \in Conns : d \in byRoom[r] <=> room[d] = r
  BY <1>0 DEF BaseInv, StateIndexed
<1>9. byRoom[r] \subseteq Conns
  BY <1>0 DEF TypeOK
<1>10. CASE c \in M
  <2>1. view'[c] = Occupants(byRoom[r] \cup M) /\ room'[c] = r
    BY <1>2, <1>3, <1>10
  <2>2. ASSUME NEW d \in Conns, room'[d] = r
        PROVE  Owner[d] \in view'[c]
    BY <1>3, <1>8, <2>1, <2>2 DEF Occupants
  <2>3. ASSUME NEW u \in view'[c]
        PROVE  u \in online /\ assigned'[u] = r
    <3>1. PICK d \in byRoom[r] \cup M : u = Owner[d]
      BY <2>1 DEF Occupants
    <3>2. d \in Conns /\ room[d] # None
      BY <1>0, <1>4, <1>8, <1>9, <3>1
    <3>3. u \in online /\ assigned[u] = room[d] /\ route[u] = d
      BY <1>7, <3>1, <3>2
    <3> QED
      BY <1>1, <1>8, <3>1, <3>2, <3>3
  <2> QED
    BY <1>0, <2>1, <2>2, <2>3 DEF Honest
<1>11. CASE c \notin M /\ room[c] = r
  <2>1. view'[c] = view[c] \cup Occupants(M) /\ room'[c] = r
    BY <1>2, <1>3, <1>6, <1>11
  <2>2. ASSUME NEW d \in Conns, room'[d] = r
        PROVE  Owner[d] \in view'[c]
    BY <1>3, <1>6, <1>11, <2>1, <2>2 DEF Occupants, Honest
  <2>3. ASSUME NEW u \in view'[c]
        PROVE  u \in online /\ assigned'[u] = r
    <3>1. CASE u \in view[c]
      BY <1>6, <1>11, <3>1 DEF Honest
    <3>2. CASE u \in Occupants(M)
      <4>1. PICK d \in M : u = Owner[d]
        BY <3>2 DEF Occupants
      <4> QED
        BY <1>0, <1>1, <1>4, <1>7, <4>1
    <3> QED
      BY <2>1, <3>1, <3>2
  <2> QED
    BY <1>0, <2>1, <2>2, <2>3 DEF Honest
<1>12. CASE c \notin M /\ room[c] # r
  <2>1. view'[c] = view[c] \ Occupants(left(c)) /\ room'[c] = room[c]
    BY <1>2, <1>3, <1>6, <1>12
  <2>2. ASSUME NEW d \in Conns, room'[d] = room[c]
        PROVE  Owner[d] \in view'[c]
    <3>1. d \notin M /\ room[d] = room[c]
      BY <1>3, <1>12, <2>2
    <3>2. Owner[d] \in view[c]
      BY <1>6, <3>1 DEF Honest
    <3>3. ASSUME NEW e \in left(c), Owner[e] = Owner[d]
          PROVE  FALSE
      BY <1>0, <1>4, <1>5, <1>7, <3>1, <3>3
    <3> QED
      BY <2>1, <3>2, <3>3 DEF Occupants
  <2>3. ASSUME NEW u \in view'[c]
        PROVE  u \in online /\ assigned'[u] = room[c]
    <3>1. u \in online /\ assigned[u] = room[c] /\ u \notin Occupants(left(c))
      BY <1>6, <2>1 DEF Honest
    <3>2. u \notin users
      <4> SUFFICES ASSUME u \in users
                   PROVE  FALSE
        OBVIOUS
      <4>1. route[u] \in Conns /\ Owner[route[u]] = u /\ room[route[u]] # None
        BY <1>0, <3>1 DEF BaseInv, TypeOK, RouteSound
      <4>2. room[route[u]] = room[c]
        BY <1>7, <3>1, <4>1
      <4>3. route[u] \in left(c)
        BY <1>1, <1>6, <1>12, <4>1, <4>2
      <4> QED
        BY <3>1, <4>1, <4>3 DEF Occupants
    <3> QED
      BY <3>1, <3>2
  <2> QED
    BY <1>0, <2>1, <2>2, <2>3 DEF Honest
<1> QED
  BY <1>10, <1>11, <1>12

LEMMA RegisterKeepsViews ==
  ASSUME ViewInv, Orderly, NEW c \in Conns, NEW session \in Sessions \cup {None},
         Register(c, session)
  PROVE  \A d \in Conns : Shows(d)' => Honest(d)'
<1> USE RealtimeAssumption, NoneIsNoRoom
<1> DEFINE u == Owner[c]
           r == Destination(session)
<1>0. TypeOK /\ u \in Users /\ r \in Rooms /\ room[c] = None
  BY DestinationIsRoom DEF ViewInv, BaseInv, HandshakeBare, Register
<1>1. /\ room' = [room EXCEPT ![c] = r]
      /\ online' = online \cup {u} /\ UNCHANGED assigned
      /\ assigned[u] = r
      /\ view' = [Announce(u, r) EXCEPT ![c] = Occupants(byRoom[r] \cup {c})]
  BY DEF Register, Orderly
<1> HIDE DEF r
<1>2. \A d \in Conns : d \in byRoom[r] <=> room[d] = r
  BY <1>0 DEF ViewInv, BaseInv, StateIndexed
<1>3. byRoom[r] \subseteq Conns
  BY <1>0 DEF TypeOK
<1>4. ASSUME NEW d \in Conns, Shows(d)', d # c
      PROVE  Honest(d)'
  <2>1. Shows(d) /\ room[d] # None /\ room'[d] = room[d]
    BY <1>0, <1>1, <1>4 DEF TypeOK, Shows, Register
  <2>2. Honest(d) /\ joined[d] = {room[d]}
    BY <2>1, ViewFacts
  <2>3. view'[d] = IF room[d] = r THEN view[d] \cup {u} ELSE view[d]
    BY <1>1, <1>4, <2>2 DEF Announce
  <2> QED
    BY <1>0, <1>1, <2>1, <2>2, <2>3 DEF Honest, TypeOK
<1>5. Honest(c)'
  <2>1. view'[c] = Occupants(byRoom[r] \cup {c}) /\ room'[c] = r
    BY <1>0, <1>1 DEF Announce, TypeOK
  <2>2. ASSUME NEW d \in Conns, room'[d] = r
        PROVE  Owner[d] \in view'[c]
    BY <1>0, <1>1, <1>2, <2>1, <2>2 DEF Occupants, TypeOK
  <2>3. ASSUME NEW v \in view'[c]
        PROVE  v \in online' /\ assigned'[v] = r
    <3>1. PICK d \in byRoom[r] \cup {c} : v = Owner[d]
      BY <2>1 DEF Occupants
    <3>2. CASE d = c
      BY <1>1, <3>1, <3>2
    <3>3. CASE d # c
      <4>1. d \in Conns /\ room[d] = r
        BY <1>2, <1>3, <3>1, <3>3
      <4> QED
        BY <1>0, <1>1, <3>1, <4>1, ViewFacts
    <3> QED
      BY <3>2, <3>3
  <2> QED
    BY <2>1, <2>2, <2>3 DEF Honest
<1> QED
  BY <1>4, <1>5

LEMMA DisconnectKeepsViews ==
  ASSUME ViewInv, Orderly, NEW c \in Conns, Disconnect(c)
  PROVE  \A d \in Conns : Shows(d)' => Honest(d)'
<1> USE RealtimeAssumption, NoneIsNoRoom
<1> DEFINE u == Owner[c]
<1>0. TypeOK /\ u \in Users /\ room[c] # None
  BY DEF ViewInv, BaseInv, Disconnect
<1>1. route[u] = c /\ assigned[u] = room[c]
  BY <1>0, ViewFacts
<1>2. /\ room' = [room EXCEPT ![c] = None]
      /\ online' = online \ {u} /\ UNCHANGED assigned
      /\ view' = Withdraw(u, room[c])
  BY <1>1 DEF Disconnect, Forget, Unroute
<1> SUFFICES ASSUME NEW d \in Conns, Shows(d)'
             PROVE  Honest(d)'
  OBVIOUS
<1>3. d # c /\ room[d] # None /\ room'[d] = room[d] /\ Shows(d)
  BY <1>0, <1>2 DEF TypeOK, Shows, Disconnect
<1>4. Honest(d) /\ joined[d] = {room[d]}
  BY <1>3, ViewFacts
<1>5. view'[d] = IF room[d] = room[c] THEN view[d] \ {u} ELSE view[d]
  BY <1>2, <1>4 DEF Withdraw
<1>6. ASSUME NEW e \in Conns, room'[e] = room[d]
      PROVE  Owner[e] \in view'[d]
  <2>1. e # c /\ room[e] = room[d]
    BY <1>0, <1>2, <1>3, <1>6 DEF TypeOK
  <2>2. Owner[e] # u
    BY <1>1, <1>3, <2>1, ViewFacts
  <2> QED
    BY <1>4, <1>5, <2>1, <2>2 DEF Honest
<1>7. ASSUME NEW v \in view'[d]
      PROVE  v \in online' /\ assigned'[v] = room[d]
  BY <1>1, <1>2, <1>4, <1>5, <1>7 DEF Honest
<1> QED
  BY <1>3, <1>6, <1>7 DEF Honest

LEMMA ViewStep == ViewInv /\ [Next]_vars => AllHonest'
<1> SUFFICES ASSUME ViewInv, [Next]_vars, Orderly'
             PROVE  \A d \in Conns : Shows(d)' => Honest(d)'
  BY DEF AllHonest
<1> USE RealtimeAssumption, NoneIsNoRoom
<1>0. TypeOK /\ HandshakeBare /\ StateIndexed /\ RouteSound /\ env' = env
  BY DEF ViewInv, BaseInv, Next, vars, Connect, Register, Refuse, DropHandshake,
         Disconnect, RequestState, SessionJoined, SessionLeft, SessionEnded, Switch
<1>e. Orderly
  BY <1>0 DEF Orderly
<1>i. \A d \in Conns : Shows(d) => Honest(d)
  BY <1>e, ViewFacts DEF Shows
<1> DEFINE Goal == \A d \in Conns : Shows(d)' => Honest(d)'
<1>1. ASSUME NEW c \in Conns, Connect(c)
      PROVE  Goal
  <2>1. /\ room[c] = None /\ UNCHANGED <<online, assigned>> /\ view' = [view EXCEPT ![c] = {}]
        /\ TakeOver(Owner[c])
    BY <1>1 DEF Connect
  <2>2. \A d \in Conns : room'[d] # None => room'[d] = room[d] /\ d # c
    BY <1>0, <2>1 DEF TakeOver, Forget, TypeOK
  <2>3. \A d \in Conns : Shows(d)' => Shows(d) /\ room'[d] = room[d] /\ d # c
    BY <1>0, <1>1, <2>2 DEF Shows, Connect, TypeOK
  <2> QED
    BY <1>0, <1>i, <2>1, <2>2, <2>3 DEF Honest, TypeOK
<1>2. ASSUME NEW c \in Conns, RequestState(c)
      PROVE  Goal
  <2>1. /\ room[c] \in Rooms /\ UNCHANGED <<socket, room, online, assigned>>
        /\ view' = [view EXCEPT ![c] = Occupants(byRoom[room[c]])]
    BY <1>0, <1>2 DEF RequestState, TypeOK
  <2>2. \A u : u \in Occupants(byRoom[room[c]])
                <=> \E d \in Conns : room[d] = room[c] /\ Owner[d] = u
    BY <2>1, RoomsOccupants DEF ViewInv
  <2>3. \A d \in Conns : room[d] = room[c] =>
          Owner[d] \in online /\ assigned[Owner[d]] = room[c]
    BY <1>e, <2>1, ViewFacts
  <2> QED
    BY <1>0, <1>i, <2>1, <2>2, <2>3 DEF Honest, Shows, TypeOK
<1>3. ASSUME NEW c \in Conns, Refuse(c)
      PROVE  Goal
  BY <1>3, <1>e DEF Refuse, Orderly
<1>4. ASSUME NEW c \in Conns, DropHandshake(c)
      PROVE  Goal
  BY <1>0, <1>i, <1>4 DEF DropHandshake, Honest, Shows, TypeOK
<1>5. \A u \in online : route[u] # None \/ InHandshake(u)
  BY <1>e DEF Orderly, OnlineHeld, ViewInv
<1>6. ASSUME NEW u \in Users, NEW r \in Rooms, Undisturbed({u}), Switch({u}, r),
             assigned' = [assigned EXCEPT ![u] = r]
      PROVE  Goal
  <2>1. u \in online => route[u] # None
    BY <1>e, <1>5, <1>6 DEF Undisturbed, Orderly
  <2>2. \A v \in online : assigned'[v] = IF v \in {u} THEN r ELSE assigned[v]
    BY <1>0, <1>6 DEF TypeOK
  <2> QED
    BY <1>e, <1>6, <2>1, <2>2, SwitchKeepsViews
<1>7. ASSUME NEW s \in Sessions, SessionEnded(s)
      PROVE  Goal
  <2> DEFINE there == Occupants(byRoom[s])
  <2>1. s \in Rooms /\ CommonArea \in Rooms
    BY DEF Rooms
  <2>2. /\ Undisturbed({u \in Users : assigned[u] = s}) /\ Switch(there, CommonArea)
        /\ assigned' = [u \in Users |-> IF assigned[u] = s THEN CommonArea ELSE assigned[u]]
    BY <1>7 DEF SessionEnded
  <2>3. there \in SUBSET Users
    BY <1>0, <2>1, OccupantsAreUsers DEF TypeOK
  <2>4. \A c \in Conns : room[c] # None => (Owner[c] \in there <=> room[c] = s)
    BY <1>e, <2>1, EndedMembers DEF ViewInv, Orderly
  <2>5. \A u \in there : \E c \in Conns : room[c] = s /\ Owner[c] = u
    BY <2>1, RoomsOccupants DEF ViewInv
  <2> HIDE DEF there
  <2>6. ASSUME NEW u \in online
        PROVE  /\ u \in there <=> assigned[u] = s
               /\ u \in there => route[u] # None
    <3>1. CASE u \in there
      <4>1. PICK c \in Conns : room[c] = s /\ Owner[c] = u
        BY <2>5, <3>1
      <4> QED
        BY <1>e, <2>1, <3>1, <4>1, ViewFacts
    <3>2. CASE u \notin there /\ assigned[u] = s
      <4>1. u \in Users /\ ~InHandshake(u)
        BY <1>0, <1>e, <2>2, <3>2 DEF Undisturbed, Orderly, TypeOK
      <4>2. route[u] \in Conns /\ Owner[route[u]] = u /\ room[route[u]] # None
        BY <1>0, <1>5, <4>1 DEF TypeOK, RouteSound
      <4>3. room[route[u]] = s
        BY <1>e, <3>2, <4>2, ViewFacts
      <4> QED
        BY <2>4, <3>2, <4>2, <4>3
    <3> QED
      BY <3>1, <3>2
  <2>7. \A u \in online : assigned'[u] = IF u \in there THEN CommonArea ELSE assigned[u]
    BY <1>0, <2>2, <2>6 DEF TypeOK
  <2> QED
    BY <1>e, <2>1, <2>2, <2>3, <2>6, <2>7, SwitchKeepsViews
<1>8. CASE UNCHANGED vars
  BY <1>i, <1>8 DEF vars, Honest, Shows
<1>9. CommonArea \in Rooms /\ Sessions \subseteq Rooms
  BY DEF Rooms
<1>10. ASSUME NEW u \in Users, NEW s \in Sessions, SessionJoined(u, s)
       PROVE  Goal
  BY <1>6, <1>9, <1>10 DEF SessionJoined
<1>11. ASSUME NEW u \in Users, SessionLeft(u)
       PROVE  Goal
  BY <1>6, <1>9, <1>11 DEF SessionLeft
<1>12. ASSUME NEW c \in Conns,
              Disconnect(c) \/ \E session \in Sessions \cup {None} : Register(c, session)
       PROVE  Goal
  BY <1>e, <1>12, RegisterKeepsViews, DisconnectKeepsViews
<1> QED
  BY <1>1, <1>2, <1>3, <1>4, <1>7, <1>8, <1>10, <1>11, <1>12 DEF Next

LEMMA ViewInductive == Spec => []ViewInv
<1>1. Init => AllHonest
  BY DEF Init, AllHonest, Shows
<1>2. ViewInv <=> BaseInv /\ Exclusive /\ InAssignedRoom /\ OnlineHeld /\ AllHonest
  BY DEF ViewInv
<1> QED
  BY <1>1, <1>2, ViewStep, AssignedInductive, HeldInductive, PTL DEF Spec

\* A client shows everybody who is in its room and nobody who is neither there nor
\* coming back to it, through every order of connects, closes, takeovers and
\* session events that does not overlap or contradict a handshake.
THEOREM ViewsAlwaysHonest == Spec => []ViewsHonest
<1>1. ViewInv => ViewsHonest
  <2> SUFFICES ASSUME ViewInv, Orderly, NEW c \in Conns, Shows(c)
               PROVE  /\ Occupants(byRoom[room[c]]) \subseteq view[c]
                      /\ view[c] \subseteq {u \in online : assigned[u] = room[c]}
    BY DEF ViewsHonest, Orderly, Registered, Shows
  <2>1. Honest(c) /\ room[c] \in Rooms
    BY ViewFacts DEF Shows
  <2> QED
    BY <2>1, RoomsOccupants DEF ViewInv, Honest
<1> QED
  BY <1>1, ViewInductive, PTL
=============================================================================
