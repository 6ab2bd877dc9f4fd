------------------------------ MODULE Realtime ------------------------------
(***************************************************************************)
(* RealtimeGateway, StateService and PresenceService: which sockets the    *)
(* process has registered, in which room of the campus each of them is,    *)
(* and who counts as online.  All of it is memory of one Node.js process.  *)
(*                                                                         *)
(* The only await that lets other handlers in is the database read of      *)
(* handleConnection: socket.io's in-memory join and leave resolve at once, *)
(* and EventEmitter2 calls its listeners synchronously.  So a handshake is *)
(* two actions, and every other handler is one.                            *)
(*                                                                         *)
(* The environment (clients, the database, the requests that emit session  *)
(* events) does what it likes, except that of these disturbances a         *)
(* behaviour has only those in env, which is chosen at the start:          *)
(*   "overlap"   a user opens a socket while another of theirs is in its   *)
(*               handshake                                                 *)
(*   "hangup"    a socket closes during its handshake                      *)
(*   "dbfail"    the database read of a handshake fails                    *)
(*   "relocate"  the database names another room than the session events   *)
(*               of the user, or such an event comes during the handshake  *)
(***************************************************************************)
EXTENDS Naturals, FiniteSets

CONSTANTS
  Conns,         \* socket ids; an id is used again once nothing knows it
  Users,
  Owner,         \* the user whose token a socket presents
  Sessions,      \* ids of sessions, which are also their rooms
  CommonArea,    \* COMMON_AREA_ID
  None           \* no room, no socket

ASSUME RealtimeAssumption ==
  /\ Owner \in [Conns -> Users]
  /\ CommonArea \notin Sessions
  /\ None \notin Sessions \cup {CommonArea} \cup Conns

Disturbances == {"overlap", "hangup", "dbfail", "relocate"}

Rooms == Sessions \cup {CommonArea}

VARIABLES
  socket,     \* "gone", "alive": is the transport of the socket open
  handshake,  \* the sockets whose handleConnection awaits the database
  room,       \* StateService.connections: the room of each registered socket
  byRoom,     \* StateService.connnectionsByRoom
  joined,     \* the socket.io rooms of each socket
  route,      \* RealtimeGateway.userSockets
  online,     \* PresenceService.onlineUsers
  view,       \* the users the client of each open socket shows, by what it was sent
  assigned,   \* the room the session events of each user last named
  env,        \* the disturbances of this behaviour
  event       \* the event the gateway has handled last

vars == <<socket, handshake, room, byRoom, joined, route, online, view, assigned,
          env, event>>

\* The events of sockets and of sessions that move somebody.
Quiet == [name |-> "none"]
Events ==
  {Quiet} \cup [name : {"connection", "disconnect", "session.left"}, userId : Users]
          \cup [name : {"user.connected"}, userId : Users, roomId : Rooms]
          \cup [name : {"session.joined"}, userId : Users, sessionId : Sessions]
          \cup [name : {"session.ended"}, sessionId : Sessions]

Registered == {c \in Conns : room[c] # None}

\* The room each user is shown in: that of the socket they are routed to.
Place == [u \in Users |-> IF route[u] = None THEN None ELSE room[route[u]]]
Map == INSTANCE CampusMap WITH place <- Place, Nowhere <- None

Occupants(conns) == {Owner[c] : c \in conns}

TypeOK ==
  /\ socket \in [Conns -> {"gone", "alive"}]
  /\ handshake \subseteq Conns
  /\ room \in [Conns -> Rooms \cup {None}]
  /\ byRoom \in [Rooms -> SUBSET Conns]
  /\ joined \in [Conns -> SUBSET Rooms]
  /\ route \in [Users -> Conns \cup {None}]
  /\ online \subseteq Users
  /\ view \in [Conns -> SUBSET Users]
  /\ assigned \in [Users -> Rooms]
  /\ env \subseteq Disturbances
  /\ event \in Events

Init ==
  /\ socket = [c \in Conns |-> "gone"]
  /\ handshake = {}
  /\ room = [c \in Conns |-> None]
  /\ byRoom = [r \in Rooms |-> {}]
  /\ joined = [c \in Conns |-> {}]
  /\ route = [u \in Users |-> None]
  /\ online = {}
  /\ view = [c \in Conns |-> {}]
  /\ assigned = [u \in Users |-> CommonArea]
  /\ env \in SUBSET Disturbances
  /\ event = Quiet

-----------------------------------------------------------------------------
(* StateService, and what an event does to the clients that receive it.  A *)
(* name ending in Mutant is a mistake the operator after it could have     *)
(* been written with; nothing uses it.                                     *)

\* StateService.disconnect.
ForgetMutant(c) == room' = [room EXCEPT ![c] = None] /\ UNCHANGED byRoom
Forget(c) ==
  /\ room' = [room EXCEPT ![c] = None]
  /\ byRoom' = [byRoom EXCEPT ![room[c]] = @ \ {c}]

\* user_connected and user_disconnected, to the sockets that are in a room.
Announce(u, r) ==
  [c \in Conns |-> IF r \in joined[c] THEN view[c] \cup {u} ELSE view[c]]
WithdrawMutant(u, r) == view
Withdraw(u, r) ==
  [c \in Conns |-> IF r \in joined[c] THEN view[c] \ {u} ELSE view[c]]

\* The rooms of a socket after socket.join: closing a socket takes it out of its
\* rooms, and makes join do nothing from then on.
Joins(c, r) == IF socket[c] = "alive" THEN joined[c] \cup {r} ELSE joined[c]

InHandshake(u) == \E c \in handshake : Owner[c] = u

-----------------------------------------------------------------------------
(* handleConnection.                                                       *)

\* The socket the user had is taken over: its state is dropped before it is
\* closed, so its handleDisconnect finds nothing and announces nothing.
TakeOverMutant(u) ==
  route' = [route EXCEPT ![u] = None] /\ UNCHANGED <<room, byRoom>>
TakeOver(u) ==
  IF route[u] = None
  THEN UNCHANGED <<room, byRoom, route>>
  ELSE Forget(route[u]) /\ route' = [route EXCEPT ![u] = None]

\* A token is accepted; the handshake goes on to ask for the user's session.
Connect(c) ==
  LET u == Owner[c]
      old == route[u]
  IN  /\ socket[c] = "gone" /\ c \notin handshake /\ room[c] = None
      /\ InHandshake(u) => "overlap" \in env
      /\ TakeOver(u)
      /\ socket' = [d \in Conns |->
                      IF d = c THEN "alive" ELSE IF d = old THEN "gone" ELSE socket[d]]
      /\ joined' = [d \in Conns |-> IF d \in {c, old} THEN {} ELSE joined[d]]
      /\ view' = [view EXCEPT ![c] = {}]
      /\ handshake' = handshake \cup {c}
      /\ event' = [name |-> "connection", userId |-> u]
      /\ UNCHANGED <<online, assigned, env>>

\* The room of the active session, or the common area when there is none.
Destination(session) == IF session = None THEN CommonArea ELSE session

\* The database has answered: the socket is registered in the room, even one
\* that has closed meanwhile, which then hears nothing of the room.
Register(c, session) ==
  LET u == Owner[c]
      r == Destination(session)
  IN
  /\ c \in handshake
  /\ r # assigned[u] => "relocate" \in env
  /\ handshake' = handshake \ {c}
  /\ room' = [room EXCEPT ![c] = r]
  /\ byRoom' = [byRoom EXCEPT ![r] = @ \cup {c}]
  /\ joined' = [joined EXCEPT ![c] = Joins(c, r)]
  /\ route' = [route EXCEPT ![u] = c]
  /\ online' = online \cup {u}
  /\ view' = [Announce(u, r) EXCEPT ![c] = Occupants(byRoom[r] \cup {c})]
  /\ event' = [name |-> "user.connected", userId |-> u, roomId |-> r]
  /\ UNCHANGED <<socket, assigned, env>>

\* The database read was rejected: the socket is closed.
Refuse(c) ==
  /\ c \in handshake
  /\ "dbfail" \in env
  /\ handshake' = handshake \ {c}
  /\ socket' = [socket EXCEPT ![c] = "gone"]
  /\ event' = Quiet
  /\ UNCHANGED <<room, byRoom, joined, route, online, view, assigned, env>>

-----------------------------------------------------------------------------
(* handleDisconnect: a socket the state service does not know is ignored.  *)

DropHandshake(c) ==
  /\ socket[c] = "alive" /\ room[c] = None
  /\ "hangup" \in env
  /\ socket' = [socket EXCEPT ![c] = "gone"]
  /\ joined' = [joined EXCEPT ![c] = {}]
  /\ event' = Quiet
  /\ UNCHANGED <<handshake, room, byRoom, route, online, view, assigned, env>>

\* Only the socket the user is routed to takes the user offline.
UnrouteMutant(c) == UNCHANGED <<route, online>>
Unroute(c) ==
  IF route[Owner[c]] = c
  THEN /\ route' = [route EXCEPT ![Owner[c]] = None]
       /\ online' = online \ {Owner[c]}
  ELSE UNCHANGED <<route, online>>

Disconnect(c) ==
  LET u == Owner[c] IN
  /\ socket[c] = "alive" /\ room[c] # None
  /\ socket' = [socket EXCEPT ![c] = "gone"]
  /\ joined' = [joined EXCEPT ![c] = {}]
  /\ Forget(c)
  /\ Unroute(c)
  /\ view' = Withdraw(u, room[c])
  /\ event' = [name |-> "disconnect", userId |-> u]
  /\ UNCHANGED <<handshake, assigned, env>>

-----------------------------------------------------------------------------
(* Session events.  switchUserRoom moves the socket its user is routed to, *)
(* unless it is in the room already; the room it leaves is told, it gets   *)
(* the state of the room it enters, and that room is told.                 *)

ResubscribeMutant(moved, r) ==
  [c \in Conns |-> IF c \in moved THEN Joins(c, r) ELSE joined[c]]
Resubscribe(moved, r) ==
  [c \in Conns |-> IF c \in moved THEN Joins(c, r) \ {room[c]} ELSE joined[c]]

Switch(users, r) ==
  LET movers == {route[u] : u \in {v \in users : route[v] # None}}
      moved  == {c \in movers : room[c] \notin {r, None}}
      left   == [c \in Conns |-> {d \in moved : room[d] \in joined[c]}]
  IN  /\ room' = [c \in Conns |-> IF c \in moved THEN r ELSE room[c]]
      /\ byRoom' = [q \in Rooms |->
                      IF q = r THEN byRoom[q] \cup moved
                      ELSE byRoom[q] \ {c \in moved : room[c] = q}]
      /\ joined' = Resubscribe(moved, r)
      /\ view' = [c \in Conns |->
                    IF c \in moved THEN Occupants(byRoom[r] \cup moved)
                    ELSE IF r \in joined[c] THEN view[c] \cup Occupants(moved)
                    ELSE view[c] \ Occupants(left[c])]
      /\ UNCHANGED <<socket, handshake, route, online, env>>

Undisturbed(users) ==
  (\E u \in users : InHandshake(u)) => "relocate" \in env

SessionJoined(u, s) ==
  /\ Undisturbed({u})
  /\ Switch({u}, s)
  /\ assigned' = [assigned EXCEPT ![u] = s]
  /\ event' = [name |-> "session.joined", userId |-> u, sessionId |-> s]

SessionLeftMutant(u) ==
  /\ Undisturbed({u})
  /\ Switch(Occupants(byRoom[assigned[u]]), CommonArea)
  /\ assigned' = [assigned EXCEPT ![u] = CommonArea]
  /\ event' = [name |-> "session.left", userId |-> u]
SessionLeft(u) ==
  /\ Undisturbed({u})
  /\ Switch({u}, CommonArea)
  /\ assigned' = [assigned EXCEPT ![u] = CommonArea]
  /\ event' = [name |-> "session.left", userId |-> u]

SessionEndedMutant(s) ==
  LET members == {u \in Users : assigned[u] = s} IN
  /\ Undisturbed(members)
  /\ assigned' = [u \in Users |-> IF u \in members THEN CommonArea ELSE assigned[u]]
  /\ event' = [name |-> "session.ended", sessionId |-> s]
  /\ UNCHANGED <<socket, handshake, room, byRoom, joined, route, online, view, env>>

\* Everybody with a socket in the room of the session is sent to the common
\* area: the socket that is moved is the one the user is routed to.
SessionEnded(s) ==
  LET members == {u \in Users : assigned[u] = s} IN
  /\ Undisturbed(members)
  /\ Switch(Occupants(byRoom[s]), CommonArea)
  /\ assigned' = [u \in Users |-> IF u \in members THEN CommonArea ELSE assigned[u]]
  /\ event' = [name |-> "session.ended", sessionId |-> s]

RequestState(c) ==
  /\ socket[c] = "alive" /\ room[c] # None
  /\ view' = [view EXCEPT ![c] = Occupants(byRoom[room[c]])]
  /\ event' = Quiet
  /\ UNCHANGED <<socket, handshake, room, byRoom, joined, route, online, assigned,
                 env>>

Next ==
  \/ \E c \in Conns :
       \/ Connect(c)
       \/ \E session \in Sessions \cup {None} : Register(c, session)
       \/ Refuse(c)
       \/ DropHandshake(c)
       \/ Disconnect(c)
       \/ RequestState(c)
  \/ \E u \in Users :
       \/ \E s \in Sessions : SessionJoined(u, s)
       \/ SessionLeft(u)
  \/ \E s \in Sessions : SessionEnded(s)

Spec == Init /\ [][Next]_vars

-----------------------------------------------------------------------------
(* What holds under every disturbance.                                     *)

\* StateService's two maps agree: a room lists exactly the sockets whose state
\* names it, through takeovers, switches and disconnects (state.service.ts).
StateIndexed ==
  \A c \in Conns, r \in Rooms : c \in byRoom[r] <=> room[c] = r

\* The socket a user is routed to is theirs and registered, and the user is
\* online: a session event or an invitation never goes to a forgotten socket.
RouteSound ==
  \A u \in Users : route[u] # None =>
    /\ Owner[route[u]] = u
    /\ room[route[u]] # None
    /\ u \in online

\* An open socket that is registered listens to the room its state names and to no
\* other; any other socket, also one that is registered but closed, to none.
Subscribed ==
  \A c \in Conns :
    joined[c] = IF c \in Registered /\ socket[c] = "alive" THEN {room[c]} ELSE {}

\* The three together: the two maps, the routes and socket.io's rooms tell one
\* story, however connects, takeovers, switches and disconnects follow each other
\* (realtime.gateway.ts:48-167, state.service.ts:11-77).
RegistrySound == StateIndexed /\ RouteSound /\ Subscribed

\* Sockets, maps and routes together implement CampusMap: what handling an event
\* does to them shows as what that event asks for, to the user or the session it
\* names, and as nothing else (realtime.gateway.ts:48-167, 215-228).
ImplementsMap == Map!MapSpec

-----------------------------------------------------------------------------
(* What the gateway means to hold, with the disturbances each survives.    *)

\* A user has one avatar: handleConnection takes over from the socket before
\* (realtime.gateway.ts:67-69).  Two handshakes at once break it.
OneAvatarPerUser ==
  "overlap" \notin env =>
    \A c, d \in Registered : Owner[c] = Owner[d] => c = d

\* A registered socket is in the room the user's session events last named.
InAssignedRoom ==
  env \cap {"overlap", "relocate"} = {} =>
    \A c \in Registered : room[c] = assigned[Owner[c]]

\* A client shows everybody its room holds, and nobody who is neither there
\* nor reconnecting to it.
ViewsHonest ==
  env \cap {"overlap", "relocate", "dbfail"} = {} =>
    \A c \in Registered :
      socket[c] = "alive" =>
        /\ Occupants(byRoom[room[c]]) \subseteq view[c]
        /\ view[c] \subseteq {u \in online : assigned[u] = room[c]}

\* Whoever counts as online has a socket open (presence.service.ts:8-17).
NoGhosts == \A u \in online : \E c \in Conns : Owner[c] = u /\ socket[c] = "alive"

\* That holds when no handshake fails or is cut short.
OnlineHasSocket == env \cap {"hangup", "dbfail"} = {} => NoGhosts
=============================================================================
