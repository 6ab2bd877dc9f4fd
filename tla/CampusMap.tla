------------------------------ MODULE CampusMap -----------------------------
(***************************************************************************)
(* What the gateway promises about the map of the campus, event by event.  *)
(* The events are part of the interface: a step names the event the        *)
(* gateway handles in it, and does to the map what that event asks for and *)
(* nothing else.  Realtime implements this with sockets, two maps and a    *)
(* routing table.                                                          *)
(***************************************************************************)
EXTENDS CampusMoves

VARIABLE event    \* the event handled last

mapVars == <<place, env, event>>

MapInit == NobodyPlaced /\ event = [name |-> "none"]

\* A token is accepted: whatever the user was shown by is taken over.
Connection(u) ==
  event' = [name |-> "connection", userId |-> u] /\ Vanish(u)

\* The handshake is through and the user shown in the room it found.
Connected(u, r) ==
  event' = [name |-> "user.connected", userId |-> u, roomId |-> r] /\ Appear(u, r)

\* A registered socket closes: its user vanishes, unless another connection of
\* theirs, beside this one, is the one they are shown by.
Disconnected(u) ==
  /\ event' = [name |-> "disconnect", userId |-> u]
  /\ Vanish(u) \/ ("overlap" \in env /\ UNCHANGED place)

JoinedSession(u, s) ==
  event' = [name |-> "session.joined", userId |-> u, sessionId |-> s] /\ EnterSession(u, s)

LeftSession(u) ==
  event' = [name |-> "session.left", userId |-> u] /\ LeaveSession(u)

EndedSession(s) ==
  event' = [name |-> "session.ended", sessionId |-> s] /\ EndSession(s)

\* A handshake that ends in nothing, and a request for the state, move nobody.
Unplaced == event' = [name |-> "none"] /\ UNCHANGED place

MapNext ==
  \/ \E u \in Users :
       \/ Connection(u) \/ Disconnected(u) \/ LeftSession(u)
       \/ \E s \in Sessions : JoinedSession(u, s)
       \/ \E r \in Sessions \cup {CommonArea} : Connected(u, r)
  \/ \E s \in Sessions : EndedSession(s)
  \/ Unplaced

MapSpec == MapInit /\ [][MapNext /\ UNCHANGED env]_mapVars
=============================================================================
