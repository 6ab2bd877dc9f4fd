----------------------------- MODULE CampusMoves ----------------------------
(***************************************************************************)
(* Where everybody is on the campus, as the clients are told, and what can *)
(* happen to it: a user is in one room or in none, appears, vanishes and   *)
(* moves.  CampusMap says which event does what; Campus composes the moves *)
(* with the sessions whose events ask for them.                            *)
(***************************************************************************)
CONSTANTS Users, Sessions, CommonArea, Nowhere

VARIABLES
  place,    \* the room of each user
  env       \* with "overlap", a user may open a second connection beside the first

NobodyPlaced == place = [u \in Users |-> Nowhere]

\* A handshake has ended in room r.
Appear(u, r) ==
  /\ place[u] = Nowhere \/ "overlap" \in env
  /\ place' = [place EXCEPT ![u] = r]

Vanish(u) == place' = [place EXCEPT ![u] = Nowhere]

\* An event about somebody who is not connected is lost.
MoveTo(users, r) ==
  place' = [u \in Users |->
              IF u \in users /\ place[u] # Nowhere THEN r ELSE place[u]]

EnterSession(u, s) == MoveTo({u}, s)
LeaveSession(u) == MoveTo({u}, CommonArea)

\* Everybody in the session's room goes to the common area, and somebody whose
\* other connection was in it.
EndSession(s) ==
  \E strays \in SUBSET Users :
    /\ strays # {} => "overlap" \in env
    /\ MoveTo({u \in Users : place[u] = s} \cup strays, CommonArea)
=============================================================================
