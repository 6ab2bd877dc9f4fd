------------------------------- MODULE Rooms --------------------------------
(***************************************************************************)
(* RoomsService against one room: the Redis set of its occupants and the   *)
(* join and leave requests in flight.  joinRoom asks Redis how many there  *)
(* are, then whether the user is among them, decides, and then adds the    *)
(* user: three commands, and other requests come between any two.          *)
(***************************************************************************)
EXTENDS Naturals, FiniteSets

CONSTANTS
  Users,
  Requests,     \* requests that may be in flight at once
  Capacity      \* Room.capacity

ASSUME RoomsAssumption ==
  /\ Capacity \in Nat
  /\ IsFiniteSet(Users) /\ IsFiniteSet(Requests) /\ Requests # {}

VARIABLES
  occupants,   \* the set room:{id}:users
  request      \* the requests in flight

roomVars == <<occupants, request>>

Idle == [at |-> "idle"]
InRequest ==
  [at : {"enter", "admitted", "leave"}, user : Users]
    \cup [at : {"count"}, user : Users, full : BOOLEAN]

RoomsTypeOK ==
  /\ occupants \subseteq Users
  /\ request \in [Requests -> InRequest \cup {Idle}]

RoomsInit ==
  /\ occupants = {}
  /\ request = [r \in Requests |-> Idle]

Go(r, next) == request' = [request EXCEPT ![r] = next]

-----------------------------------------------------------------------------
(* joinRoom.  A name ending in Mutant is a mistake the operator after it   *)
(* could have been written with; nothing uses it.                          *)

\* The room is there, and if it is private the password is right.
JoinBegin(r, u) ==
  /\ request[r] = Idle
  /\ Go(r, [at |-> "enter", user |-> u])
  /\ UNCHANGED occupants

Full == Cardinality(occupants) >= Capacity

Count(r) ==
  /\ request[r].at = "enter"
  /\ Go(r, [at |-> "count", user |-> request[r].user, full |-> Full])
  /\ UNCHANGED occupants

\* Somebody who is in already may enter a full room.
MayEnterMutant(r) == TRUE
MayEnter(r) == request[r].user \in occupants \/ ~request[r].full

Admit(r) ==
  /\ request[r].at = "count"
  /\ MayEnter(r)
  /\ Go(r, [at |-> "admitted", user |-> request[r].user])
  /\ UNCHANGED occupants

Refuse(r) ==
  /\ request[r].at = "count"
  /\ ~MayEnter(r)
  /\ Go(r, Idle)
  /\ UNCHANGED occupants

Add(r) ==
  /\ request[r].at = "admitted"
  /\ Go(r, Idle)
  /\ occupants' = occupants \cup {request[r].user}

-----------------------------------------------------------------------------

LeaveBegin(r, u) ==
  /\ request[r] = Idle
  /\ Go(r, [at |-> "leave", user |-> u])
  /\ UNCHANGED occupants

RemoveUser(r) ==
  /\ request[r].at = "leave"
  /\ Go(r, Idle)
  /\ occupants' = occupants \ {request[r].user}

\* A Redis or database call fails, or the process dies: the request is gone.
Fail(r) ==
  /\ request[r] # Idle
  /\ Go(r, Idle)
  /\ UNCHANGED occupants

\* The join and leave routes of RoomsController, and what interrupts them.
RoomsNext ==
  \E r \in Requests :
    \/ \E u \in Users : JoinBegin(r, u) \/ LeaveBegin(r, u)
    \/ Count(r) \/ Admit(r) \/ Refuse(r) \/ Add(r) \/ RemoveUser(r) \/ Fail(r)

RoomsSpec == RoomsInit /\ [][RoomsNext]_roomVars

-----------------------------------------------------------------------------

\* A room holds its capacity and no more than one user for every other request
\* in flight: each overbooking takes a request of its own that counted before the
\* room was full and adds after (rooms.service.ts:99-106).  With one request at a
\* time that is the capacity.
OccupancyBound ==
  Cardinality(occupants) + 1 <= Capacity + Cardinality(Requests)
=============================================================================
