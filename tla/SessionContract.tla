-------------------------- MODULE SessionContract ---------------------------
(***************************************************************************)
(* What a session promises its participants: each change is made at once,  *)
(* from the state it changes.  SessionsService implements this while none   *)
(* of its requests race (Sessions, RacelessSpec).                          *)
(***************************************************************************)
CONSTANTS Sessions, Users, Host

VARIABLES status, isLocked, member

contractVars == <<status, isLocked, member>>

ContractInit ==
  /\ status = [s \in Sessions |-> "NONE"]
  /\ isLocked = [s \in Sessions |-> FALSE]
  /\ member = [s \in Sessions |-> [u \in Users |-> "NONE"]]

Open(s) == status[s] \in {"SCHEDULED", "ACTIVE"}

Move(s, from, to) ==
  /\ status[s] = from
  /\ status' = [status EXCEPT ![s] = to]
  /\ UNCHANGED <<isLocked, member>>

Create(s) == Move(s, "NONE", "SCHEDULED")

Start(s) == Move(s, "SCHEDULED", "ACTIVE")

\* A session ends once nobody is in it.
End(s) ==
  /\ \A u \in Users : member[s][u] # "ACTIVE"
  /\ Move(s, "ACTIVE", "ENDED")

SetLock(s, lock) ==
  /\ Open(s)
  /\ isLocked' = [isLocked EXCEPT ![s] = lock]
  /\ UNCHANGED <<status, member>>

Become(s, u, from, to) ==
  /\ member[s][u] \in from
  /\ member' = [member EXCEPT ![s][u] = to]
  /\ UNCHANGED <<status, isLocked>>

\* Nobody enters a locked or a finished session, and nobody who was kicked.
Join(s, u) == Open(s) /\ ~isLocked[s] /\ Become(s, u, {"NONE", "LEFT"}, "ACTIVE")

Leave(s, u) == Open(s) /\ u # Host[s] /\ Become(s, u, {"ACTIVE"}, "LEFT")

Kick(s, u) == u # Host[s] /\ Become(s, u, {"ACTIVE"}, "KICKED")

\* Everybody still in a running session is taken out at once.
Close(s) ==
  /\ status[s] = "ACTIVE"
  /\ member' = [member EXCEPT ![s] =
                  [u \in Users |-> IF @[u] = "ACTIVE" THEN "LEFT" ELSE @[u]]]
  /\ UNCHANGED <<status, isLocked>>

ContractNext ==
  \E s \in Sessions :
    \/ Create(s) \/ Start(s) \/ End(s) \/ Close(s)
    \/ \E lock \in BOOLEAN : SetLock(s, lock)
    \/ \E u \in Users : Join(s, u) \/ Leave(s, u) \/ Kick(s, u)

ContractSpec == ContractInit /\ [][ContractNext]_contractVars
=============================================================================
