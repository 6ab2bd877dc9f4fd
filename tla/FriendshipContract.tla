------------------------- MODULE FriendshipContract -------------------------
(***************************************************************************)
(* What a pair of users is promised of their friendship: each change is    *)
(* made at once, by the user who may make it, from the state it changes.   *)
(* FriendsService implements this while no requests race (Friends,         *)
(* KeepsContract).                                                         *)
(***************************************************************************)
CONSTANTS Users, Absent

VARIABLES
  bond,    \* who asked and how it stands, Absent: nothing between the two
  wants    \* whether each user last said yes

contractVars == <<bond, wants>>

ContractInit ==
  /\ bond = Absent
  /\ wants = [u \in Users |-> FALSE]

Stands(status) == bond # Absent /\ bond.status = status

Says(u, yes) == wants' = [wants EXCEPT ![u] = yes]

\* Either user asks, the first time or after a refusal, whoever refused.
Ask(u) ==
  /\ bond = Absent \/ Stands("DECLINED")
  /\ bond' = [from |-> u, status |-> "PENDING"]
  /\ Says(u, TRUE)

\* The one who was asked answers, once.
Answer(u, status) ==
  /\ Stands("PENDING")
  /\ bond.from # u
  /\ bond' = [bond EXCEPT !.status = status]
  /\ Says(u, status = "ACCEPTED")

\* Either friend ends the friendship.
Remove(u) ==
  /\ Stands("ACCEPTED")
  /\ bond' = Absent
  /\ Says(u, FALSE)

ContractNext ==
  \E u \in Users :
    Ask(u) \/ Remove(u) \/ \E status \in {"ACCEPTED", "DECLINED"} : Answer(u, status)

ContractSpec == ContractInit /\ [][ContractNext]_contractVars
=============================================================================
