----------------------------- MODULE MCSessions -----------------------------
(* Sessions on one session with a password, its host and two other users.  *)
EXTENDS Sessions, TLC

CONSTANTS room, host, ann, bob, c1, c2

MCHost == [s \in Sessions |-> host]
MCProtected == {room}
MCInvitees == {ann}

\* Requests are interchangeable.
MCSymmetry == Permutations(Calls)
=============================================================================
