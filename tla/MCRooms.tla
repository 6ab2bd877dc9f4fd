------------------------------ MODULE MCRooms -------------------------------
(* Rooms with more users than the bound allows in.                         *)
EXTENDS Rooms, TLC

MCSymmetry == Permutations(Users) \cup Permutations(Requests)
=============================================================================
