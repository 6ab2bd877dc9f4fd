----------------------------- MODULE MCAccounts -----------------------------
(* Accounts with the admin's name, one other user, and two zones.          *)
EXTENDS Accounts, TLC

MCSymmetry == Permutations(RoomIds) \cup Permutations(Requests) \cup Permutations(Seeds)
=============================================================================
