----------------------------- MODULE MCFriends ------------------------------
(* Friends with up to three requests in flight and three rows over time.   *)
EXTENDS Friends, TLC

MCSymmetry == Permutations(RowIds) \cup Permutations(Requests)
=============================================================================
