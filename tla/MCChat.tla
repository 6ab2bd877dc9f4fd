------------------------------- MODULE MCChat -------------------------------
(* Chat with two clients, a cache of one and a page of two messages.       *)
EXTENDS Chat, TLC

MCSymmetry == Permutations(Clients) \cup Permutations(Messages)
=============================================================================
