---------------------------- MODULE MCWhiteboard ----------------------------
(* Whiteboard with two clients and more strokes than the list may hold.    *)
EXTENDS Whiteboard, TLC

MCSymmetry == Permutations(Clients) \cup Permutations(Strokes)
=============================================================================
