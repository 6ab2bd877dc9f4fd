----------------------------- MODULE MCRealtime -----------------------------
(* Realtime with two users, one of whom opens up to three sockets at once. *)
EXTENDS Realtime, TLC

CONSTANTS ann, bob, a1, a2, a3, b1, s1, s2

MCOwner == [c \in Conns |-> IF c = b1 THEN bob ELSE ann]
MCSymmetry == Permutations(Conns \ {b1}) \cup Permutations(Sessions)

\* What tells states apart: no step depends on the event handled before it, and
\* ImplementsMap is checked on every step, also on those to a state seen before.
MCView ==
  <<socket, handshake, room, byRoom, joined, route, online, view, assigned, env>>
=============================================================================
