----------------------------- MODULE MCCampus -------------------------------
(* Two users, each the host of a session and a guest in the other's.       *)
EXTENDS Campus, TLC

CONSTANTS ann, bob, s1, s2

MCHost == [s \in Sessions |-> IF s = s1 THEN ann ELSE bob]

\* More disturbances allow more behaviours, so that the sets are as large as the
\* properties and the number of states allow: the map is looked at under the first
\* two, voice rooms under the first and the last two.
MCEnvironments ==
  {{}, {"twice", "early"}, {"early", "overtake", "cross"}, {"lost", "outlive"}}

\* Bounds: under failures and late writes there is one session, with one host, and
\* where users are in several sessions at once nobody speaks.
MCBound ==
  /\ env \cap {"overtake", "lost"} # {} => status[s2] = "NONE"
  /\ "twice" \in env => \A u \in Speakers : ask[u] = Idle

\* Only a late write asks who has ever left.
MCView ==
  <<status, active, kicked, IF "overtake" \in env THEN left ELSE <<>>,
    call, place, handshake, speech, env>>

MCSymmetry == Permutations(Calls)
=============================================================================
