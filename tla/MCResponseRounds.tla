-------------------------- MODULE MCResponseRounds --------------------------
(* Three actors: two with a response timeout, one without.                 *)
EXTENDS ResponseRounds

CONSTANTS a, b, c

MCIds == {a, b, c}
MCTimedIds == {a, b}
MCRank == [i \in MCIds |-> CASE i = a -> 1 [] i = b -> 2 [] i = c -> 3]
=============================================================================
