------------------------- MODULE MCMemoryDatastore -------------------------
(* Two trials of which one may be deleted, and one reader of either.       *)
EXTENDS MemoryDatastore

CONSTANTS a, b, r

TwoTrials == {a, b}
MCLast == [x \in Trials |-> IF x = a THEN 2 ELSE 1]
OneReader == {r}
OnlyB == {b}
None == {}
=============================================================================
