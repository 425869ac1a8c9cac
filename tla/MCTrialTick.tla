----------------------------- MODULE MCTrialTick -----------------------------
(* Two actors; the order of their response timeouts.                       *)
EXTENDS TrialTick

CONSTANTS a, b

MCActors == {a, b}
MCRank == [i \in MCActors |-> IF i = a THEN 1 ELSE 2]
OnlyA == {a}
OnlyB == {b}
Both == {a, b}
None == {}

\* Bound: where the end is requested, it is in time for the set before the last one; later
\* requests, which change nothing, are in the run that does not ask whether trials end.
InTime == state = "running" /\ tick < MaxSteps /\ (lastAction < tick \/ pc["act"] = "lock")
MCNext == Moves \/ (RequestEnd /\ InTime)
MCSpec == Init /\ [][MCNext]_vars /\ Fairness
=============================================================================
