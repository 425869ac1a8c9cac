----------------------- MODULE MCOrchestratorRegistry -----------------------
(* Two StartTrial calls with the same requested id, and two more of which   *)
(* one comes without a requested id, to choose from.                       *)
EXTENDS OrchestratorRegistry

CONSTANTS c1, c2, c3, k, v, w, id, other

SameId == {c1, c2}
OtherId == {c1, c3}
MCKillers == {k}
OneWatcher == {w}
TwoWatchers == {w, v}
MCIds == {id, other}
MCId == [c \in Clients |-> IF c = c3 THEN other ELSE id]
MCUnnamed == {c3} \cap Clients
OnlyC1 == {c1}
=============================================================================
