---------------------------- MODULE TrialProtocol ----------------------------
(***************************************************************************)
(* What a trial promises to its environment and to those who watch it,     *)
(* whatever its threads do: its life goes one way, and observations and    *)
(* actions take turns.                                                     *)
(***************************************************************************)
EXTENDS Naturals

VARIABLES state,     \* the state the watchers see
          observed,  \* sets of observations accepted from the environment
          answered   \* sets of actions sent to the environment

vars == <<state, observed, answered>>

Init == state = "initializing" /\ observed = 0 /\ answered = 0

Configured == state = "initializing" /\ state' = "pending" /\ UNCHANGED <<observed, answered>>

\* The first observations start the run; the next ones come one by one,
\* each after the actions that answer those before it.
FirstObservation ==
  state = "pending" /\ state' = "running" /\ observed' = 1 /\ UNCHANGED answered

Observation ==
  /\ state \in {"running", "terminating"} /\ answered = observed
  /\ observed' = observed + 1 /\ UNCHANGED <<state, answered>>

Actions ==
  /\ state \in {"running", "terminating"} /\ answered < observed
  /\ answered' = answered + 1 /\ UNCHANGED <<state, observed>>

Ending == state = "running" /\ state' = "terminating" /\ UNCHANGED <<observed, answered>>

Ended == state # "ended" /\ state' = "ended" /\ UNCHANGED <<observed, answered>>

Next == Configured \/ FirstObservation \/ Observation \/ Actions \/ Ending \/ Ended

Spec == Init /\ [][Next]_vars
=============================================================================
