--------------------------- MODULE ResponseRounds ---------------------------
(***************************************************************************)
(* The TimeoutRunner with the threads that use it, tick after tick: the    *)
(* environment's thread starts a round (Trial::env_observed), the actors'  *)
(* threads answer (Trial::actor_acted) or leave                            *)
(* (Trial::actor_disengaging), and the action thread looks at the count    *)
(* each time it is signalled.                                              *)
(***************************************************************************)
EXTENDS TimeoutRunner

CONSTANTS TimedIds,     \* ids with a response timeout
          MaxRounds     \* bound: number of rounds

Env == "env"  \* the environment's thread, as a holder of the lock

ASSUME RoundsAssumption ==
  /\ TimedIds \subseteq Ids /\ MaxRounds \in Nat /\ NoLock # Env

VARIABLES round,      \* rounds begun
          answered,   \* ids that answered in this round
          expired,    \* ids counted by a timeout in this round
          left,       \* ids that left for good
          looked      \* the count the action thread saw when it last looked

clientVars == <<round, answered, expired, left, looked>>
vars == <<runnerVars, sigs, term, clientVars>>

TypeOK ==
  /\ RunnerTypeOK
  /\ round \in 0..MaxRounds /\ looked \in Nat
  /\ answered \in SUBSET Ids /\ expired \in SUBSET Ids /\ left \in SUBSET Ids

Init ==
  /\ RunnerInit /\ sigs = 0 /\ term = FALSE
  /\ round = 0 /\ answered = {} /\ expired = {} /\ left = {} /\ looked = 0

\* prepare_actors: the timeouts are registered before the first round.
Prepare == round = 0 /\ timed = {} /\ AddAll(TimedIds) /\ UNCHANGED clientVars

\* A new sample resets the count, then start() takes the lock.
Begin ==
  /\ round < MaxRounds /\ (round = 0 => timed = TimedIds)
  /\ StartBegin(Env)
  /\ round' = round + 1
  /\ sigs' = 0 /\ looked' = 0 /\ answered' = {} /\ expired' = {}
  /\ UNCHANGED <<term, left>>

\* The observations are out (prep_func has run): the round is timed.
Timed == StartEnd(Env) /\ UNCHANGED <<sigs, term, clientVars>>

\* At most one answer an entry and round: actor_acted drops the others.  An
\* answer may come after the entry's timeout elapsed.
Answer(i) ==
  /\ round > 0
  /\ i \notin answered \cup left
  /\ Signal(i)
  /\ answered' = answered \cup {i}
  /\ UNCHANGED <<round, expired, left, looked>>

Leave(i) ==
  /\ round > 0 /\ i \notin left
  /\ Remove(i) /\ left' = left \cup {i} /\ term' = TRUE
  /\ UNCHANGED <<sigs, round, answered, expired, looked>>

RunnerWakes == Wake /\ UNCHANGED clientVars

RunnerExpires ==
  /\ Expire
  /\ expired' = running \ signaled
  /\ UNCHANGED <<round, answered, left, looked>>

\* SimpleSignal::wait, then process_actions reads the count.
Look ==
  /\ term /\ term' = FALSE
  /\ looked' = sigs
  /\ UNCHANGED <<runnerVars, sigs, round, answered, expired, left>>

\* Nothing left to do: the last round is settled and seen.
Settled ==
  /\ round = MaxRounds /\ LockFree /\ running = {} /\ ~condSig /\ ~term
  /\ UNCHANGED vars

Next ==
  \/ Prepare \/ Begin \/ Timed \/ RunnerWakes \/ RunnerExpires \/ Look \/ Settled
  \/ \E i \in Ids : Answer(i) \/ Leave(i)

Spec == Init /\ [][Next]_vars

\* The threads keep running and the clock advances; no entry has to answer.
FairSpec ==
  /\ Spec
  /\ WF_vars(Timed) /\ WF_vars(RunnerWakes) /\ WF_vars(RunnerExpires) /\ WF_vars(Look)

-----------------------------------------------------------------------------
(* Properties                                                              *)

\* As long as no entry answers after it was given up on, each entry counts once:
\* a timeout adds nothing for an entry that answered before it, whichever part
\* of the list was already settled (rules 1 to 3 of the comment on signal()).
\* The hypothesis is needed: signal() counts a late answer again, rule 4 or not
\* (README, section 4).
SettlementsCounted ==
  answered \cap expired = {} => sigs = Cardinality(answered \cup expired)

\* A round never waits for an entry that left before it was timed, whichever
\* call to remove() came in between (TimeoutRunner::start purges m_timeouts).
GoneAreNotTimed == [][Timed => running' \cap left = {}]_vars

\* Whatever the entries do, the timer lets every round come to an end: all
\* the timed entries are accounted for and the action thread saw the count.
RoundEnds ==
  \A r \in 1..MaxRounds :
    round = r ~> \/ round > r
                 \/ /\ TimedIds \subseteq answered \cup expired \cup left
                    /\ looked = sigs

=============================================================================
