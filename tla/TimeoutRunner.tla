---------------------------- MODULE TimeoutRunner ----------------------------
(***************************************************************************)
(* cogment::TimeoutRunner (orchestrator/lib/cogment/utils.{h,cpp}): the    *)
(* response timer of a trial.  It sleeps until the longest timeout of the  *)
(* entries that have not answered; if that one elapses, all the others     *)
(* have elapsed too.                                                       *)
(*                                                                         *)
(* The two callbacks given to set_funcs are the targets `sigs` (sig_func:  *)
(* one more response counted) and `term` (term_func: look at the count).   *)
(* The sorted vector m_timeouts and its prefix [0, m_running_size) are the *)
(* sets `timed` and `running`: the prefix is always closed downwards in    *)
(* the order Rank, and its back is its element of largest Rank.            *)
(***************************************************************************)
EXTENDS Naturals, FiniteSets

CONSTANTS Ids,      \* the entries' ids (actor indexes)
          Rank,     \* Rank[i]: place of i in the order of the timeouts
          NoLock    \* value of condLock when the mutex is free

ASSUME RankAssumption ==
  /\ IsFiniteSet(Ids) /\ Rank \in [Ids -> Nat]
  /\ \A i, j \in Ids : Rank[i] = Rank[j] => i = j

VARIABLES timed,      \* m_timeouts: the ids that have a timeout
          toRemove,   \* m_timeouts_to_remove: purged at the next start
          sorted,     \* m_sorted
          running,    \* the entries of the prefix m_running_size
          signaled,   \* ids whose Entry.signaled is set
          condSig,    \* m_cond_sig: the predicate of the condition variable
          condLock,   \* holder of m_cond_lock
          sigs,       \* the counter sig_func increments
          term        \* the signal term_func raises

runnerVars == <<timed, toRemove, sorted, running, signaled, condSig, condLock>>

RunnerTypeOK ==
  /\ timed \in SUBSET Ids /\ toRemove \in SUBSET Ids
  /\ running \in SUBSET timed /\ signaled \in SUBSET Ids
  /\ sorted \in BOOLEAN /\ condSig \in BOOLEAN
  /\ sigs \in Nat /\ term \in BOOLEAN

RunnerInit ==
  /\ timed = {} /\ toRemove = {} /\ sorted = FALSE
  /\ running = {} /\ signaled = {} /\ condSig = FALSE
  /\ condLock = NoLock

LockFree == condLock = NoLock

\* The back of the running prefix: the longest timeout still waited for.
IsBack(i) == i \in running /\ \A j \in running : Rank[j] <= Rank[i]

\* What is left of the prefix once its signaled back entries are dropped.
Unsettled(sig) == {i \in running : \E j \in running \ sig : Rank[i] <= Rank[j]}

-----------------------------------------------------------------------------
(* Calls made by other threads.                                            *)

\* add(): only made while the trial prepares its actors.
AddAll(S) ==
  /\ LockFree
  /\ timed' = timed \cup S
  /\ sorted' = FALSE
  /\ UNCHANGED <<toRemove, running, signaled, condSig, condLock, sigs, term>>

\* Mutant: the list is not marked for a purge.
RemoveUnmarked(i) ==
  /\ LockFree
  /\ toRemove' = toRemove \cup {i}
  /\ UNCHANGED <<timed, sorted, running, signaled, condSig, condLock>>

\* remove(): takes effect when the next round starts.
Remove(i) ==
  /\ LockFree
  /\ toRemove' = toRemove \cup {i}
  /\ sorted' = FALSE
  /\ UNCHANGED <<timed, running, signaled, condSig, condLock>>

\* start(): the lock is held while prep_func runs (StartBegin ... StartEnd).
StartBegin(t) ==
  /\ LockFree
  /\ condLock' = t
  /\ UNCHANGED <<timed, toRemove, sorted, running, signaled, condSig>>

\* Mutant: the runner is not notified of the new round.
StartEndSilently(t) ==
  /\ condLock = t
  /\ timed' = IF sorted THEN timed ELSE timed \ toRemove
  /\ toRemove' = IF sorted THEN toRemove ELSE {}
  /\ sorted' = TRUE
  /\ running' = timed'
  /\ condLock' = NoLock
  /\ UNCHANGED <<signaled, condSig>>

\* The list is purged if it changed, then everyone left in it is timed.
StartEnd(t) ==
  /\ condLock = t
  /\ timed' = IF sorted THEN timed ELSE timed \ toRemove
  /\ toRemove' = IF sorted THEN toRemove ELSE {}
  /\ sorted' = TRUE
  /\ signaled' = {}
  /\ running' = timed'
  /\ condSig' = TRUE
  /\ condLock' = NoLock

\* signal(): an entry that is timed waits for the others of its prefix; the
\* back of the prefix wakes the runner; any other response is announced at once.
Signal(i) ==
  /\ LockFree
  /\ sigs' = sigs + 1
  /\ IF i \in running
       THEN LET now == signaled \cup {i} IN
            /\ signaled' = now
            /\ running' = IF IsBack(i) THEN Unsettled(now) ELSE running
            /\ condSig' = (condSig \/ IsBack(i))
            /\ UNCHANGED term
       ELSE term' = TRUE /\ UNCHANGED <<signaled, running, condSig>>
  /\ UNCHANGED <<timed, toRemove, sorted, condLock>>

-----------------------------------------------------------------------------
(* The runner's thread: wait_next(), then do_next().                       *)

\* Woken through the condition variable.
Wake ==
  /\ LockFree /\ condSig
  /\ condSig' = FALSE
  /\ term' = (term \/ running = {})
  /\ UNCHANGED <<timed, toRemove, sorted, running, signaled, condLock, sigs>>

\* Mutant: the entries that did answer are counted too.
ExpireAll ==
  /\ LockFree /\ ~condSig /\ running # {}
  /\ sigs' = sigs + Cardinality(running)
  /\ running' = {}
  /\ term' = TRUE
  /\ UNCHANGED <<timed, toRemove, sorted, signaled, condSig, condLock>>

\* Mutant: the count is not announced.
ExpireSilently ==
  /\ LockFree /\ ~condSig /\ running # {}
  /\ sigs' = sigs + Cardinality(running \ signaled)
  /\ running' = {}
  /\ UNCHANGED <<timed, toRemove, sorted, signaled, condSig, condLock, term>>

\* The longest timeout elapsed: everyone missing is counted as answered.
Expire ==
  /\ LockFree /\ ~condSig /\ running # {}
  /\ sigs' = sigs + Cardinality(running \ signaled)
  /\ running' = {}
  /\ term' = TRUE
  /\ UNCHANGED <<timed, toRemove, sorted, signaled, condSig, condLock>>

=============================================================================
