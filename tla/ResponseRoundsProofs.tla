------------------------ MODULE ResponseRoundsProofs ------------------------
(***************************************************************************)
(* The response timer counts each entry once a round, late answers apart,  *)
(* and never times one that left, for any entries, timeouts and rounds.    *)
(***************************************************************************)
EXTENDS ResponseRounds, FiniteSetTheorems, TLAPS

\* The timer elapses once a round at most: from then on nothing runs until the next
\* observations are out, and while they go out the lock is held.
OneExpiry == running # {} \/ condLock = Env => expired = {}

\* Who left is out of the list, or is marked and makes the next start purge it.
GoneMarked ==
  /\ round = 0 => left = {}
  /\ \A i \in left \cap timed : ~sorted /\ i \in toRemove

\* Whoever answered late is in both sums.
Counted == sigs = Cardinality(answered) + Cardinality(expired)

IInv == TypeOK /\ OneExpiry /\ GoneMarked /\ Counted

-----------------------------------------------------------------------------
LEMMA SubsetCounts ==
  ASSUME RankAssumption, NEW S \in SUBSET Ids
  PROVE  IsFiniteSet(S) /\ Cardinality(S) \in Nat
BY FS_Subset, FS_CardinalityType DEF RankAssumption

LEMMA OneMore ==
  ASSUME RankAssumption, NEW S \in SUBSET Ids, NEW i \in Ids \ S
  PROVE  Cardinality(S \cup {i}) = Cardinality(S) + 1
BY SubsetCounts, FS_AddElement

LEMMA InitHolds == Init => IInv
<1> SUFFICES ASSUME Init PROVE IInv
  OBVIOUS
<1>1. TypeOK
  <2>1. sorted \in BOOLEAN /\ condSig \in BOOLEAN /\ term \in BOOLEAN
    BY DEF Init, RunnerInit
  <2>2. round \in 0..MaxRounds
    BY RoundsAssumption DEF Init
  <2>3. looked \in Nat /\ sigs \in Nat
    BY DEF Init
  <2>4. /\ timed \in SUBSET Ids /\ toRemove \in SUBSET Ids /\ running \in SUBSET timed
        /\ signaled \in SUBSET Ids /\ answered \in SUBSET Ids /\ expired \in SUBSET Ids
        /\ left \in SUBSET Ids
    BY DEF Init, RunnerInit
  <2> QED BY <2>1, <2>2, <2>3, <2>4 DEF TypeOK, RunnerTypeOK
<1>2. OneExpiry /\ GoneMarked /\ Counted
  BY FS_EmptySet DEF Init, RunnerInit, OneExpiry, GoneMarked, Counted
<1> QED BY <1>1, <1>2 DEF IInv

LEMMA TypeHolds == ASSUME IInv, [Next]_vars PROVE TypeOK'
<1> USE DEF IInv, TypeOK, RunnerTypeOK
<1>1. CASE Prepare
  BY <1>1, RoundsAssumption DEF Prepare, AddAll, clientVars
<1>2. CASE Begin
  BY <1>2, RoundsAssumption DEF Begin, StartBegin
<1>3. CASE Timed
  BY <1>3 DEF Timed, StartEnd, clientVars
<1>4. CASE RunnerWakes
  BY <1>4 DEF RunnerWakes, Wake, clientVars
<1>5. CASE RunnerExpires
  <2>1. Cardinality(running \ signaled) \in Nat /\ running \ signaled \in SUBSET Ids
    BY SubsetCounts, RankAssumption
  <2> QED BY <1>5, <2>1 DEF RunnerExpires, Expire
<1>6. CASE Look
  BY <1>6 DEF Look, runnerVars
<1>7. CASE UNCHANGED vars
  BY <1>7 DEF vars, runnerVars, clientVars
<1>8. ASSUME NEW i \in Ids, Answer(i) PROVE TypeOK'
  <2>1. running' \in SUBSET timed' /\ timed' \in SUBSET Ids /\ toRemove' \in SUBSET Ids
    BY <1>8 DEF Answer, Signal, Unsettled
  <2>2. signaled' \in SUBSET Ids /\ sigs' \in Nat /\ sorted' \in BOOLEAN
    BY <1>8 DEF Answer, Signal
  <2>3. CASE i \in running
    <3>1. condSig' = (condSig \/ IsBack(i)) /\ UNCHANGED term
      BY <1>8, <2>3 DEF Answer, Signal
    <3>2. condSig' \in BOOLEAN /\ term' \in BOOLEAN
      BY <3>1
    <3> QED BY <1>8, <2>1, <2>2, <3>2 DEF Answer
  <2>4. CASE i \notin running
    BY <1>8, <2>1, <2>2, <2>4 DEF Answer, Signal
  <2> QED BY <2>3, <2>4
<1>9. ASSUME NEW i \in Ids, Leave(i) PROVE TypeOK'
  BY <1>9 DEF Leave, Remove
<1> QED BY <1>1, <1>2, <1>3, <1>4, <1>5, <1>6, <1>7, <1>8, <1>9 DEF Next, Settled

LEMMA OneExpiryHolds == ASSUME IInv, [Next]_vars PROVE OneExpiry'
<1> USE RoundsAssumption DEF IInv, OneExpiry
<1>1. CASE Prepare
  BY <1>1 DEF Prepare, AddAll, clientVars
<1>2. CASE Begin
  BY <1>2 DEF Begin
<1>3. CASE Timed
  BY <1>3 DEF Timed, StartEnd, clientVars
<1>4. CASE RunnerWakes
  BY <1>4 DEF RunnerWakes, Wake, clientVars
<1>5. CASE RunnerExpires
  BY <1>5 DEF RunnerExpires, Expire, LockFree
<1>6. CASE Look
  BY <1>6 DEF Look, runnerVars
<1>7. CASE UNCHANGED vars
  BY <1>7 DEF vars, runnerVars, clientVars
<1>8. ASSUME NEW i \in Ids, Answer(i) PROVE OneExpiry'
  <2>1. running' # {} => running # {}
    BY <1>8 DEF Answer, Signal, Unsettled
  <2> QED BY <1>8, <2>1 DEF Answer, Signal
<1>9. ASSUME NEW i \in Ids, Leave(i) PROVE OneExpiry'
  BY <1>9 DEF Leave, Remove
<1> QED BY <1>1, <1>2, <1>3, <1>4, <1>5, <1>6, <1>7, <1>8, <1>9 DEF Next, Settled

LEMMA GoneMarkedHolds == ASSUME IInv, [Next]_vars PROVE GoneMarked'
<1> USE DEF IInv, GoneMarked
<1>1. CASE Prepare
  BY <1>1 DEF Prepare, AddAll, clientVars
<1>2. CASE Begin
  BY <1>2 DEF Begin, StartBegin, TypeOK
<1>3. CASE Timed
  BY <1>3 DEF Timed, StartEnd, clientVars
<1>4. CASE RunnerWakes
  BY <1>4 DEF RunnerWakes, Wake, clientVars
<1>5. CASE RunnerExpires
  BY <1>5 DEF RunnerExpires, Expire
<1>6. CASE Look
  BY <1>6 DEF Look, runnerVars
<1>7. CASE UNCHANGED vars
  BY <1>7 DEF vars, runnerVars, clientVars
<1>8. ASSUME NEW i \in Ids, Answer(i) PROVE GoneMarked'
  BY <1>8 DEF Answer, Signal
<1>9. ASSUME NEW i \in Ids, Leave(i) PROVE GoneMarked'
  BY <1>9 DEF Leave, Remove, TypeOK
<1> QED BY <1>1, <1>2, <1>3, <1>4, <1>5, <1>6, <1>7, <1>8, <1>9 DEF Next, Settled

LEMMA CountHolds == ASSUME IInv, [Next]_vars PROVE Counted'
<1> USE DEF IInv, Counted
<1>1. CASE Begin
  BY <1>1, FS_EmptySet DEF Begin
<1>2. CASE RunnerExpires
  <2>1. expired = {} /\ Cardinality(expired) = 0
    BY <1>2, FS_EmptySet DEF RunnerExpires, Expire, OneExpiry
  <2>2. Cardinality(answered) \in Nat
    BY SubsetCounts, RankAssumption DEF TypeOK
  <2>3. sigs' = sigs + Cardinality(expired') /\ UNCHANGED answered
    BY <1>2 DEF RunnerExpires, Expire
  <2>4. sigs = Cardinality(answered)
    BY <2>1, <2>2
  <2> QED BY <2>3, <2>4
<1>3. ASSUME NEW i \in Ids, Answer(i) PROVE Counted'
  <2>1. answered' = answered \cup {i} /\ sigs' = sigs + 1 /\ UNCHANGED expired
    BY <1>3 DEF Answer, Signal
  <2>2. Cardinality(answered') = Cardinality(answered) + 1
    BY <1>3, <2>1, OneMore, RankAssumption DEF Answer, TypeOK
  <2>3. Cardinality(answered) \in Nat /\ Cardinality(expired) \in Nat
    BY SubsetCounts, RankAssumption DEF TypeOK
  <2>4. sigs' = (Cardinality(answered) + Cardinality(expired)) + 1
    BY <2>1
  <2> QED BY <2>1, <2>2, <2>3, <2>4
<1>4. CASE Prepare \/ Timed \/ RunnerWakes \/ Look \/ (\E i \in Ids : Leave(i)) \/ UNCHANGED vars
  <2>1. UNCHANGED <<sigs, answered, expired>>
    BY <1>4 DEF Prepare, AddAll, Timed, RunnerWakes, Wake, Look, Leave, vars, clientVars
  <2> QED BY <2>1
<1> QED BY <1>1, <1>2, <1>3, <1>4 DEF Next, Settled

LEMMA NextHolds == IInv /\ [Next]_vars => IInv'
<1> SUFFICES ASSUME IInv, [Next]_vars PROVE IInv'
  OBVIOUS
<1> QED BY TypeHolds, OneExpiryHolds, GoneMarkedHolds, CountHolds DEF IInv

\* The count that the action thread compares with the number of entries counts each
\* entry of the round once, whatever the order of the answers, of the timeouts and of
\* the departures, as long as none answers after it was given up on.
THEOREM CountedAlways == Spec => []SettlementsCounted
<1>1. IInv => SettlementsCounted
  <2> SUFFICES ASSUME IInv, answered \cap expired = {}
               PROVE  sigs = Cardinality(answered \cup expired)
    BY DEF SettlementsCounted
  <2>1. answered \in SUBSET Ids /\ expired \in SUBSET Ids
    BY DEF IInv, TypeOK
  <2>2. /\ IsFiniteSet(answered) /\ Cardinality(answered) \in Nat
        /\ IsFiniteSet(expired) /\ Cardinality(expired) \in Nat
    BY <2>1, SubsetCounts, RankAssumption
  <2>3. Cardinality(answered \cup expired)
          = Cardinality(answered) + Cardinality(expired) - Cardinality(answered \cap expired)
    BY <2>2, FS_Union
  <2>4. Cardinality(answered \cap expired) = 0
    BY FS_EmptySet
  <2> QED BY <2>2, <2>3, <2>4 DEF IInv, Counted
<1> QED BY <1>1, InitHolds, NextHolds, PTL DEF Spec

\* No round is timed for an entry that left before it.
THEOREM GoneNeverTimed == Spec => GoneAreNotTimed
<1>1. IInv /\ [Next]_vars => [Timed => running' \cap left = {}]_vars
  <2> SUFFICES ASSUME IInv, Timed PROVE running' \cap left = {}
    OBVIOUS
  <2> QED BY DEF IInv, GoneMarked, Timed, StartEnd
<1> QED BY <1>1, InitHolds, NextHolds, PTL DEF Spec, GoneAreNotTimed
=============================================================================
