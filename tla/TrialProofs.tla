---------------------------- MODULE TrialProofs ----------------------------
(***************************************************************************)
(* For any number of actors, any step limit and any choice of what may     *)
(* fail: every sample of a trial is given to the datalog, once and in      *)
(* order; an action ends in the sample of its tick; a trial follows        *)
(* TrialProtocol; the actors waited for are the engaged ones; no           *)
(* announcement that ends the wait for actions is lost.                    *)
(***************************************************************************)
EXTENDS TrialTick, FiniteSetTheorems, SequenceTheorems, TLAPS

-----------------------------------------------------------------------------
(* The operators on samples.                                               *)

\* Storing or clearing an action keeps a sequence of samples one.
LEMMA WithActionType ==
  ASSUME samples \in Seq(Sample), NEW k, NEW a \in Actors, NEW x \in Int
  PROVE  /\ WithAction(k, a, x) \in Seq(Sample)
         /\ Len(WithAction(k, a, x)) = Len(samples)
         /\ \A i \in 1..Len(samples) : WithAction(k, a, x)[i].tick = samples[i].tick
  <1>1. \A i \in 1..Len(samples) : samples[i] \in Sample
    OBVIOUS
  <1>2. \A i \in 1..Len(samples) :
          /\ [samples[i] EXCEPT !.acts[a] = x] \in Sample
          /\ [samples[i] EXCEPT !.acts[a] = x].tick = samples[i].tick
    BY <1>1 DEF Sample
  <1>3. QED
    BY <1>1, <1>2 DEF WithAction

\* The ticks of a sequence of samples are numbers, one for each.
LEMMA TicksType ==
  ASSUME NEW s \in Seq(Sample)
  PROVE  Ticks(s) \in Seq(Nat) /\ Len(Ticks(s)) = Len(s)
  <1>1. Len(s) \in Nat /\ \A i \in 1..Len(s) : s[i].tick \in Nat
    <2>1. Len(s) \in Nat /\ \A i \in 1..Len(s) : s[i] \in Sample
      OBVIOUS
    <2>2. QED
      BY <2>1 DEF Sample
  <1>2. Ticks(s) \in [1..Len(s) -> Nat]
    BY <1>1 DEF Ticks
  <1>3. QED
    BY <1>1, <1>2, SeqDef

\* A fresh sample has no actions.
LEMMA NewSampleType ==
  ASSUME NEW k \in Nat
  PROVE  NewSample(k) \in Sample
  BY DEF NewSample, Sample, NoData

\* There is someone to wait for.
LEMMA ActorsCount == Cardinality(Actors) \in Nat /\ Cardinality(Actors) > 0
  <1>1. IsFiniteSet(Actors) /\ Actors # {}
    BY ActorsAssumption
  <1>2. QED
    BY <1>1, FS_CardinalityType, FS_EmptySet

\* How many of the timed actors a timeout accounts for.
LEMMA ExpiredCount ==
  ASSUME running \in SUBSET Actors
  PROVE  Cardinality(running \ signaled) \in Nat
  <1>1. IsFiniteSet(Actors) /\ running \ signaled \subseteq Actors
    BY ActorsAssumption
  <1>2. QED
    BY <1>1, FS_Subset, FS_CardinalityType

-----------------------------------------------------------------------------
(* Types.                                                                  *)

\* A thread of the trial that disengages an actor knows which one.
VictimNamed ==
  \A t \in {"env", "start"} : pc[t] \in {"leave", "remove"} => victim[t] \in Actors

\* A step that leaves the variables of a part of TypeOK alone keeps that part.
LEMMA Frames ==
  /\ StateOK /\ UNCHANGED stateVars => StateOK'
  /\ CountsOK /\ UNCHANGED tickVars => CountsOK'
  /\ SamplesOK /\ UNCHANGED sampleVars => SamplesOK'
  /\ RunnerOK /\ UNCHANGED <<runnerVars, signalled>> => RunnerOK'
  /\ /\ ThreadsOK /\ VictimNamed /\ UNCHANGED <<lockVars, pc, localVars>>
     => ThreadsOK' /\ VictimNamed'
  /\ ComponentsOK /\ UNCHANGED <<actorVars, envVars>> => ComponentsOK'
  <1>1. StateOK /\ UNCHANGED stateVars => StateOK'
    BY DEF StateOK, stateVars
  <1>2. CountsOK /\ UNCHANGED tickVars => CountsOK'
    BY DEF CountsOK, tickVars
  <1>3. SamplesOK /\ UNCHANGED sampleVars => SamplesOK'
    BY DEF SamplesOK, sampleVars
  <1>4. RunnerOK /\ UNCHANGED <<runnerVars, signalled>> => RunnerOK'
    BY DEF RunnerOK, runnerVars
  <1>5. ThreadsOK /\ VictimNamed /\ UNCHANGED <<lockVars, pc, localVars>>
        => ThreadsOK' /\ VictimNamed'
    BY DEF ThreadsOK, VictimNamed, lockVars, localVars
  <1>6. ComponentsOK /\ UNCHANGED <<actorVars, envVars>> => ComponentsOK'
    BY DEF ComponentsOK, actorVars, envVars
  <1>7. QED
    BY <1>1, <1>2, <1>3, <1>4, <1>5, <1>6

\* Every variable keeps its type in every step of every thread.
LEMMA TypeStep == TypeOK /\ VictimNamed /\ [Next]_vars => TypeOK' /\ VictimNamed'
  <1> SUFFICES ASSUME TypeOK, VictimNamed, [Next]_vars
               PROVE  TypeOK' /\ VictimNamed'
    OBVIOUS
  <1> USE DEF TypeOK
  <1>1. CASE StartCheck
    <2>1. UNCHANGED <<stateVars, tickVars, sampleVars, runnerVars, signalled, actorVars,
          envVars>>
      BY <1>1 DEF StartCheck
    <2>2. ThreadsOK' /\ VictimNamed'
      BY <1>1, ActorsAssumption
      DEF StartCheck, ThreadsOK, lockVars, localVars, VictimNamed, Threads, ServiceThreads,
          Places, Goto
    <2>3. QED
      BY <2>1, <2>2, Frames DEF TypeOK
  <1>1f. CASE StartEnvFails
    <2>1. UNCHANGED <<stateVars, tickVars, sampleVars, runnerVars, signalled, actorVars,
          envVars>>
      BY <1>1f DEF StartEnvFails
    <2>2. ThreadsOK' /\ VictimNamed'
      BY <1>1f, ActorsAssumption
      DEF StartEnvFails, ThreadsOK, lockVars, localVars, VictimNamed, Threads, ServiceThreads,
          Places, Goto
    <2>3. QED
      BY <2>1, <2>2, Frames DEF TypeOK
  <1>2. CASE StartPrepare
    <2>1. UNCHANGED <<stateVars, actorVars, envVars>>
      BY <1>2 DEF StartPrepare
    <2>2. CountsOK'
      BY <1>2, ActorsCount DEF StartPrepare, CountsOK, tickVars
    <2>3. SamplesOK'
      BY <1>2, NewSampleType DEF StartPrepare, SamplesOK, sampleVars, CountsOK
    <2>4. RunnerOK'
      BY <1>2, ActorsAssumption DEF StartPrepare, RunnerOK, runnerVars
    <2>5. ThreadsOK' /\ VictimNamed'
      BY <1>2, ActorsAssumption
      DEF StartPrepare, ThreadsOK, lockVars, localVars, VictimNamed, Threads, ServiceThreads,
          Places, Goto
    <2>6. QED
      BY <2>1, <2>2, <2>3, <2>4, <2>5, Frames DEF TypeOK
  <1>3. CASE StartPend
    <2>1. UNCHANGED <<tickVars, sampleVars, runnerVars, signalled, actorVars, envVars>>
      BY <1>3 DEF StartPend
    <2>2. StateOK'
      BY <1>3 DEF StartPend, StateOK, stateVars, States
    <2>3. ThreadsOK' /\ VictimNamed'
      BY <1>3, ActorsAssumption
      DEF StartPend, ThreadsOK, lockVars, localVars, VictimNamed, Threads, ServiceThreads,
          Places, Goto
    <2>4. QED
      BY <2>1, <2>2, <2>3, Frames DEF TypeOK
  <1>4. ASSUME NEW a \in Actors, JoinTimeout(a)
        PROVE  TypeOK' /\ VictimNamed'
    <2>1. UNCHANGED <<stateVars, tickVars, sampleVars, runnerVars, signalled, actorVars,
          envVars>>
      BY <1>4 DEF JoinTimeout
    <2>2. ThreadsOK' /\ VictimNamed'
      BY <1>4, ActorsAssumption
      DEF JoinTimeout, ThreadsOK, lockVars, localVars, VictimNamed, Threads, ServiceThreads,
          Places, Goto
    <2>3. QED
      BY <2>1, <2>2, Frames DEF TypeOK
  <1>5. CASE StartEnv
    <2>1. UNCHANGED <<stateVars, tickVars, sampleVars, runnerVars, signalled>>
      BY <1>5 DEF StartEnv
    <2>2. ThreadsOK' /\ VictimNamed'
      BY <1>5, ActorsAssumption
      DEF StartEnv, ThreadsOK, lockVars, localVars, VictimNamed, Threads, ServiceThreads,
          Places, Goto
    <2>3. ComponentsOK'
      BY <1>5 DEF StartEnv, ComponentsOK, actorVars, envVars
    <2>4. QED
      BY <2>1, <2>2, <2>3, Frames DEF TypeOK
  <1>6. CASE EnvEnds
    <2>1. UNCHANGED <<stateVars, tickVars, sampleVars, runnerVars, signalled, lockVars, pc,
          localVars>>
      BY <1>6 DEF EnvEnds
    <2>2. ComponentsOK'
      BY <1>6 DEF EnvEnds, ComponentsOK, actorVars, envVars
    <2>3. QED
      BY <2>1, <2>2, Frames DEF TypeOK
  <1>7. CASE EnvObserved
    <2>1. UNCHANGED <<sampleVars, runnerVars, signalled>>
      BY <1>7 DEF EnvObserved
    <2>2. StateOK'
      BY <1>7 DEF EnvObserved, StateOK, stateVars, States
    <2>3. CountsOK'
      BY <1>7 DEF EnvObserved, CountsOK, tickVars
    <2>4. ThreadsOK' /\ VictimNamed'
      <3>1. CASE state = "pending"
        BY <1>7, <3>1, ActorsAssumption
        DEF EnvObserved, ThreadsOK, lockVars, localVars, VictimNamed, Threads, ServiceThreads, Places,
          Goto, Share, ComponentsOK
      <3>2. CASE ~(state = "pending")
        BY <1>7, <3>2, ActorsAssumption
        DEF EnvObserved, ThreadsOK, lockVars, localVars, VictimNamed, Threads, ServiceThreads, Places,
          Goto, Share, ComponentsOK
      <3>3. QED
        BY <3>1, <3>2
    <2>5. ComponentsOK'
      BY <1>7 DEF EnvObserved, ComponentsOK, actorVars, envVars
    <2>6. QED
      BY <2>1, <2>2, <2>3, <2>4, <2>5, Frames DEF TypeOK
  <1>8. CASE EnvSample
    <2>1. UNCHANGED <<stateVars, runnerVars, signalled, actorVars, envVars>>
      BY <1>8 DEF EnvSample
    <2>2. CountsOK'
      BY <1>8 DEF EnvSample, CountsOK, tickVars
    <2>3. SamplesOK'
      BY <1>8, NewSampleType DEF EnvSample, SamplesOK, sampleVars, CountsOK
    <2>4. ThreadsOK' /\ VictimNamed'
      BY <1>8, ActorsAssumption
      DEF EnvSample, ThreadsOK, lockVars, localVars, VictimNamed, Threads, ServiceThreads,
          Places, Goto
    <2>5. QED
      BY <2>1, <2>2, <2>3, <2>4, Frames DEF TypeOK
  <1>9. CASE EnvRespond
    <2>1. UNCHANGED <<stateVars, tickVars, sampleVars, actorVars, envVars>>
      BY <1>9 DEF EnvRespond
    <2>2. RunnerOK'
      BY <1>9 DEF EnvRespond, RunnerOK, runnerVars, Runner!StartBegin
    <2>3. ThreadsOK' /\ VictimNamed'
      BY <1>9, ActorsAssumption
      DEF EnvRespond, ThreadsOK, lockVars, localVars, VictimNamed, Threads, ServiceThreads,
          Places, Goto
    <2>4. QED
      BY <2>1, <2>2, <2>3, Frames DEF TypeOK
  <1>10. CASE EnvDispatch
    <2>1. UNCHANGED <<stateVars, tickVars, sampleVars, runnerVars, signalled>>
      BY <1>10 DEF EnvDispatch
    <2>2. ThreadsOK' /\ VictimNamed'
      BY <1>10, ActorsAssumption
      DEF EnvDispatch, ThreadsOK, lockVars, localVars, VictimNamed, Threads, ServiceThreads,
          Places, Goto
    <2>3. ComponentsOK'
      BY <1>10 DEF EnvDispatch, ComponentsOK, actorVars, envVars, Deliver, CountsOK
    <2>4. QED
      BY <2>1, <2>2, <2>3, Frames DEF TypeOK
  <1>11. ASSUME NEW a \in Actors, EnvWriteFails(a)
        PROVE  TypeOK' /\ VictimNamed'
    <2>1. UNCHANGED <<stateVars, tickVars, sampleVars, runnerVars, signalled>>
      BY <1>11 DEF EnvWriteFails
    <2>2. ThreadsOK' /\ VictimNamed'
      BY <1>11, ActorsAssumption
      DEF EnvWriteFails, ThreadsOK, lockVars, localVars, VictimNamed, Threads, ServiceThreads,
          Places, Goto
    <2>3. ComponentsOK'
      BY <1>11 DEF EnvWriteFails, ComponentsOK, actorVars, envVars, Deliver, CountsOK
    <2>4. QED
      BY <2>1, <2>2, <2>3, Frames DEF TypeOK
  <1>12. CASE EnvStarted
    <2>1. UNCHANGED <<stateVars, tickVars, sampleVars, actorVars, envVars>>
      BY <1>12 DEF EnvStarted
    <2>2. RunnerOK'
      BY <1>12 DEF EnvStarted, RunnerOK, runnerVars, Runner!StartEnd
    <2>3. ThreadsOK' /\ VictimNamed'
      BY <1>12, ActorsAssumption
      DEF EnvStarted, ThreadsOK, lockVars, localVars, VictimNamed, Threads, ServiceThreads,
          Places, Goto
    <2>4. QED
      BY <2>1, <2>2, <2>3, Frames DEF TypeOK
  <1>13. CASE EnvBalance
    <2>1. UNCHANGED <<stateVars, tickVars, runnerVars, signalled, actorVars, envVars>>
      BY <1>13 DEF EnvBalance
    <2>2. SamplesOK'
      <3> DEFINE over == IF Len(samples) >= NbBuffered THEN Len(samples) - NbBuffered + 1 ELSE 0
      <3>1. over \in 0..Len(samples)
        BY BoundsAssumption DEF SamplesOK
      <3>2. /\ SubSeq(samples, 1, over) \in Seq(Sample)
            /\ SubSeq(samples, over + 1, Len(samples)) \in Seq(Sample)
        BY <3>1 DEF SamplesOK
      <3>3. Ticks(SubSeq(samples, 1, over)) \in Seq(Nat)
        BY <3>2, TicksType
      <3>4. /\ log' = log \o Ticks(SubSeq(samples, 1, over))
            /\ samples' = SubSeq(samples, over + 1, Len(samples))
        BY <1>13 DEF EnvBalance
      <3>5. QED
        BY <3>2, <3>3, <3>4 DEF SamplesOK
    <2>3. ThreadsOK' /\ VictimNamed'
      BY <1>13, ActorsAssumption
      DEF EnvBalance, ThreadsOK, lockVars, localVars, VictimNamed, Threads, ServiceThreads,
          Places, Goto, Release
    <2>4. QED
      BY <2>1, <2>2, <2>3, Frames DEF TypeOK
  <1>14. CASE EnvFinish
    <2>1. UNCHANGED <<tickVars, sampleVars, runnerVars, signalled, actorVars, envVars>>
      BY <1>14 DEF EnvFinish
    <2>2. StateOK'
      BY <1>14 DEF EnvFinish, StateOK, stateVars, States
    <2>3. ThreadsOK' /\ VictimNamed'
      BY <1>14, ActorsAssumption
      DEF EnvFinish, ThreadsOK, lockVars, localVars, VictimNamed, Threads, ServiceThreads,
          Places, Goto, Release
    <2>4. QED
      BY <2>1, <2>2, <2>3, Frames DEF TypeOK
  <1>15. CASE EnvBreaks
    <2>1. UNCHANGED <<stateVars, tickVars, sampleVars, runnerVars, signalled, lockVars, pc,
          localVars>>
      BY <1>15 DEF EnvBreaks
    <2>2. ComponentsOK'
      BY <1>15 DEF EnvBreaks, ComponentsOK, actorVars, envVars
    <2>3. QED
      BY <2>1, <2>2, Frames DEF TypeOK
  <1>16. ASSUME NEW a \in Actors, Join(a)
        PROVE  TypeOK' /\ VictimNamed'
    <2>1. UNCHANGED <<stateVars, tickVars, sampleVars, runnerVars, signalled>>
      BY <1>16 DEF Join
    <2>2. ThreadsOK' /\ VictimNamed'
      BY <1>16, ActorsAssumption
      DEF Join, ThreadsOK, lockVars, localVars, VictimNamed, Threads, ServiceThreads, Places,
          Goto
    <2>3. ComponentsOK'
      BY <1>16 DEF Join, ComponentsOK, actorVars, envVars
    <2>4. QED
      BY <2>1, <2>2, <2>3, Frames DEF TypeOK
  <1>17. ASSUME NEW a \in Actors, ReadAction(a)
        PROVE  TypeOK' /\ VictimNamed'
    <2>1. UNCHANGED <<stateVars, tickVars, sampleVars, runnerVars, signalled>>
      BY <1>17 DEF ReadAction
    <2>2. ThreadsOK' /\ VictimNamed'
      <3>1. CASE state = "ended" \/ samples = <<>>
        <4>1. UNCHANGED <<lockVars, pc, localVars>>
          BY <1>17, <3>1 DEF ReadAction, lockVars, localVars
        <4>2. QED
          BY <4>1, Frames
      <3>2. CASE ~(state = "ended" \/ samples = <<>>)
        <4>1. Last(samples).tick \in Int
          <5>1. Last(samples) \in Sample
            BY <3>2 DEF SamplesOK, Last
          <5>2. QED
            BY <5>1 DEF Sample
        <4>2. PICK k \in seen[a] :
                /\ Share(a) /\ Goto(a, "record")
                /\ msg' = [msg EXCEPT ![a] = IF a \in AutoActors THEN AUTO ELSE k]
                /\ ptr' = [ptr EXCEPT ![a] = Last(samples).tick]
          BY <1>17, <3>2 DEF ReadAction
        <4>3. k \in Nat /\ AUTO \in Int
          BY DEF ComponentsOK, AUTO
        <4>4. msg' \in [Actors -> Int] /\ ptr' \in [Actors -> Int]
          BY <4>1, <4>2, <4>3 DEF ThreadsOK
        <4>5. UNCHANGED <<victim, toSend, isLast, lastSet>>
          BY <1>17 DEF ReadAction
        <4>6. QED
          BY <4>2, <4>4, <4>5, ActorsAssumption
          DEF ThreadsOK, VictimNamed, Threads, ServiceThreads, Places, Goto, Share
      <3>3. QED
        BY <3>1, <3>2
    <2>3. ComponentsOK'
      BY <1>17 DEF ReadAction, ComponentsOK, actorVars, envVars
    <2>4. QED
      BY <2>1, <2>2, <2>3, Frames DEF TypeOK
  <1>18. ASSUME NEW a \in Actors, RecordAction(a)
        PROVE  TypeOK' /\ VictimNamed'
    <2>1. UNCHANGED <<stateVars, tickVars, runnerVars, signalled, actorVars, envVars>>
      BY <1>18 DEF RecordAction
    <2>2. SamplesOK'
      BY <1>18, WithActionType DEF RecordAction, SamplesOK, sampleVars, ThreadsOK
    <2>3. ThreadsOK' /\ VictimNamed'
      BY <1>18, ActorsAssumption
      DEF RecordAction, ThreadsOK, lockVars, localVars, VictimNamed, Threads, ServiceThreads,
          Places, Goto
    <2>4. QED
      BY <2>1, <2>2, <2>3, Frames DEF TypeOK
  <1>19. ASSUME NEW a \in Actors, IgnoreAction(a)
        PROVE  TypeOK' /\ VictimNamed'
    <2>1. UNCHANGED <<stateVars, tickVars, sampleVars, runnerVars, signalled, actorVars,
          envVars>>
      BY <1>19 DEF IgnoreAction
    <2>2. ThreadsOK' /\ VictimNamed'
      BY <1>19, ActorsAssumption
      DEF IgnoreAction, ThreadsOK, lockVars, localVars, VictimNamed, Threads, ServiceThreads,
          Places, Goto, Return, NoData, Release
    <2>3. QED
      BY <2>1, <2>2, Frames DEF TypeOK
  <1>20. ASSUME NEW a \in Actors, SignalAction(a)
        PROVE  TypeOK' /\ VictimNamed'
    <2>1. UNCHANGED <<stateVars, sampleVars, actorVars, envVars>>
      BY <1>20 DEF SignalAction
    <2>2. CountsOK'
      BY <1>20 DEF SignalAction, CountsOK, tickVars, Runner!Signal
    <2>3. RunnerOK'
      BY <1>20, ActorsAssumption
      DEF SignalAction, RunnerOK, runnerVars, Runner!Signal, Runner!Unsettled
    <2>4. ThreadsOK' /\ VictimNamed'
      BY <1>20, ActorsAssumption
      DEF SignalAction, ThreadsOK, lockVars, localVars, VictimNamed, Threads, ServiceThreads,
          Places, Goto, Return, NoData, Release
    <2>5. QED
      BY <2>1, <2>2, <2>3, <2>4, Frames DEF TypeOK
  <1>21. ASSUME NEW a \in Actors, StreamBreaks(a)
        PROVE  TypeOK' /\ VictimNamed'
    <2>1. UNCHANGED <<stateVars, tickVars, sampleVars, runnerVars, signalled, lockVars, pc,
          localVars>>
      BY <1>21 DEF StreamBreaks
    <2>2. ComponentsOK'
      BY <1>21 DEF StreamBreaks, ComponentsOK, actorVars, envVars
    <2>3. QED
      BY <2>1, <2>2, Frames DEF TypeOK
  <1>22. ASSUME NEW a \in Actors, StreamEnds(a)
        PROVE  TypeOK' /\ VictimNamed'
    <2>1. UNCHANGED <<stateVars, tickVars, sampleVars, runnerVars, signalled, actorVars,
          envVars>>
      BY <1>22 DEF StreamEnds
    <2>2. ThreadsOK' /\ VictimNamed'
      BY <1>22, ActorsAssumption
      DEF StreamEnds, ThreadsOK, lockVars, localVars, VictimNamed, Threads, ServiceThreads,
          Places, Goto
    <2>3. QED
      BY <2>1, <2>2, Frames DEF TypeOK
  <1>22i. ASSUME NEW a \in Actors, InitFails(a)
        PROVE  TypeOK' /\ VictimNamed'
    <2>1. UNCHANGED <<stateVars, tickVars, sampleVars, runnerVars, signalled>>
      BY <1>22i DEF InitFails
    <2>2. ThreadsOK' /\ VictimNamed'
      BY <1>22i, ActorsAssumption
      DEF InitFails, ThreadsOK, lockVars, localVars, VictimNamed, Threads, ServiceThreads,
          Places, Goto
    <2>3. ComponentsOK'
      BY <1>22i DEF InitFails, ComponentsOK, envVars
    <2>4. QED
      BY <2>1, <2>2, <2>3, Frames DEF TypeOK
  <1>23. ASSUME NEW t \in Actors \cup {"env", "start"}, Disengage(t)
        PROVE  TypeOK' /\ VictimNamed'
    <2>1. UNCHANGED <<stateVars, tickVars, runnerVars, signalled>>
      BY <1>23 DEF Disengage
    <2>2. SamplesOK'
      BY <1>23, WithActionType
      DEF Disengage, SamplesOK, sampleVars, NoData, Last, Leaver, VictimNamed
    <2>3. ThreadsOK' /\ VictimNamed'
      <3>1. PICK place \in {"remove", "dispatch", "join", "gone"} : pc' = [pc EXCEPT ![t] = place]
        BY <1>23 DEF Disengage, AfterLeave, Goto
      <3>2. (place = "remove" /\ pc[t] = "leave") \/ place \notin {"leave", "remove"}
        BY <1>23, <3>1 DEF Disengage
      <3>3. UNCHANGED <<lockVars, localVars>>
        BY <1>23 DEF Disengage
      <3>4. QED
        BY <3>1, <3>2, <3>3, ActorsAssumption
        DEF ThreadsOK, VictimNamed, Threads, ServiceThreads, Places, lockVars, localVars
    <2>4. ComponentsOK'
      BY <1>23 DEF Disengage, ComponentsOK, actorVars, envVars, Leaver, VictimNamed
    <2>5. QED
      BY <2>1, <2>2, <2>3, <2>4, Frames DEF TypeOK
  <1>24. ASSUME NEW t \in Actors \cup {"env", "start"}, RemoveActor(t)
        PROVE  TypeOK' /\ VictimNamed'
    <2>1. UNCHANGED <<stateVars, sampleVars, actorVars, envVars>>
      BY <1>24 DEF RemoveActor
    <2>2. CountsOK'
      BY <1>24 DEF RemoveActor, CountsOK, tickVars
    <2>3. RunnerOK'
      BY <1>24 DEF RemoveActor, RunnerOK, runnerVars, Runner!Remove, Leaver, VictimNamed
    <2>4. ThreadsOK' /\ VictimNamed'
      BY <1>24, ActorsAssumption
      DEF RemoveActor, ThreadsOK, lockVars, localVars, VictimNamed, Threads, ServiceThreads,
          Places, Goto, Leaver, AfterLeave
    <2>5. QED
      BY <2>1, <2>2, <2>3, <2>4, Frames DEF TypeOK
  <1>25. CASE RunnerWakes
    <2>1. UNCHANGED <<stateVars, sampleVars, lockVars, pc, localVars, actorVars, envVars>>
      BY <1>25 DEF RunnerWakes
    <2>2. CountsOK'
      BY <1>25 DEF RunnerWakes, CountsOK, tickVars, Runner!Wake
    <2>3. RunnerOK'
      BY <1>25 DEF RunnerWakes, RunnerOK, runnerVars, Runner!Wake
    <2>4. QED
      BY <2>1, <2>2, <2>3, Frames DEF TypeOK
  <1>26. CASE RunnerExpires
    <2>1. UNCHANGED <<stateVars, sampleVars, lockVars, pc, localVars, actorVars, envVars>>
      BY <1>26 DEF RunnerExpires
    <2>2. CountsOK'
      <3>1. Cardinality(running \ signaled) \in Nat
        BY ExpiredCount DEF RunnerOK
      <3>2. acted' = acted + Cardinality(running \ signaled)
        BY <1>26 DEF RunnerExpires, Runner!Expire, Cardinality, Runner!Cardinality
      <3>3. UNCHANGED <<tick, available, lastAction>>
        BY <1>26 DEF RunnerExpires
      <3>4. QED
        BY <3>1, <3>2, <3>3 DEF CountsOK
    <2>3. RunnerOK'
      BY <1>26 DEF RunnerExpires, RunnerOK, runnerVars, Runner!Expire
    <2>4. QED
      BY <2>1, <2>2, <2>3, Frames DEF TypeOK
  <1>27. CASE ActWait
    <2>1. UNCHANGED <<stateVars, tickVars, sampleVars, actorVars, envVars>>
      BY <1>27 DEF ActWait
    <2>2. RunnerOK'
      BY <1>27 DEF ActWait, RunnerOK, runnerVars
    <2>3. ThreadsOK' /\ VictimNamed'
      BY <1>27, ActorsAssumption
      DEF ActWait, ThreadsOK, lockVars, localVars, VictimNamed, Threads, ServiceThreads, Places,
          Goto
    <2>4. QED
      BY <2>1, <2>2, <2>3, Frames DEF TypeOK
  <1>28. CASE ActCount
    <2>1. UNCHANGED <<stateVars, tickVars, sampleVars, runnerVars, signalled, actorVars,
          envVars>>
      BY <1>28 DEF ActCount
    <2>2. ThreadsOK' /\ VictimNamed'
      BY <1>28, ActorsAssumption
      DEF ActCount, ThreadsOK, lockVars, localVars, VictimNamed, Threads, ServiceThreads,
          Places, Goto
    <2>3. QED
      BY <2>1, <2>2, Frames DEF TypeOK
  <1>29. CASE ActClaim
    <2>1. UNCHANGED <<stateVars, sampleVars, runnerVars, signalled, actorVars, envVars>>
      BY <1>29 DEF ActClaim
    <2>2. CountsOK'
      BY <1>29 DEF ActClaim, CountsOK, tickVars
    <2>3. ThreadsOK' /\ VictimNamed'
      BY <1>29, ActorsAssumption
      DEF ActClaim, ThreadsOK, lockVars, localVars, VictimNamed, Threads, ServiceThreads,
          Places, Goto
    <2>4. QED
      BY <2>1, <2>2, <2>3, Frames DEF TypeOK
  <1>30. CASE ActLock
    <2>1. UNCHANGED <<tickVars, sampleVars, runnerVars, signalled, actorVars, envVars>>
      BY <1>30 DEF ActLock
    <2>2. StateOK'
      BY <1>30 DEF ActLock, StateOK, stateVars, States
    <2>3. ThreadsOK' /\ VictimNamed'
      <3>1. PICK place \in {"wait", "terminate", "send"} : pc' = [pc EXCEPT !["act"] = place]
        BY <1>30 DEF ActLock, Goto
      <3>2. lastSet' \in BOOLEAN
        BY <1>30 DEF ActLock, ThreadsOK, StateOK
      <3>3. excl' = excl /\ shared' \in {shared, shared \cup {"act"}}
        BY <1>30 DEF ActLock, Share, lockVars
      <3>4. UNCHANGED <<victim, toSend, isLast, msg, ptr>>
        BY <1>30 DEF ActLock
      <3>5. QED
        BY <3>1, <3>2, <3>3, <3>4, ActorsAssumption
        DEF ThreadsOK, VictimNamed, Threads, ServiceThreads, Places
    <2>4. QED
      BY <2>1, <2>2, <2>3, Frames DEF TypeOK
  <1>31. CASE ActSend
    <2>1. UNCHANGED <<stateVars, tickVars, sampleVars, runnerVars, signalled>>
      BY <1>31 DEF ActSend
    <2>2. ThreadsOK' /\ VictimNamed'
      BY <1>31, ActorsAssumption
      DEF ActSend, ThreadsOK, lockVars, localVars, VictimNamed, Threads, ServiceThreads, Places,
          Goto, Release
    <2>3. ComponentsOK'
      BY <1>31 DEF ActSend, ComponentsOK, actorVars, envVars, ActionSet, Given, Filled, CountsOK
    <2>4. QED
      BY <2>1, <2>2, <2>3, Frames DEF TypeOK
  <1>32. CASE ActFails
    <2>1. UNCHANGED <<stateVars, tickVars, sampleVars, runnerVars, signalled, actorVars,
          envVars>>
      BY <1>32 DEF ActFails
    <2>2. ThreadsOK' /\ VictimNamed'
      BY <1>32, ActorsAssumption
      DEF ActFails, ThreadsOK, lockVars, localVars, VictimNamed, Threads, ServiceThreads,
          Places, Goto, Release
    <2>3. QED
      BY <2>1, <2>2, Frames DEF TypeOK
  <1>32w. CASE ActWriteFails
    <2>1. UNCHANGED <<stateVars, tickVars, sampleVars, runnerVars, signalled>>
      BY <1>32w DEF ActWriteFails
    <2>2. ThreadsOK' /\ VictimNamed'
      <3>1. PICK p \in {"wait", "terminate"} : pc' = [pc EXCEPT !["act"] = p]
        BY <1>32w DEF ActWriteFails, Goto
      <3>2. pc' \in [Threads -> Places]
        BY <3>1 DEF ThreadsOK, Places
      <3>3. /\ shared' = shared \ {"act"} /\ lastSet' = FALSE
            /\ UNCHANGED <<excl, victim, toSend, isLast, msg, ptr>>
        BY <1>32w DEF ActWriteFails, Release
      <3>4. VictimNamed'
        BY <3>1, <3>3, ActorsAssumption DEF VictimNamed, ThreadsOK, Threads, ServiceThreads
      <3>5. QED
        BY <3>2, <3>3, <3>4 DEF ThreadsOK
    <2>3. ComponentsOK'
      BY <1>32w DEF ActWriteFails, ComponentsOK, actorVars, ThreadsOK
    <2>4. QED
      BY <2>1, <2>2, <2>3, Frames DEF TypeOK
  <1>33. CASE RequestEnd
    <2>1. UNCHANGED <<tickVars, sampleVars, runnerVars, signalled, lockVars, pc, localVars,
          actorVars, envVars>>
      BY <1>33 DEF RequestEnd
    <2>2. StateOK'
      BY <1>33 DEF RequestEnd, StateOK, stateVars, States
    <2>3. QED
      BY <2>1, <2>2, Frames DEF TypeOK
  <1>34. CASE Kill
    <2>1. UNCHANGED <<stateVars, tickVars, sampleVars, runnerVars, signalled, actorVars,
          envVars>>
      BY <1>34 DEF Kill
    <2>2. ThreadsOK' /\ VictimNamed'
      BY <1>34, ActorsAssumption
      DEF Kill, ThreadsOK, lockVars, localVars, VictimNamed, Threads, ServiceThreads, Places,
          Goto
    <2>3. QED
      BY <2>1, <2>2, Frames DEF TypeOK
  <1>35. ASSUME NEW t \in {"act", "start", "rpc"}, Terminate(t)
        PROVE  TypeOK' /\ VictimNamed'
    <2>1. UNCHANGED <<tickVars, sampleVars, runnerVars, signalled, actorVars, envVars>>
      BY <1>35 DEF Terminate
    <2>2. StateOK'
      BY <1>35 DEF Terminate, StateOK, stateVars, States
    <2>3. ThreadsOK' /\ VictimNamed'
      BY <1>35, ActorsAssumption
      DEF Terminate, ThreadsOK, lockVars, localVars, VictimNamed, Threads, ServiceThreads,
          Places, Goto, AfterTerminate
    <2>4. QED
      BY <2>1, <2>2, <2>3, Frames DEF TypeOK
  <1>36. ASSUME NEW t \in {"act", "start", "rpc"}, TerminateStreams(t)
        PROVE  TypeOK' /\ VictimNamed'
    <2>1. UNCHANGED <<stateVars, tickVars, sampleVars, runnerVars, signalled>>
      BY <1>36 DEF TerminateStreams
    <2>2. ThreadsOK' /\ VictimNamed'
      BY <1>36, ActorsAssumption
      DEF TerminateStreams, ThreadsOK, lockVars, localVars, VictimNamed, Threads,
          ServiceThreads, Places, Goto
    <2>3. ComponentsOK'
      BY <1>36 DEF TerminateStreams, ComponentsOK, actorVars, envVars
    <2>4. QED
      BY <2>1, <2>2, <2>3, Frames DEF TypeOK
  <1>37. ASSUME NEW t \in {"act", "start", "rpc"}, TerminateEnd(t)
        PROVE  TypeOK' /\ VictimNamed'
    <2>1. UNCHANGED <<tickVars, runnerVars, signalled, actorVars, envVars>>
      BY <1>37 DEF TerminateEnd
    <2>2. StateOK'
      BY <1>37 DEF TerminateEnd, StateOK, stateVars, States, SetEnded
    <2>3. SamplesOK'
      <3>1. Ticks(samples) \in Seq(Nat)
        BY TicksType DEF SamplesOK
      <3>2. QED
        <4>1. CASE state = "ended"
          BY <1>37, <4>1 DEF TerminateEnd, SamplesOK, SetEnded
        <4>2. CASE state # "ended"
          <5>1. samples' = <<>> /\ log' = log \o Ticks(samples)
            BY <1>37, <4>2 DEF TerminateEnd, SetEnded
          <5>2. QED
            BY <3>1, <5>1 DEF SamplesOK
        <4>3. QED
          BY <4>1, <4>2
    <2>4. ThreadsOK' /\ VictimNamed'
      BY <1>37, ActorsAssumption
      DEF TerminateEnd, ThreadsOK, lockVars, localVars, VictimNamed, Threads, ServiceThreads,
          Places, Goto, AfterTerminate
    <2>5. QED
      BY <2>1, <2>2, <2>3, <2>4, Frames DEF TypeOK
  <1>38. CASE Finalize
    <2>1. UNCHANGED <<stateVars, tickVars, sampleVars, runnerVars, signalled>>
      BY <1>38 DEF Finalize
    <2>2. ThreadsOK' /\ VictimNamed'
      BY <1>38, ActorsAssumption
      DEF Finalize, ThreadsOK, lockVars, localVars, VictimNamed, Threads, ServiceThreads,
          Places, Goto
    <2>3. ComponentsOK'
      BY <1>38 DEF Finalize, ComponentsOK, actorVars, envVars
    <2>4. QED
      BY <2>1, <2>2, <2>3, Frames DEF TypeOK
  <1>39. CASE FinishEnd
    <2>1. UNCHANGED <<tickVars, runnerVars, signalled, actorVars, envVars>>
      BY <1>39 DEF FinishEnd
    <2>2. StateOK'
      BY <1>39 DEF FinishEnd, StateOK, stateVars, States, SetEnded
    <2>3. SamplesOK'
      <3>1. Ticks(samples) \in Seq(Nat)
        BY TicksType DEF SamplesOK
      <3>2. QED
        <4>1. CASE state = "ended"
          BY <1>39, <4>1 DEF FinishEnd, SamplesOK, SetEnded
        <4>2. CASE state # "ended"
          <5>1. samples' = <<>> /\ log' = log \o Ticks(samples)
            BY <1>39, <4>2 DEF FinishEnd, SetEnded
          <5>2. QED
            BY <3>1, <5>1 DEF SamplesOK
        <4>3. QED
          BY <4>1, <4>2
    <2>4. ThreadsOK' /\ VictimNamed'
      BY <1>39, ActorsAssumption
      DEF FinishEnd, ThreadsOK, lockVars, localVars, VictimNamed, Threads, ServiceThreads,
          Places, Goto
    <2>5. QED
      BY <2>1, <2>2, <2>3, <2>4, Frames DEF TypeOK
  <1>40. CASE UNCHANGED vars
    <2>1. UNCHANGED <<stateVars, tickVars, sampleVars, runnerVars, signalled, lockVars, pc,
                      localVars, actorVars, envVars>>
      BY <1>40 DEF vars
    <2>2. QED
      BY <2>1, Frames DEF TypeOK
  <1>41. QED
    BY <1>1f, <1>22i, <1>32w, <1>1, <1>2, <1>3, <1>4, <1>5, <1>6, <1>7, <1>8, <1>9, <1>10, <1>11, <1>12, <1>13, <1>14,
       <1>15, <1>16, <1>17, <1>18, <1>19, <1>20, <1>21, <1>22, <1>23, <1>24, <1>25, <1>26,
       <1>27, <1>28, <1>29, <1>30, <1>31, <1>32, <1>33, <1>34, <1>35, <1>36, <1>37, <1>38,
       <1>39, <1>40
    DEF Next, Moves, Start, EnvThread, ActThread, FinThread, ActorThread, Leaving, Terminating,
        Finished

\* A trial is created with every variable of its type.
LEMMA TypeInit == Init => TypeOK /\ VictimNamed
  <1> SUFFICES ASSUME Init
               PROVE  TypeOK /\ VictimNamed
    OBVIOUS
  <1>0. StateOK
    BY DEF Init, StateOK, States
  <1>1. CountsOK
    BY SMT DEF Init, CountsOK
  <1>2. SamplesOK
    BY EmptySeq DEF Init, SamplesOK
  <1>3. RunnerOK
    BY DEF Init, RunnerOK, Runner!RunnerInit
  <1>4. pc \in [Threads -> Places] /\ pc["env"] = "idle" /\ pc["start"] = "check"
    BY DEF Init, Threads, ServiceThreads, Places
  <1>5. victim \in [{"env", "start"} -> Actors \cup {Nobody}]
    BY DEF Init
  <1>6. msg \in [Actors -> Int] /\ ptr \in [Actors -> Int]
    BY DEF Init, NoData
  <1>7. ThreadsOK /\ VictimNamed
    BY <1>4, <1>5, <1>6 DEF Init, ThreadsOK, VictimNamed
  <1>8. ComponentsOK
    BY EmptySeq DEF Init, ComponentsOK
  <1>9. QED
    BY <1>0, <1>1, <1>2, <1>3, <1>7, <1>8 DEF TypeOK

\* What the threads share and own keeps its type, in every trial.
THEOREM TypeInvariant == Spec => []TypeOK
  BY TypeInit, TypeStep, PTL DEF Spec

-----------------------------------------------------------------------------
(* Wake-ups.                                                               *)

\* While start() prepares the trial no other thread has anything to do; the
\* environment's thread only exists once the starting thread is done.
Begun ==
  /\ pc["start"] \in {"check", "prepare", "pend"} =>
       /\ pc["act"] = "wait" /\ \A a \in Actors : pc[a] = "idle"
       /\ ~signalled /\ ~condSig /\ running = {} /\ acted = 0
  /\ pc["start"] = "pend" => available = Cardinality(Actors)
  /\ state = "initializing" => pc["start"] \in {"check", "prepare", "pend"}
  /\ pc["start"] # "idle" => pc["env"] = "idle"

\* Every step keeps it.
LEMMA BegunStep == TypeOK /\ Begun /\ [Next]_vars => Begun'
  <1> SUFFICES ASSUME TypeOK, Begun, [Next]_vars
               PROVE  Begun'
    OBVIOUS
  <1>a. pc \in [Threads -> Places]
    BY DEF TypeOK, ThreadsOK
  <1>1. CASE StartCheck
    BY <1>1, <1>a, ActorsAssumption
    DEF StartCheck, Goto, Begun, Threads, ServiceThreads, stateVars, tickVars, runnerVars
  <1>1f. CASE StartEnvFails
    BY <1>1f, <1>a, ActorsAssumption
    DEF StartEnvFails, Goto, Begun, Threads, ServiceThreads, stateVars, tickVars, runnerVars
  <1>2. CASE StartPrepare
    BY <1>2, <1>a, ActorsAssumption
    DEF StartPrepare, Goto, Begun, Threads, ServiceThreads, stateVars
  <1>3. CASE StartPend
    BY <1>3, <1>a, ActorsAssumption
    DEF StartPend, Goto, Begun, Threads, ServiceThreads, tickVars, runnerVars
  <1>4. ASSUME NEW a \in Actors, JoinTimeout(a)
        PROVE  Begun'
    BY <1>4, <1>a, ActorsAssumption
    DEF JoinTimeout, Goto, Begun, Threads, ServiceThreads, stateVars, tickVars, runnerVars
  <1>5. CASE StartEnv
    BY <1>5, <1>a, ActorsAssumption
    DEF StartEnv, Goto, Begun, Threads, ServiceThreads, stateVars, tickVars, runnerVars
  <1>6. CASE EnvEnds
    BY <1>6, <1>a, ActorsAssumption
    DEF EnvEnds, Goto, Begun, Threads, ServiceThreads, stateVars, tickVars, runnerVars
  <1>7. CASE EnvObserved
    BY <1>7, <1>a, ActorsAssumption
    DEF EnvObserved, Goto, Begun, Threads, ServiceThreads, runnerVars
  <1>8. CASE EnvSample
    BY <1>8, <1>a, ActorsAssumption
    DEF EnvSample, Goto, Begun, Threads, ServiceThreads, stateVars, runnerVars
  <1>9. CASE EnvRespond
    BY <1>9, <1>a, ActorsAssumption
    DEF EnvRespond, Runner!StartBegin, Goto, Begun, Threads, ServiceThreads, stateVars, tickVars
  <1>10. CASE EnvDispatch
    BY <1>10, <1>a, ActorsAssumption
    DEF EnvDispatch, Goto, Begun, Threads, ServiceThreads, stateVars, tickVars, runnerVars
  <1>11. ASSUME NEW a \in Actors, EnvWriteFails(a)
        PROVE  Begun'
    BY <1>11, <1>a, ActorsAssumption
    DEF EnvWriteFails, Goto, Begun, Threads, ServiceThreads, stateVars, tickVars, runnerVars
  <1>12. CASE EnvStarted
    BY <1>12, <1>a, ActorsAssumption
    DEF EnvStarted, Runner!StartEnd, Goto, Begun, Threads, ServiceThreads, stateVars, tickVars
  <1>13. CASE EnvBalance
    BY <1>13, <1>a, ActorsAssumption
    DEF EnvBalance, Goto, Begun, Threads, ServiceThreads, stateVars, tickVars, runnerVars
  <1>14. CASE EnvFinish
    BY <1>14, <1>a, ActorsAssumption
    DEF EnvFinish, Goto, Begun, Threads, ServiceThreads, tickVars, runnerVars
  <1>15. CASE EnvBreaks
    BY <1>15, <1>a, ActorsAssumption
    DEF EnvBreaks, Goto, Begun, Threads, ServiceThreads, stateVars, tickVars, runnerVars
  <1>16. ASSUME NEW a \in Actors, Join(a)
        PROVE  Begun'
    BY <1>16, <1>a, ActorsAssumption
    DEF Join, Goto, Begun, Threads, ServiceThreads, stateVars, tickVars, runnerVars
  <1>17. ASSUME NEW a \in Actors, ReadAction(a)
        PROVE  Begun'
    BY <1>17, <1>a, ActorsAssumption
    DEF ReadAction, Goto, Begun, Threads, ServiceThreads, stateVars, tickVars, runnerVars
  <1>18. ASSUME NEW a \in Actors, RecordAction(a)
        PROVE  Begun'
    BY <1>18, <1>a, ActorsAssumption
    DEF RecordAction, Goto, Begun, Threads, ServiceThreads, stateVars, tickVars, runnerVars
  <1>19. ASSUME NEW a \in Actors, IgnoreAction(a)
        PROVE  Begun'
    BY <1>19, <1>a, ActorsAssumption
    DEF IgnoreAction, Return, Goto, Begun, Threads, ServiceThreads, stateVars, tickVars,
        runnerVars
  <1>20. ASSUME NEW a \in Actors, SignalAction(a)
        PROVE  Begun'
    BY <1>20, <1>a, ActorsAssumption
    DEF SignalAction, Runner!Signal, Runner!LockFree, Return, Goto, Begun, Threads,
        ServiceThreads, stateVars
  <1>21. ASSUME NEW a \in Actors, StreamBreaks(a)
        PROVE  Begun'
    BY <1>21, <1>a, ActorsAssumption
    DEF StreamBreaks, Goto, Begun, Threads, ServiceThreads, stateVars, tickVars, runnerVars
  <1>22. ASSUME NEW a \in Actors, StreamEnds(a)
        PROVE  Begun'
    BY <1>22, <1>a, ActorsAssumption
    DEF StreamEnds, Goto, Begun, Threads, ServiceThreads, stateVars, tickVars, runnerVars
  <1>22i. ASSUME NEW a \in Actors, InitFails(a)
        PROVE  Begun'
    BY <1>22i, <1>a, ActorsAssumption
    DEF InitFails, Goto, Begun, Threads, ServiceThreads, stateVars, tickVars, runnerVars
  <1>23. ASSUME NEW t \in Actors \cup {"env", "start"}, Disengage(t)
        PROVE  Begun'
    BY <1>23, <1>a, ActorsAssumption
    DEF Disengage, Leaver, AfterLeave, Goto, Begun, Threads, ServiceThreads, stateVars,
        tickVars, runnerVars
  <1>24. ASSUME NEW t \in Actors \cup {"env", "start"}, RemoveActor(t)
        PROVE  Begun'
    BY <1>24, <1>a, ActorsAssumption
    DEF RemoveActor, Runner!Remove, Leaver, AfterLeave, Goto, Begun, Threads, ServiceThreads,
        stateVars
  <1>25. CASE RunnerWakes
    BY <1>25, <1>a, ActorsAssumption
    DEF RunnerWakes, Runner!Wake, Goto, Begun, Threads, ServiceThreads, stateVars
  <1>26. CASE RunnerExpires
    BY <1>26, <1>a, ActorsAssumption
    DEF RunnerExpires, Runner!Expire, Goto, Begun, Threads, ServiceThreads, stateVars
  <1>27. CASE ActWait
    BY <1>27, <1>a, ActorsAssumption
    DEF ActWait, Goto, Begun, Threads, ServiceThreads, stateVars, tickVars, runnerVars
  <1>28. CASE ActCount
    BY <1>28, <1>a, ActorsAssumption
    DEF ActCount, Goto, Begun, Threads, ServiceThreads, stateVars, tickVars, runnerVars
  <1>29. CASE ActClaim
    BY <1>29, <1>a, ActorsAssumption
    DEF ActClaim, Goto, Begun, Threads, ServiceThreads, stateVars, runnerVars
  <1>30. CASE ActLock
    BY <1>30, <1>a, ActorsAssumption
    DEF ActLock, Goto, Begun, Threads, ServiceThreads, tickVars, runnerVars
  <1>31. CASE ActSend
    BY <1>31, <1>a, ActorsAssumption
    DEF ActSend, Goto, Begun, Threads, ServiceThreads, stateVars, tickVars, runnerVars
  <1>32. CASE ActFails
    BY <1>32, <1>a, ActorsAssumption
    DEF ActFails, Goto, Begun, Threads, ServiceThreads, stateVars, tickVars, runnerVars
  <1>32w. CASE ActWriteFails
    BY <1>32w, <1>a, ActorsAssumption
    DEF ActWriteFails, Goto, Begun, Threads, ServiceThreads, stateVars, tickVars, runnerVars
  <1>33. CASE RequestEnd
    BY <1>33, <1>a, ActorsAssumption
    DEF RequestEnd, Goto, Begun, Threads, ServiceThreads, tickVars, runnerVars
  <1>34. CASE Kill
    BY <1>34, <1>a, ActorsAssumption
    DEF Kill, Goto, Begun, Threads, ServiceThreads, stateVars, tickVars, runnerVars
  <1>35. ASSUME NEW t \in {"act", "start", "rpc"}, Terminate(t)
        PROVE  Begun'
    BY <1>35, <1>a, ActorsAssumption
    DEF Terminate, AfterTerminate, Goto, Begun, Threads, ServiceThreads, tickVars, runnerVars
  <1>36. ASSUME NEW t \in {"act", "start", "rpc"}, TerminateStreams(t)
        PROVE  Begun'
    BY <1>36, <1>a, ActorsAssumption
    DEF TerminateStreams, Goto, Begun, Threads, ServiceThreads, stateVars, tickVars, runnerVars
  <1>37. ASSUME NEW t \in {"act", "start", "rpc"}, TerminateEnd(t)
        PROVE  Begun'
    BY <1>37, <1>a, ActorsAssumption
    DEF TerminateEnd, SetEnded, AfterTerminate, Goto, Begun, Threads, ServiceThreads, tickVars,
        runnerVars
  <1>38. CASE Finalize
    BY <1>38, <1>a, ActorsAssumption
    DEF Finalize, Goto, Begun, Threads, ServiceThreads, stateVars, tickVars, runnerVars
  <1>39. CASE FinishEnd
    BY <1>39, <1>a, ActorsAssumption
    DEF FinishEnd, SetEnded, Goto, Begun, Threads, ServiceThreads, tickVars, runnerVars
  <1>40. CASE UNCHANGED vars
    BY <1>40 DEF vars, stateVars, tickVars, runnerVars, Begun, Threads, ServiceThreads
  <1>41. QED
    BY <1>1f, <1>22i, <1>32w, <1>1, <1>2, <1>3, <1>4, <1>5, <1>6, <1>7, <1>8, <1>9, <1>10, <1>11, <1>12, <1>13, <1>14,
       <1>15, <1>16, <1>17, <1>18, <1>19, <1>20, <1>21, <1>22, <1>23, <1>24, <1>25, <1>26,
       <1>27, <1>28, <1>29, <1>30, <1>31, <1>32, <1>33, <1>34, <1>35, <1>36, <1>37, <1>38,
       <1>39, <1>40
    DEF Next, Moves, Start, EnvThread, ActThread, FinThread, ActorThread, Leaving, Terminating,
        Finished

\* A new trial is still being prepared.
LEMMA BegunInit == Init => Begun
  BY ActorsAssumption DEF Init, Runner!RunnerInit, Begun, Threads, ServiceThreads

\* No step loses a wake-up: a count that gets complete is announced by the step
\* that completes it, and only the action thread clears the announcement.
LEMMA WakeStep == TypeOK /\ Begun /\ NoLostWakeup /\ [Next]_vars => NoLostWakeup'
  <1> SUFFICES ASSUME TypeOK, Begun, NoLostWakeup, [Next]_vars
               PROVE  NoLostWakeup'
    OBVIOUS
  <1>a. pc \in [Threads -> Places] /\ signalled \in BOOLEAN /\ condSig \in BOOLEAN
    BY DEF TypeOK, ThreadsOK, RunnerOK
  <1>b. tick \in Nat /\ acted \in Nat /\ available \in Int /\ lastAction \in Int
    BY DEF TypeOK, CountsOK
  <1>1. CASE StartCheck
    BY <1>1, <1>a, <1>b, ActorsAssumption, ActorsCount
    DEF StartCheck, Goto, NoLostWakeup, Begun, Threads, ServiceThreads, stateVars, tickVars,
        runnerVars, localVars
  <1>1f. CASE StartEnvFails
    BY <1>1f, <1>a, <1>b, ActorsAssumption, ActorsCount
    DEF StartEnvFails, Goto, NoLostWakeup, Begun, Threads, ServiceThreads, stateVars, tickVars,
        runnerVars, localVars
  <1>2. CASE StartPrepare
    BY <1>2, <1>a, <1>b, ActorsAssumption, ActorsCount
    DEF StartPrepare, Goto, NoLostWakeup, Begun, Threads, ServiceThreads, stateVars, localVars
  <1>3. CASE StartPend
    BY <1>3, <1>a, <1>b, ActorsAssumption, ActorsCount
    DEF StartPend, Goto, NoLostWakeup, Begun, Threads, ServiceThreads, tickVars, runnerVars,
        localVars
  <1>4. ASSUME NEW a \in Actors, JoinTimeout(a)
        PROVE  NoLostWakeup'
    BY <1>4, <1>a, <1>b, ActorsAssumption, ActorsCount
    DEF JoinTimeout, Goto, NoLostWakeup, Begun, Threads, ServiceThreads, stateVars, tickVars,
        runnerVars
  <1>5. CASE StartEnv
    BY <1>5, <1>a, <1>b, ActorsAssumption, ActorsCount
    DEF StartEnv, Goto, NoLostWakeup, Begun, Threads, ServiceThreads, stateVars, tickVars,
        runnerVars, localVars
  <1>6. CASE EnvEnds
    BY <1>6, <1>a, <1>b, ActorsAssumption, ActorsCount
    DEF EnvEnds, Goto, NoLostWakeup, Begun, Threads, ServiceThreads, stateVars, tickVars,
        runnerVars, localVars
  <1>7. CASE EnvObserved
    BY <1>7, <1>a, <1>b, ActorsAssumption, ActorsCount
    DEF EnvObserved, Goto, NoLostWakeup, Begun, Threads, ServiceThreads, runnerVars
  <1>8. CASE EnvSample
    BY <1>8, <1>a, <1>b, ActorsAssumption, ActorsCount
    DEF EnvSample, Goto, NoLostWakeup, Begun, Threads, ServiceThreads, stateVars, runnerVars,
        localVars
  <1>9. CASE EnvRespond
    BY <1>9, <1>a, <1>b, ActorsAssumption, ActorsCount
    DEF EnvRespond, Runner!StartBegin, Goto, NoLostWakeup, Begun, Threads, ServiceThreads,
        stateVars, tickVars
  <1>10. CASE EnvDispatch
    BY <1>10, <1>a, <1>b, ActorsAssumption, ActorsCount
    DEF EnvDispatch, Goto, NoLostWakeup, Begun, Threads, ServiceThreads, stateVars, tickVars,
        runnerVars
  <1>11. ASSUME NEW a \in Actors, EnvWriteFails(a)
        PROVE  NoLostWakeup'
    BY <1>11, <1>a, <1>b, ActorsAssumption, ActorsCount
    DEF EnvWriteFails, Goto, NoLostWakeup, Begun, Threads, ServiceThreads, stateVars, tickVars,
        runnerVars
  <1>12. CASE EnvStarted
    BY <1>12, <1>a, <1>b, ActorsAssumption, ActorsCount
    DEF EnvStarted, Runner!StartEnd, Goto, NoLostWakeup, Begun, Threads, ServiceThreads,
        stateVars, tickVars, localVars
  <1>13. CASE EnvBalance
    BY <1>13, <1>a, <1>b, ActorsAssumption, ActorsCount
    DEF EnvBalance, Goto, NoLostWakeup, Begun, Threads, ServiceThreads, stateVars, tickVars,
        runnerVars, localVars
  <1>14. CASE EnvFinish
    BY <1>14, <1>a, <1>b, ActorsAssumption, ActorsCount
    DEF EnvFinish, Goto, NoLostWakeup, Begun, Threads, ServiceThreads, tickVars, runnerVars,
        localVars
  <1>15. CASE EnvBreaks
    BY <1>15, <1>a, <1>b, ActorsAssumption, ActorsCount
    DEF EnvBreaks, Goto, NoLostWakeup, Begun, Threads, ServiceThreads, stateVars, tickVars,
        runnerVars, localVars
  <1>16. ASSUME NEW a \in Actors, Join(a)
        PROVE  NoLostWakeup'
    BY <1>16, <1>a, <1>b, ActorsAssumption, ActorsCount
    DEF Join, Goto, NoLostWakeup, Begun, Threads, ServiceThreads, stateVars, tickVars,
        runnerVars, localVars
  <1>17. ASSUME NEW a \in Actors, ReadAction(a)
        PROVE  NoLostWakeup'
    BY <1>17, <1>a, <1>b, ActorsAssumption, ActorsCount
    DEF ReadAction, Goto, NoLostWakeup, Begun, Threads, ServiceThreads, stateVars, tickVars,
        runnerVars
  <1>18. ASSUME NEW a \in Actors, RecordAction(a)
        PROVE  NoLostWakeup'
    BY <1>18, <1>a, <1>b, ActorsAssumption, ActorsCount
    DEF RecordAction, Goto, NoLostWakeup, Begun, Threads, ServiceThreads, stateVars, tickVars,
        runnerVars, localVars
  <1>19. ASSUME NEW a \in Actors, IgnoreAction(a)
        PROVE  NoLostWakeup'
    BY <1>19, <1>a, <1>b, ActorsAssumption, ActorsCount
    DEF IgnoreAction, Return, Goto, NoLostWakeup, Begun, Threads, ServiceThreads, stateVars,
        tickVars, runnerVars
  <1>20. ASSUME NEW a \in Actors, SignalAction(a)
        PROVE  NoLostWakeup'
    BY <1>20, <1>a, <1>b, ActorsAssumption, ActorsCount
    DEF SignalAction, Runner!Signal, Runner!LockFree, Return, Goto, NoLostWakeup, Begun,
        Threads, ServiceThreads, stateVars
  <1>21. ASSUME NEW a \in Actors, StreamBreaks(a)
        PROVE  NoLostWakeup'
    BY <1>21, <1>a, <1>b, ActorsAssumption, ActorsCount
    DEF StreamBreaks, Goto, NoLostWakeup, Begun, Threads, ServiceThreads, stateVars, tickVars,
        runnerVars, localVars
  <1>22. ASSUME NEW a \in Actors, StreamEnds(a)
        PROVE  NoLostWakeup'
    BY <1>22, <1>a, <1>b, ActorsAssumption, ActorsCount
    DEF StreamEnds, Goto, NoLostWakeup, Begun, Threads, ServiceThreads, stateVars, tickVars,
        runnerVars, localVars
  <1>22i. ASSUME NEW a \in Actors, InitFails(a)
        PROVE  NoLostWakeup'
    BY <1>22i, <1>a, <1>b, ActorsAssumption, ActorsCount
    DEF InitFails, Goto, NoLostWakeup, Begun, Threads, ServiceThreads, stateVars, tickVars,
        runnerVars, localVars
  <1>23. ASSUME NEW t \in Actors \cup {"env", "start"}, Disengage(t)
        PROVE  NoLostWakeup'
    BY <1>23, <1>a, <1>b, ActorsAssumption, ActorsCount
    DEF Disengage, Leaver, AfterLeave, Goto, NoLostWakeup, Begun, Threads, ServiceThreads,
        stateVars, tickVars, runnerVars, localVars
  <1>24. ASSUME NEW t \in Actors \cup {"env", "start"}, RemoveActor(t)
        PROVE  NoLostWakeup'
    BY <1>24, <1>a, <1>b, ActorsAssumption, ActorsCount
    DEF RemoveActor, Runner!Remove, Leaver, AfterLeave, Goto, NoLostWakeup, Begun, Threads,
        ServiceThreads, stateVars, localVars
  <1>25. CASE RunnerWakes
    BY <1>25, <1>a, <1>b, ActorsAssumption, ActorsCount
    DEF RunnerWakes, Runner!Wake, Goto, NoLostWakeup, Begun, Threads, ServiceThreads, stateVars,
        localVars
  <1>26. CASE RunnerExpires
    <2>1. signalled'
      BY <1>26 DEF RunnerExpires, Runner!Expire
    <2>2. QED
      BY <2>1 DEF NoLostWakeup
  <1>27. CASE ActWait
    BY <1>27, <1>a, <1>b, ActorsAssumption, ActorsCount
    DEF ActWait, Goto, NoLostWakeup, Begun, Threads, ServiceThreads, stateVars, tickVars,
        runnerVars, localVars
  <1>28. CASE ActCount
    BY <1>28, <1>a, <1>b, ActorsAssumption, ActorsCount
    DEF ActCount, Goto, NoLostWakeup, Begun, Threads, ServiceThreads, stateVars, tickVars,
        runnerVars, localVars
  <1>29. CASE ActClaim
    BY <1>29, <1>a, <1>b, ActorsAssumption, ActorsCount
    DEF ActClaim, Goto, NoLostWakeup, Begun, Threads, ServiceThreads, stateVars, runnerVars,
        localVars
  <1>30. CASE ActLock
    <2>1. pc["act"] = "lock" /\ pc'["env"] = pc["env"]
      BY <1>30, <1>a, ActorsAssumption DEF ActLock, Goto, Threads, ServiceThreads
    <2>2. \/ state' = state
          \/ state' = "terminating" /\ state \notin {"ended", "pending"}
      BY <1>30 DEF ActLock
    <2>3. state \in States /\ state # "initializing"
      BY <2>1, <1>a DEF TypeOK, StateOK, Begun, Threads, ServiceThreads
    <2>4. UNCHANGED <<tickVars, signalled, runnerVars, isLast>>
      BY <1>30 DEF ActLock
    <2>5. QED
      BY <2>1, <2>2, <2>3, <2>4 DEF NoLostWakeup, States, tickVars, runnerVars
  <1>31. CASE ActSend
    BY <1>31, <1>a, <1>b, ActorsAssumption, ActorsCount
    DEF ActSend, Goto, NoLostWakeup, Begun, Threads, ServiceThreads, stateVars, tickVars,
        runnerVars
  <1>32. CASE ActFails
    BY <1>32, <1>a, <1>b, ActorsAssumption, ActorsCount
    DEF ActFails, Goto, NoLostWakeup, Begun, Threads, ServiceThreads, stateVars, tickVars,
        runnerVars
  <1>32w. CASE ActWriteFails
    BY <1>32w, <1>a, <1>b, ActorsAssumption, ActorsCount
    DEF ActWriteFails, Goto, NoLostWakeup, Begun, Threads, ServiceThreads, stateVars, tickVars,
        runnerVars
  <1>33. CASE RequestEnd
    BY <1>33, <1>a, <1>b, ActorsAssumption, ActorsCount
    DEF RequestEnd, Goto, NoLostWakeup, Begun, Threads, ServiceThreads, tickVars, runnerVars,
        localVars
  <1>34. CASE Kill
    BY <1>34, <1>a, <1>b, ActorsAssumption, ActorsCount
    DEF Kill, Goto, NoLostWakeup, Begun, Threads, ServiceThreads, stateVars, tickVars,
        runnerVars, localVars
  <1>35. ASSUME NEW t \in {"act", "start", "rpc"}, Terminate(t)
        PROVE  NoLostWakeup'
    BY <1>35, <1>a, <1>b, ActorsAssumption, ActorsCount
    DEF Terminate, AfterTerminate, Goto, NoLostWakeup, Begun, Threads, ServiceThreads, tickVars,
        runnerVars, localVars
  <1>36. ASSUME NEW t \in {"act", "start", "rpc"}, TerminateStreams(t)
        PROVE  NoLostWakeup'
    BY <1>36, <1>a, <1>b, ActorsAssumption, ActorsCount
    DEF TerminateStreams, Goto, NoLostWakeup, Begun, Threads, ServiceThreads, stateVars,
        tickVars, runnerVars, localVars
  <1>37. ASSUME NEW t \in {"act", "start", "rpc"}, TerminateEnd(t)
        PROVE  NoLostWakeup'
    BY <1>37, <1>a, <1>b, ActorsAssumption, ActorsCount
    DEF TerminateEnd, SetEnded, AfterTerminate, Goto, NoLostWakeup, Begun, Threads,
        ServiceThreads, tickVars, runnerVars, localVars
  <1>38. CASE Finalize
    BY <1>38, <1>a, <1>b, ActorsAssumption, ActorsCount
    DEF Finalize, Goto, NoLostWakeup, Begun, Threads, ServiceThreads, stateVars, tickVars,
        runnerVars, localVars
  <1>39. CASE FinishEnd
    BY <1>39, <1>a, <1>b, ActorsAssumption, ActorsCount
    DEF FinishEnd, SetEnded, Goto, NoLostWakeup, Begun, Threads, ServiceThreads, tickVars,
        runnerVars, localVars
  <1>40. CASE UNCHANGED vars
    BY <1>40
    DEF vars, stateVars, tickVars, runnerVars, localVars, NoLostWakeup, Begun, Threads,
        ServiceThreads
  <1>41. QED
    BY <1>1f, <1>22i, <1>32w, <1>1, <1>2, <1>3, <1>4, <1>5, <1>6, <1>7, <1>8, <1>9, <1>10, <1>11, <1>12, <1>13, <1>14,
       <1>15, <1>16, <1>17, <1>18, <1>19, <1>20, <1>21, <1>22, <1>23, <1>24, <1>25, <1>26,
       <1>27, <1>28, <1>29, <1>30, <1>31, <1>32, <1>33, <1>34, <1>35, <1>36, <1>37, <1>38,
       <1>39, <1>40
    DEF Next, Moves, Start, EnvThread, ActThread, FinThread, ActorThread, Leaving, Terminating,
        Finished

\* A tick that can be decided is going to be, in every trial: the action thread
\* never waits for an announcement that was already made and lost.
THEOREM WakeupNotLost == Spec => []NoLostWakeup
  <1>1. Init => NoLostWakeup
    BY DEF Init, NoLostWakeup
  <1>2. QED
    BY <1>1, TypeInit, TypeStep, BegunInit, BegunStep, WakeStep, PTL DEF Spec

-----------------------------------------------------------------------------
(* Who may be at work on the samples.                                      *)

\* Where env_observed is between two accesses to shared state.
Observing == {"sample", "observe", "dispatch", "leave", "remove", "sent", "balance"}

\* env_observed holds m_terminating_lock shared, terminate() exclusively; finish()'s
\* thread does not take it, but no observations are taken after the last ones.
Locks ==
  /\ pc["env"] \in {"idle", "read"} \cup Observing
  /\ pc["env"] \in Observing => "env" \in shared
  /\ excl # Nobody => shared = {}
  /\ \A t \in {"act", "start", "rpc"} : pc[t] \in {"end", "ended"} => excl = t
  /\ pc["fin"] \in {"finalize", "ended"} => isLast /\ pc["env"] = "read"

\* Every step keeps it.
LEMMA LocksStep == TypeOK /\ Begun /\ Locks /\ [Next]_vars => Locks'
  <1> SUFFICES ASSUME TypeOK, Begun, Locks, [Next]_vars
               PROVE  Locks'
    OBVIOUS
  <1>a. pc \in [Threads -> Places]
    BY DEF TypeOK, ThreadsOK
  <1>1. CASE StartCheck
    BY <1>1, <1>a, ActorsAssumption
    DEF StartCheck, Goto, Threads, ServiceThreads, stateVars, tickVars, runnerVars, lockVars,
        localVars, Share, Release, Return, Locks, Observing
  <1>1f. CASE StartEnvFails
    BY <1>1f, <1>a, ActorsAssumption
    DEF StartEnvFails, Goto, Threads, ServiceThreads, stateVars, tickVars, runnerVars, lockVars,
        localVars, Share, Release, Return, Locks, Observing
  <1>2. CASE StartPrepare
    BY <1>2, <1>a, ActorsAssumption
    DEF StartPrepare, Goto, Threads, ServiceThreads, stateVars, lockVars, localVars, Share,
        Release, Return, Locks, Observing
  <1>3. CASE StartPend
    BY <1>3, <1>a, ActorsAssumption
    DEF StartPend, Goto, Threads, ServiceThreads, tickVars, runnerVars, lockVars, localVars,
        Share, Release, Return, Locks, Observing
  <1>4. ASSUME NEW a \in Actors, JoinTimeout(a) PROVE Locks'
    BY <1>4, <1>a, ActorsAssumption
    DEF JoinTimeout, Goto, Threads, ServiceThreads, stateVars, tickVars, runnerVars, lockVars,
        localVars, Share, Release, Return, Locks, Observing
  <1>5. CASE StartEnv
    BY <1>5, <1>a, ActorsAssumption
    DEF StartEnv, Begun, Goto, Threads, ServiceThreads, stateVars, tickVars, runnerVars, lockVars,
        localVars, Share, Release, Return, Locks, Observing
  <1>6. CASE EnvEnds
    BY <1>6, <1>a, ActorsAssumption
    DEF EnvEnds, Goto, Threads, ServiceThreads, stateVars, tickVars, runnerVars, lockVars,
        localVars, Share, Release, Return, Locks, Observing
  <1>7. CASE EnvObserved
    BY <1>7, <1>a, ActorsAssumption
    DEF EnvObserved, Begun, Goto, Threads, ServiceThreads, runnerVars, lockVars, localVars, Share,
        Release, Return, Locks, Observing
  <1>8. CASE EnvSample
    BY <1>8, <1>a, ActorsAssumption
    DEF EnvSample, Goto, Threads, ServiceThreads, stateVars, runnerVars, lockVars, localVars,
        Share, Release, Return, Locks, Observing
  <1>9. CASE EnvRespond
    BY <1>9, <1>a, ActorsAssumption
    DEF EnvRespond, Runner!StartBegin, Goto, Threads, ServiceThreads, stateVars, tickVars,
        lockVars, localVars, Share, Release, Return, Locks, Observing
  <1>10. CASE EnvDispatch
    BY <1>10, <1>a, ActorsAssumption
    DEF EnvDispatch, Goto, Threads, ServiceThreads, stateVars, tickVars, runnerVars, lockVars,
        localVars, Share, Release, Return, Locks, Observing
  <1>11. ASSUME NEW a \in Actors, EnvWriteFails(a) PROVE Locks'
    BY <1>11, <1>a, ActorsAssumption
    DEF EnvWriteFails, Goto, Threads, ServiceThreads, stateVars, tickVars, runnerVars,
        lockVars, localVars, Share, Release, Return, Locks, Observing
  <1>12. CASE EnvStarted
    BY <1>12, <1>a, ActorsAssumption
    DEF EnvStarted, Runner!StartEnd, Goto, Threads, ServiceThreads, stateVars, tickVars,
        lockVars, localVars, Share, Release, Return, Locks, Observing
  <1>13. CASE EnvBalance
    BY <1>13, <1>a, ActorsAssumption
    DEF EnvBalance, Goto, Threads, ServiceThreads, stateVars, tickVars, runnerVars, lockVars,
        localVars, Share, Release, Return, Locks, Observing
  <1>14. CASE EnvFinish
    BY <1>14, <1>a, ActorsAssumption
    DEF EnvFinish, Goto, Threads, ServiceThreads, tickVars, runnerVars, lockVars, localVars,
        Share, Release, Return, Locks, Observing
  <1>15. CASE EnvBreaks
    BY <1>15, <1>a, ActorsAssumption
    DEF EnvBreaks, Goto, Threads, ServiceThreads, stateVars, tickVars, runnerVars, lockVars,
        localVars, Share, Release, Return, Locks, Observing
  <1>16. ASSUME NEW a \in Actors, Join(a) PROVE Locks'
    BY <1>16, <1>a, ActorsAssumption
    DEF Join, Goto, Threads, ServiceThreads, stateVars, tickVars, runnerVars, lockVars,
        localVars, Share, Release, Return, Locks, Observing
  <1>17. ASSUME NEW a \in Actors, ReadAction(a) PROVE Locks'
    BY <1>17, <1>a, ActorsAssumption
    DEF ReadAction, Goto, Threads, ServiceThreads, stateVars, tickVars, runnerVars, lockVars,
        localVars, Share, Release, Return, Locks, Observing
  <1>18. ASSUME NEW a \in Actors, RecordAction(a) PROVE Locks'
    BY <1>18, <1>a, ActorsAssumption
    DEF RecordAction, Goto, Threads, ServiceThreads, stateVars, tickVars, runnerVars,
        lockVars, localVars, Share, Release, Return, Locks, Observing
  <1>19. ASSUME NEW a \in Actors, IgnoreAction(a) PROVE Locks'
    BY <1>19, <1>a, ActorsAssumption
    DEF IgnoreAction, Return, Goto, Threads, ServiceThreads, stateVars, tickVars, runnerVars,
        lockVars, localVars, Share, Release, Locks, Observing
  <1>20. ASSUME NEW a \in Actors, SignalAction(a) PROVE Locks'
    BY <1>20, <1>a, ActorsAssumption
    DEF SignalAction, Runner!Signal, Runner!LockFree, Return, Goto, Threads, ServiceThreads,
        stateVars, lockVars, localVars, Share, Release, Locks, Observing
  <1>21. ASSUME NEW a \in Actors, StreamBreaks(a) PROVE Locks'
    BY <1>21, <1>a, ActorsAssumption
    DEF StreamBreaks, Goto, Threads, ServiceThreads, stateVars, tickVars, runnerVars,
        lockVars, localVars, Share, Release, Return, Locks, Observing
  <1>22. ASSUME NEW a \in Actors, StreamEnds(a) PROVE Locks'
    BY <1>22, <1>a, ActorsAssumption
    DEF StreamEnds, Goto, Threads, ServiceThreads, stateVars, tickVars, runnerVars, lockVars,
        localVars, Share, Release, Return, Locks, Observing
  <1>22i. ASSUME NEW a \in Actors, InitFails(a) PROVE Locks'
    BY <1>22i, <1>a, ActorsAssumption
    DEF InitFails, Goto, Threads, ServiceThreads, stateVars, tickVars, runnerVars, lockVars,
        localVars, Share, Release, Return, Locks, Observing
  <1>23. ASSUME NEW t \in Actors \cup {"env", "start"}, Disengage(t) PROVE Locks'
    BY <1>23, <1>a, ActorsAssumption
    DEF Disengage, Leaver, AfterLeave, Goto, Threads, ServiceThreads, stateVars, tickVars,
        runnerVars, lockVars, localVars, Share, Release, Return, Locks, Observing
  <1>24. ASSUME NEW t \in Actors \cup {"env", "start"}, RemoveActor(t) PROVE Locks'
    BY <1>24, <1>a, ActorsAssumption
    DEF RemoveActor, Runner!Remove, Leaver, AfterLeave, Goto, Threads, ServiceThreads,
        stateVars, lockVars, localVars, Share, Release, Return, Locks, Observing
  <1>25. CASE RunnerWakes
    BY <1>25, <1>a, ActorsAssumption
    DEF RunnerWakes, Runner!Wake, Goto, Threads, ServiceThreads, stateVars, lockVars,
        localVars, Share, Release, Return, Locks, Observing
  <1>26. CASE RunnerExpires
    BY <1>26, <1>a, ActorsAssumption
    DEF RunnerExpires, Runner!Expire, Goto, Threads, ServiceThreads, stateVars, lockVars,
        localVars, Share, Release, Return, Locks, Observing
  <1>27. CASE ActWait
    BY <1>27, <1>a, ActorsAssumption
    DEF ActWait, Goto, Threads, ServiceThreads, stateVars, tickVars, runnerVars, lockVars,
        localVars, Share, Release, Return, Locks, Observing
  <1>28. CASE ActCount
    BY <1>28, <1>a, ActorsAssumption
    DEF ActCount, Goto, Threads, ServiceThreads, stateVars, tickVars, runnerVars, lockVars,
        localVars, Share, Release, Return, Locks, Observing
  <1>29. CASE ActClaim
    BY <1>29, <1>a, ActorsAssumption
    DEF ActClaim, Goto, Threads, ServiceThreads, stateVars, runnerVars, lockVars, localVars,
        Share, Release, Return, Locks, Observing
  <1>30. CASE ActLock
    BY <1>30, <1>a, ActorsAssumption
    DEF ActLock, Goto, Threads, ServiceThreads, tickVars, runnerVars, lockVars, localVars,
        Share, Release, Return, Locks, Observing
  <1>31. CASE ActSend
    BY <1>31, <1>a, ActorsAssumption
    DEF ActSend, Goto, Threads, ServiceThreads, stateVars, tickVars, runnerVars, lockVars,
        localVars, Share, Release, Return, Locks, Observing
  <1>32. CASE ActFails
    BY <1>32, <1>a, ActorsAssumption
    DEF ActFails, Goto, Threads, ServiceThreads, stateVars, tickVars, runnerVars, lockVars,
        localVars, Share, Release, Return, Locks, Observing
  <1>32w. CASE ActWriteFails
    BY <1>32w, <1>a, ActorsAssumption
    DEF ActWriteFails, Goto, Threads, ServiceThreads, stateVars, tickVars, runnerVars, lockVars,
        localVars, Share, Release, Return, Locks, Observing
  <1>33. CASE RequestEnd
    BY <1>33, <1>a, ActorsAssumption
    DEF RequestEnd, Goto, Threads, ServiceThreads, tickVars, runnerVars, lockVars, localVars,
        Share, Release, Return, Locks, Observing
  <1>34. CASE Kill
    BY <1>34, <1>a, ActorsAssumption
    DEF Kill, Goto, Threads, ServiceThreads, stateVars, tickVars, runnerVars, lockVars,
        localVars, Share, Release, Return, Locks, Observing
  <1>35. ASSUME NEW t \in {"act", "start", "rpc"}, Terminate(t) PROVE Locks'
    BY <1>35, <1>a, ActorsAssumption
    DEF Terminate, AfterTerminate, Goto, Threads, ServiceThreads, tickVars, runnerVars,
        lockVars, localVars, Share, Release, Return, Locks, Observing
  <1>36. ASSUME NEW t \in {"act", "start", "rpc"}, TerminateStreams(t) PROVE Locks'
    BY <1>36, <1>a, ActorsAssumption
    DEF TerminateStreams, Goto, Threads, ServiceThreads, stateVars, tickVars, runnerVars,
        lockVars, localVars, Share, Release, Return, Locks, Observing
  <1>37. ASSUME NEW t \in {"act", "start", "rpc"}, TerminateEnd(t) PROVE Locks'
    BY <1>37, <1>a, ActorsAssumption
    DEF TerminateEnd, SetEnded, AfterTerminate, Goto, Threads, ServiceThreads, tickVars,
        runnerVars, lockVars, localVars, Share, Release, Return, Locks, Observing
  <1>38. CASE Finalize
    BY <1>38, <1>a, ActorsAssumption
    DEF Finalize, Goto, Threads, ServiceThreads, stateVars, tickVars, runnerVars, lockVars,
        localVars, Share, Release, Return, Locks, Observing
  <1>39. CASE FinishEnd
    BY <1>39, <1>a, ActorsAssumption
    DEF FinishEnd, SetEnded, Goto, Threads, ServiceThreads, tickVars, runnerVars, lockVars,
        localVars, Share, Release, Return, Locks, Observing
  <1>40. CASE UNCHANGED vars
    BY <1>40, <1>a, ActorsAssumption
    DEF vars, stateVars, tickVars, runnerVars, Threads, ServiceThreads, lockVars, localVars,
        Share, Release, Return, Locks, Observing
  <1>41. QED
    BY <1>1f, <1>22i, <1>32w, <1>1, <1>2, <1>3, <1>4, <1>5, <1>6, <1>7, <1>8, <1>9, <1>10, <1>11, <1>12, <1>13, <1>14,
       <1>15, <1>16, <1>17, <1>18, <1>19, <1>20, <1>21, <1>22, <1>23, <1>24, <1>25, <1>26,
       <1>27, <1>28, <1>29, <1>30, <1>31, <1>32, <1>33, <1>34, <1>35, <1>36, <1>37, <1>38,
       <1>39, <1>40
    DEF Next, Moves, Start, EnvThread, ActThread, FinThread, ActorThread, Leaving, Terminating,
        Finished


-----------------------------------------------------------------------------
(* What happens to the samples.                                            *)

Total == Len(log) + Len(samples)
Ordered ==
  /\ \A i \in 1..Len(log) : log[i] = i - 1
  /\ \A i \in 1..Len(samples) : samples[i].tick = Len(log) + i - 1

\* There is a sample for each tick; only env_observed, between its two steps, is a tick
\* ahead of the samples.
Totals ==
  /\ pc["start"] \in {"check", "prepare"} => tick = 0 /\ Total = 0
  /\ pc["start"] \in {"pend", "join", "leave", "remove"} => Total = 1
  /\ pc["env"] = "idle" => tick = 0 /\ observed = 0
  /\ pc["env"] = "sample" => Total = tick
  /\ pc["env"] \in {"read"} \cup (Observing \ {"sample"}) => Total = tick + 1

\* No sample stays behind at the end, but in a trial that was ended before it started.
Flushed ==
  state = "ended" =>
    /\ pc["env"] \notin Observing
    /\ samples # <<>> => pc["env"] = "idle" /\ pc["start"] \notin {"join", "leave", "remove"}

Flow == Ordered /\ Totals /\ Flushed

LEMMA SamplesTypes == ASSUME TypeOK PROVE /\ samples \in Seq(Sample) /\ log \in Seq(Nat)
                                          /\ Len(samples) \in Nat /\ Len(log) \in Nat /\ tick \in Nat
  BY DEF TypeOK, SamplesOK, CountsOK

\* A step that changes no sample, or no more than an action in it.
LEMMA SamplesStay ==
  ASSUME TypeOK, Ordered, UNCHANGED log,
         \/ UNCHANGED samples
         \/ \E k, x : \E a \in Actors : samples' = WithAction(k, a, x)
  PROVE  Ordered' /\ Total' = Total /\ (samples' # <<>> => samples # <<>>)
  <1>1. CASE UNCHANGED samples
    BY <1>1 DEF Ordered, Total
  <1>2. ASSUME NEW k, NEW x, NEW a \in Actors, samples' = WithAction(k, a, x)
        PROVE  Ordered' /\ Total' = Total /\ (samples' # <<>> => samples # <<>>)
    <2>1. Len(samples) \in Nat /\ \A i \in 1..Len(samples) : samples[i] \in Sample
      BY SamplesTypes
    <2>2. DOMAIN samples' = 1..Len(samples) /\ samples' \in Seq({samples'[i] : i \in 1..Len(samples)})
      BY <1>2, <2>1, SeqDef DEF WithAction
    <2>3. Len(samples') = Len(samples)
      BY <2>1, <2>2
    <2>4. \A i \in 1..Len(samples) : samples'[i].tick = samples[i].tick
      BY <1>2, <2>1 DEF WithAction, Sample
    <2>5. samples' # <<>> => samples # <<>>
      BY <2>2, <2>3, EmptySeq, SamplesTypes
    <2>6. QED
      BY <2>3, <2>4, <2>5 DEF Ordered, Total
  <1>3. QED
    BY <1>1, <1>2

\* make_new_sample.
LEMMA SampleAdded ==
  ASSUME TypeOK, Ordered, UNCHANGED log, samples' = Append(samples, NewSample(tick)), Total = tick
  PROVE  Ordered' /\ Total' = Total + 1
  <1>1. NewSample(tick) \in Sample
    BY NewSampleType, SamplesTypes
  <1>2. /\ Len(samples') = Len(samples) + 1 /\ samples'[Len(samples) + 1] = NewSample(tick)
        /\ \A i \in 1..Len(samples) : samples'[i] = samples[i]
    BY <1>1, SamplesTypes
  <1>3. NewSample(tick).tick = tick /\ tick = Len(log) + Len(samples)
    BY DEF NewSample, Total
  <1>4. \A i \in 1..Len(samples') : samples'[i].tick = Len(log') + i - 1
    <2> SUFFICES ASSUME NEW i \in 1..Len(samples') PROVE samples'[i].tick = Len(log) + i - 1
      OBVIOUS
    <2>1. CASE i = Len(samples) + 1
      BY <1>2, <1>3, <2>1, SamplesTypes
    <2>2. CASE i \in 1..Len(samples)
      BY <1>2, <2>2 DEF Ordered
    <2>3. QED
      BY <1>2, <2>1, <2>2, SamplesTypes
  <1>5. QED
    BY <1>2, <1>4, SamplesTypes DEF Ordered, Total

\* The order is kept when the first n samples move to the end of the log.
LEMMA OrderMoves ==
  ASSUME Ordered, NEW n \in Nat, Len(log) \in Nat, Len(samples) \in Nat, n <= Len(samples),
         Len(log') = Len(log) + n, Len(samples') = Len(samples) - n,
         \A i \in 1..Len(log) : log'[i] = log[i],
         \A i \in 1..n : log'[Len(log) + i] = samples[i].tick,
         \A i \in 1..Len(samples) - n : samples'[i] = samples[n + i]
  PROVE  Ordered' /\ Total' = Total
  <1>1. \A i \in 1..Len(log') : log'[i] = i - 1
    <2> SUFFICES ASSUME NEW i \in 1..Len(log') PROVE log'[i] = i - 1
      OBVIOUS
    <2>1. CASE i \in 1..Len(log)
      BY <2>1 DEF Ordered
    <2>2. CASE i \notin 1..Len(log)
      <3> DEFINE j == i - Len(log)
      <3>1. j \in 1..n /\ j \in 1..Len(samples) /\ i = Len(log) + j
        BY <2>2
      <3>2. log'[Len(log) + j] = samples[j].tick /\ samples[j].tick = Len(log) + j - 1
        BY <3>1 DEF Ordered
      <3>3. QED
        BY <3>1, <3>2
    <2>3. QED
      BY <2>1, <2>2
  <1>2. \A i \in 1..Len(samples') : samples'[i].tick = Len(log') + i - 1
    <2> SUFFICES ASSUME NEW i \in 1..Len(samples') PROVE samples'[i].tick = Len(log') + i - 1
      OBVIOUS
    <2>1. n + i \in 1..Len(samples) /\ samples'[i] = samples[n + i]
      OBVIOUS
    <2>2. samples[n + i].tick = Len(log) + (n + i) - 1
      BY <2>1 DEF Ordered
    <2>3. QED
      BY <2>1, <2>2
  <1>3. QED
    BY <1>1, <1>2 DEF Ordered, Total

\* The first n samples go to the log.
LEMMA SamplesLogged ==
  ASSUME TypeOK, Ordered, NEW n \in 0..Len(samples),
         log' = log \o Ticks(SubSeq(samples, 1, n)), samples' = SubSeq(samples, n + 1, Len(samples))
  PROVE  Ordered' /\ Total' = Total /\ Len(samples') = Len(samples) - n
  <1> DEFINE out == SubSeq(samples, 1, n)
  <1>1. out \in Seq(Sample) /\ Len(out) = n /\ \A i \in 1..n : out[i] = samples[i]
    BY SamplesTypes
  <1>2. /\ Ticks(out) \in Seq(Nat) /\ Len(Ticks(out)) = n
        /\ \A i \in 1..n : Ticks(out)[i] = samples[i].tick
    <2>1. Ticks(out) \in Seq(Nat) /\ Len(Ticks(out)) = n
      BY <1>1, TicksType
    <2>2. \A i \in 1..n : Ticks(out)[i] = out[i].tick
      BY <1>1 DEF Ticks
    <2>3. QED
      BY <1>1, <2>1, <2>2
  <1> HIDE DEF out
  <1>3. /\ Len(log') = Len(log) + n
        /\ \A i \in 1..Len(log) : log'[i] = log[i]
        /\ \A i \in 1..n : log'[Len(log) + i] = samples[i].tick
    <2>1. log' = log \o Ticks(out)
      BY DEF out
    <2>2. log \in Seq(Nat) /\ Ticks(out) \in Seq(Nat)
      BY <1>2, SamplesTypes
    <2>3. /\ Len(log') = Len(log) + Len(Ticks(out))
          /\ \A i \in 1..Len(log) + Len(Ticks(out)) :
               log'[i] = IF i <= Len(log) THEN log[i] ELSE Ticks(out)[i - Len(log)]
      BY <2>1, <2>2, ConcatProperties
    <2>4. \A i \in 1..Len(log) : log'[i] = log[i]
      BY <2>2, <2>3, <1>2, SamplesTypes
    <2>5. ASSUME NEW i \in 1..n PROVE log'[Len(log) + i] = samples[i].tick
      <3>1. Len(log) + i \in 1..Len(log) + Len(Ticks(out)) /\ ~(Len(log) + i <= Len(log))
            /\ (Len(log) + i) - Len(log) = i
        BY <1>2, SamplesTypes
      <3>2. log'[Len(log) + i] = Ticks(out)[i]
        BY <2>3, <3>1
      <3>3. QED
        BY <1>2, <3>2
    <2>6. QED
      BY <1>2, <2>3, <2>4, <2>5
  <1>4. Len(samples') = Len(samples) - n /\ \A i \in 1..Len(samples) - n : samples'[i] = samples[n + i]
    BY SamplesTypes
  <1>5. n \in Nat /\ n <= Len(samples)
    BY SamplesTypes
  <1>6. QED
    BY <1>3, <1>4, <1>5, SamplesTypes, OrderMoves

\* flush_samples, once.
LEMMA SamplesFlushed ==
  ASSUME TypeOK, Ordered, SetEnded
  PROVE  Ordered' /\ Total' = Total /\ state' = "ended" /\ (samples' # <<>> => state = "ended" /\ samples # <<>>)
  <1>1. CASE state = "ended"
    BY <1>1 DEF SetEnded, Ordered, Total
  <1>2. CASE state # "ended"
    <2>1. log' = log \o Ticks(samples) /\ samples' = <<>> /\ state' = "ended"
      BY <1>2 DEF SetEnded
    <2>2. samples = SubSeq(samples, 1, Len(samples)) /\ <<>> = SubSeq(samples, Len(samples) + 1, Len(samples))
      BY SamplesTypes
    <2>3. Len(samples) \in 0..Len(samples)
      BY SamplesTypes
    <2>4. Ordered' /\ Total' = Total
      BY <2>1, <2>2, <2>3, SamplesLogged
    <2>5. QED
      BY <2>1, <2>4
  <1>3. QED
    BY <1>1, <1>2

\* Every step of every thread keeps the samples in order and accounted for.
LEMMA FlowStep == TypeOK /\ VictimNamed /\ Begun /\ Locks /\ Flow /\ [Next]_vars => Flow'
  <1> SUFFICES ASSUME TypeOK, VictimNamed, Begun, Locks, Flow, [Next]_vars
               PROVE  Flow'
    OBVIOUS
  <1>a. pc \in [Threads -> Places] /\ tick \in Nat /\ Ordered
    BY DEF TypeOK, ThreadsOK, CountsOK, Flow
  <1>b. \A t \in Actors \cup {"env", "start"} : pc[t] = "leave" => Leaver(t) \in Actors
    BY ActorsAssumption DEF Leaver, VictimNamed, ServiceThreads
  <1>1. CASE StartCheck
    <2>1. Ordered' /\ Total' = Total /\ (samples' # <<>> => samples # <<>>)
      BY <1>1, <1>a, SamplesStay DEF StartCheck, sampleVars
    <2>2. QED
      BY <1>1, <1>a, <2>1, ActorsAssumption
      DEF StartCheck, Goto, Threads, ServiceThreads, stateVars, tickVars, runnerVars, Begun,
         Locks, Observing, Flow, Totals, Flushed, lockVars, envVars, Share, Release, Return
  <1>1f. CASE StartEnvFails
    <2>1. Ordered' /\ Total' = Total /\ (samples' # <<>> => samples # <<>>)
      BY <1>1f, <1>a, SamplesStay DEF StartEnvFails, sampleVars
    <2>2. QED
      BY <1>1f, <1>a, <2>1, ActorsAssumption
      DEF StartEnvFails, Goto, Threads, ServiceThreads, stateVars, tickVars, runnerVars, Begun,
         Locks, Observing, Flow, Totals, Flushed, lockVars, envVars, Share, Release, Return
  <1>2. CASE StartPrepare
    <2>1. Total = tick /\ tick = 0 /\ UNCHANGED <<log, tick, observed, state>> /\ pc["start"] = "prepare"
          /\ pc' = [pc EXCEPT !["start"] = "pend"] /\ samples' = Append(samples, NewSample(tick))
      BY <1>2, <1>a DEF StartPrepare, Goto, Flow, Totals, stateVars, envVars
    <2>2. Ordered' /\ Total' = 1
      BY <1>a, <2>1, SampleAdded
    <2>3. pc["env"] = "idle"
      BY <2>1 DEF Begun
    <2>4. QED
      BY <1>a, <2>1, <2>2, <2>3 DEF Flow, Totals, Flushed, Observing, Threads, ServiceThreads
  <1>3. CASE StartPend
    <2>1. Ordered' /\ Total' = Total /\ (samples' # <<>> => samples # <<>>)
      BY <1>3, <1>a, SamplesStay DEF StartPend, sampleVars
    <2>2. QED
      BY <1>3, <1>a, <2>1, ActorsAssumption
      DEF StartPend, Goto, Threads, ServiceThreads, tickVars, runnerVars, Begun, Locks,
         Observing, Flow, Totals, Flushed, lockVars, envVars, Share, Release, Return
  <1>4. ASSUME NEW a \in Actors, JoinTimeout(a) PROVE Flow'
    <2>1. Ordered' /\ Total' = Total /\ (samples' # <<>> => samples # <<>>)
      BY <1>4, <1>a, SamplesStay DEF JoinTimeout, sampleVars
    <2>2. QED
      BY <1>4, <1>a, <2>1, ActorsAssumption
      DEF JoinTimeout, Goto, Threads, ServiceThreads, stateVars, tickVars, runnerVars, Begun,
         Locks, Observing, Flow, Totals, Flushed, lockVars, envVars, Share, Release, Return
  <1>5. CASE StartEnv
    <2>1. Ordered' /\ Total' = Total /\ (samples' # <<>> => samples # <<>>)
      BY <1>5, <1>a, SamplesStay DEF StartEnv, sampleVars
    <2>2. QED
      BY <1>5, <1>a, <2>1, ActorsAssumption
      DEF StartEnv, Goto, Threads, ServiceThreads, stateVars, tickVars, runnerVars, Begun,
         Locks, Observing, Flow, Totals, Flushed, lockVars, envVars, Share, Release, Return
  <1>6. CASE EnvEnds
    <2>1. Ordered' /\ Total' = Total /\ (samples' # <<>> => samples # <<>>)
      BY <1>6, <1>a, SamplesStay DEF EnvEnds, sampleVars
    <2>2. QED
      BY <1>6, <1>a, <2>1, ActorsAssumption
      DEF EnvEnds, Goto, Threads, ServiceThreads, stateVars, tickVars, runnerVars, Begun,
         Locks, Observing, Flow, Totals, Flushed, lockVars, envVars, Share, Release, Return
  <1>7. CASE EnvObserved
    <2>1. Ordered' /\ Total' = Total /\ (samples' # <<>> => samples # <<>>)
      BY <1>7, <1>a, SamplesStay DEF EnvObserved, sampleVars
    <2>2. QED
      BY <1>7, <1>a, <2>1, ActorsAssumption
      DEF EnvObserved, Goto, Threads, ServiceThreads, runnerVars, Begun, Locks, Observing,
         Flow, Totals, Flushed, lockVars, envVars, Share, Release, Return
  <1>8. CASE EnvSample
    <2>1. Total = tick /\ UNCHANGED <<log, tick, observed, state>> /\ pc["env"] = "sample"
          /\ pc' = [pc EXCEPT !["env"] = "observe"] /\ samples' = Append(samples, NewSample(tick))
      BY <1>8, <1>a DEF EnvSample, Goto, Flow, Totals, stateVars, envVars
    <2>2. Ordered' /\ Total' = tick + 1
      BY <1>a, <2>1, SampleAdded
    <2>3. pc["start"] = "idle" /\ state # "ended"
      BY <2>1 DEF Begun, Flow, Flushed, Observing
    <2>4. QED
      BY <1>a, <2>1, <2>2, <2>3 DEF Flow, Totals, Flushed, Observing, Threads, ServiceThreads
  <1>9. CASE EnvRespond
    <2>1. Ordered' /\ Total' = Total /\ (samples' # <<>> => samples # <<>>)
      BY <1>9, <1>a, SamplesStay DEF EnvRespond, sampleVars
    <2>2. QED
      BY <1>9, <1>a, <2>1, ActorsAssumption
      DEF EnvRespond, Goto, Threads, ServiceThreads, stateVars, tickVars, Begun, Locks,
         Observing, Flow, Totals, Flushed, lockVars, envVars, Share, Release, Return
  <1>10. CASE EnvDispatch
    <2>1. Ordered' /\ Total' = Total /\ (samples' # <<>> => samples # <<>>)
      BY <1>10, <1>a, SamplesStay DEF EnvDispatch, sampleVars
    <2>2. QED
      BY <1>10, <1>a, <2>1, ActorsAssumption
      DEF EnvDispatch, Goto, Threads, ServiceThreads, stateVars, tickVars, runnerVars, Begun,
         Locks, Observing, Flow, Totals, Flushed, lockVars, envVars, Share, Release, Return
  <1>11. ASSUME NEW a \in Actors, EnvWriteFails(a) PROVE Flow'
    <2>1. Ordered' /\ Total' = Total /\ (samples' # <<>> => samples # <<>>)
      BY <1>11, <1>a, SamplesStay DEF EnvWriteFails, sampleVars
    <2>2. QED
      BY <1>11, <1>a, <2>1, ActorsAssumption
      DEF EnvWriteFails, Goto, Threads, ServiceThreads, stateVars, tickVars, runnerVars,
         Begun, Locks, Observing, Flow, Totals, Flushed, lockVars, envVars, Share, Release,
         Return
  <1>12. CASE EnvStarted
    <2>1. Ordered' /\ Total' = Total /\ (samples' # <<>> => samples # <<>>)
      BY <1>12, <1>a, SamplesStay DEF EnvStarted, sampleVars
    <2>2. QED
      BY <1>12, <1>a, <2>1, ActorsAssumption
      DEF EnvStarted, Goto, Threads, ServiceThreads, stateVars, tickVars, Begun, Locks,
         Observing, Flow, Totals, Flushed, lockVars, envVars, Share, Release, Return
  <1>13. CASE EnvBalance
    <2> DEFINE over == IF Len(samples) >= NbBuffered THEN Len(samples) - NbBuffered + 1 ELSE 0
    <2>1. log' = log \o Ticks(SubSeq(samples, 1, over)) /\ samples' = SubSeq(samples, over + 1, Len(samples))
          /\ UNCHANGED <<tick, observed, state>> /\ pc["env"] = "balance"
          /\ pc' = [pc EXCEPT !["env"] = "read"]
      BY <1>13 DEF EnvBalance, Goto, stateVars, tickVars, envVars
    <2>2. over \in 0..Len(samples)
      BY SamplesTypes, BoundsAssumption
    <2> HIDE DEF over
    <2>3. Ordered' /\ Total' = Total
      BY <1>a, <2>1, <2>2, SamplesLogged
    <2>4. pc["start"] = "idle" /\ state # "ended" /\ Total = tick + 1
      BY <2>1 DEF Begun, Flow, Totals, Flushed, Observing
    <2>5. QED
      BY <1>a, <2>1, <2>3, <2>4 DEF Flow, Totals, Flushed, Observing, Threads, ServiceThreads
  <1>14. CASE EnvFinish
    <2>1. Ordered' /\ Total' = Total /\ (samples' # <<>> => samples # <<>>)
      BY <1>14, <1>a, SamplesStay DEF EnvFinish, sampleVars
    <2>2. QED
      BY <1>14, <1>a, <2>1, ActorsAssumption
      DEF EnvFinish, Goto, Threads, ServiceThreads, tickVars, runnerVars, Begun, Locks,
         Observing, Flow, Totals, Flushed, lockVars, envVars, Share, Release, Return
  <1>15. CASE EnvBreaks
    <2>1. Ordered' /\ Total' = Total /\ (samples' # <<>> => samples # <<>>)
      BY <1>15, <1>a, SamplesStay DEF EnvBreaks, sampleVars
    <2>2. QED
      BY <1>15, <1>a, <2>1, ActorsAssumption
      DEF EnvBreaks, Goto, Threads, ServiceThreads, stateVars, tickVars, runnerVars, Begun,
         Locks, Observing, Flow, Totals, Flushed, lockVars, envVars, Share, Release, Return
  <1>16. ASSUME NEW a \in Actors, Join(a) PROVE Flow'
    <2>1. Ordered' /\ Total' = Total /\ (samples' # <<>> => samples # <<>>)
      BY <1>16, <1>a, SamplesStay DEF Join, sampleVars
    <2>2. QED
      BY <1>16, <1>a, <2>1, ActorsAssumption
      DEF Join, Goto, Threads, ServiceThreads, stateVars, tickVars, runnerVars, Begun, Locks,
         Observing, Flow, Totals, Flushed, lockVars, envVars, Share, Release, Return
  <1>17. ASSUME NEW a \in Actors, ReadAction(a) PROVE Flow'
    <2>1. Ordered' /\ Total' = Total /\ (samples' # <<>> => samples # <<>>)
      BY <1>17, <1>a, SamplesStay DEF ReadAction, sampleVars
    <2>2. QED
      BY <1>17, <1>a, <2>1, ActorsAssumption
      DEF ReadAction, Goto, Threads, ServiceThreads, stateVars, tickVars, runnerVars, Begun,
         Locks, Observing, Flow, Totals, Flushed, lockVars, envVars, Share, Release, Return
  <1>18. ASSUME NEW a \in Actors, RecordAction(a) PROVE Flow'
    <2>1. Ordered' /\ Total' = Total /\ (samples' # <<>> => samples # <<>>)
      BY <1>18, <1>a, SamplesStay DEF RecordAction
    <2>2. QED
      BY <1>18, <1>a, <2>1, ActorsAssumption
      DEF RecordAction, Goto, Threads, ServiceThreads, stateVars, tickVars, runnerVars, Begun,
         Locks, Observing, Flow, Totals, Flushed, lockVars, envVars, Share, Release, Return
  <1>19. ASSUME NEW a \in Actors, IgnoreAction(a) PROVE Flow'
    <2>1. Ordered' /\ Total' = Total /\ (samples' # <<>> => samples # <<>>)
      BY <1>19, <1>a, SamplesStay DEF IgnoreAction, sampleVars
    <2>2. QED
      BY <1>19, <1>a, <2>1, ActorsAssumption
      DEF IgnoreAction, Return, Goto, Threads, ServiceThreads, stateVars, tickVars,
         runnerVars, Begun, Locks, Observing, Flow, Totals, Flushed, lockVars, envVars, Share,
         Release
  <1>20. ASSUME NEW a \in Actors, SignalAction(a) PROVE Flow'
    <2>1. Ordered' /\ Total' = Total /\ (samples' # <<>> => samples # <<>>)
      BY <1>20, <1>a, SamplesStay DEF SignalAction, sampleVars
    <2>2. QED
      BY <1>20, <1>a, <2>1, ActorsAssumption
      DEF SignalAction, Return, Goto, Threads, ServiceThreads, stateVars, Begun, Locks,
         Observing, Flow, Totals, Flushed, lockVars, envVars, Share, Release
  <1>21. ASSUME NEW a \in Actors, StreamBreaks(a) PROVE Flow'
    <2>1. Ordered' /\ Total' = Total /\ (samples' # <<>> => samples # <<>>)
      BY <1>21, <1>a, SamplesStay DEF StreamBreaks, sampleVars
    <2>2. QED
      BY <1>21, <1>a, <2>1, ActorsAssumption
      DEF StreamBreaks, Goto, Threads, ServiceThreads, stateVars, tickVars, runnerVars, Begun,
         Locks, Observing, Flow, Totals, Flushed, lockVars, envVars, Share, Release, Return
  <1>22. ASSUME NEW a \in Actors, StreamEnds(a) PROVE Flow'
    <2>1. Ordered' /\ Total' = Total /\ (samples' # <<>> => samples # <<>>)
      BY <1>22, <1>a, SamplesStay DEF StreamEnds, sampleVars
    <2>2. QED
      BY <1>22, <1>a, <2>1, ActorsAssumption
      DEF StreamEnds, Goto, Threads, ServiceThreads, stateVars, tickVars, runnerVars, Begun,
         Locks, Observing, Flow, Totals, Flushed, lockVars, envVars, Share, Release, Return
  <1>22i. ASSUME NEW a \in Actors, InitFails(a) PROVE Flow'
    <2>1. Ordered' /\ Total' = Total /\ (samples' # <<>> => samples # <<>>)
      BY <1>22i, <1>a, SamplesStay DEF InitFails, sampleVars
    <2>2. QED
      BY <1>22i, <1>a, <2>1, ActorsAssumption
      DEF InitFails, Goto, Threads, ServiceThreads, stateVars, tickVars, runnerVars, Begun,
         Locks, Observing, Flow, Totals, Flushed, lockVars, envVars, Share, Release, Return
  <1>23. ASSUME NEW t \in Actors \cup {"env", "start"}, Disengage(t) PROVE Flow'
    <2>1. Leaver(t) \in Actors
      BY <1>23, <1>b DEF Disengage
    <2>2. UNCHANGED samples \/ samples' = WithAction(Last(samples).tick, Leaver(t), NoData)
      BY <1>23 DEF Disengage
    <2>3. Ordered' /\ Total' = Total /\ (samples' # <<>> => samples # <<>>)
      BY <1>23, <1>a, <2>1, <2>2, SamplesStay DEF Disengage
    <2>4. QED
      BY <1>23, <1>a, <2>3, ActorsAssumption
      DEF Disengage, Leaver, AfterLeave, Goto, Threads, ServiceThreads, stateVars, tickVars,
         runnerVars, Begun, Locks, Observing, Flow, Totals, Flushed, lockVars, envVars, Share,
         Release, Return
  <1>24. ASSUME NEW t \in Actors \cup {"env", "start"}, RemoveActor(t) PROVE Flow'
    <2>1. Ordered' /\ Total' = Total /\ (samples' # <<>> => samples # <<>>)
      BY <1>24, <1>a, SamplesStay DEF RemoveActor, sampleVars
    <2>2. QED
      BY <1>24, <1>a, <2>1, ActorsAssumption
      DEF RemoveActor, Leaver, AfterLeave, Goto, Threads, ServiceThreads, stateVars, Begun,
         Locks, Observing, Flow, Totals, Flushed, lockVars, envVars, Share, Release, Return
  <1>25. CASE RunnerWakes
    <2>1. Ordered' /\ Total' = Total /\ (samples' # <<>> => samples # <<>>)
      BY <1>25, <1>a, SamplesStay DEF RunnerWakes, sampleVars
    <2>2. QED
      BY <1>25, <1>a, <2>1, ActorsAssumption
      DEF RunnerWakes, Goto, Threads, ServiceThreads, stateVars, Begun, Locks, Observing,
         Flow, Totals, Flushed, lockVars, envVars, Share, Release, Return
  <1>26. CASE RunnerExpires
    <2>1. Ordered' /\ Total' = Total /\ (samples' # <<>> => samples # <<>>)
      BY <1>26, <1>a, SamplesStay DEF RunnerExpires, sampleVars
    <2>2. QED
      BY <1>26, <1>a, <2>1, ActorsAssumption
      DEF RunnerExpires, Goto, Threads, ServiceThreads, stateVars, Begun, Locks, Observing,
         Flow, Totals, Flushed, lockVars, envVars, Share, Release, Return
  <1>27. CASE ActWait
    <2>1. Ordered' /\ Total' = Total /\ (samples' # <<>> => samples # <<>>)
      BY <1>27, <1>a, SamplesStay DEF ActWait, sampleVars
    <2>2. QED
      BY <1>27, <1>a, <2>1, ActorsAssumption
      DEF ActWait, Goto, Threads, ServiceThreads, stateVars, tickVars, runnerVars, Begun,
         Locks, Observing, Flow, Totals, Flushed, lockVars, envVars, Share, Release, Return
  <1>28. CASE ActCount
    <2>1. Ordered' /\ Total' = Total /\ (samples' # <<>> => samples # <<>>)
      BY <1>28, <1>a, SamplesStay DEF ActCount, sampleVars
    <2>2. QED
      BY <1>28, <1>a, <2>1, ActorsAssumption
      DEF ActCount, Goto, Threads, ServiceThreads, stateVars, tickVars, runnerVars, Begun,
         Locks, Observing, Flow, Totals, Flushed, lockVars, envVars, Share, Release, Return
  <1>29. CASE ActClaim
    <2>1. Ordered' /\ Total' = Total /\ (samples' # <<>> => samples # <<>>)
      BY <1>29, <1>a, SamplesStay DEF ActClaim, sampleVars
    <2>2. QED
      BY <1>29, <1>a, <2>1, ActorsAssumption
      DEF ActClaim, Goto, Threads, ServiceThreads, stateVars, runnerVars, Begun, Locks,
         Observing, Flow, Totals, Flushed, lockVars, envVars, Share, Release, Return
  <1>30. CASE ActLock
    <2>1. Ordered' /\ Total' = Total /\ (samples' # <<>> => samples # <<>>)
      BY <1>30, <1>a, SamplesStay DEF ActLock, sampleVars
    <2>2. QED
      BY <1>30, <1>a, <2>1, ActorsAssumption
      DEF ActLock, Goto, Threads, ServiceThreads, tickVars, runnerVars, Begun, Locks,
         Observing, Flow, Totals, Flushed, lockVars, envVars, Share, Release, Return
  <1>31. CASE ActSend
    <2>1. Ordered' /\ Total' = Total /\ (samples' # <<>> => samples # <<>>)
      BY <1>31, <1>a, SamplesStay DEF ActSend, sampleVars
    <2>2. QED
      BY <1>31, <1>a, <2>1, ActorsAssumption
      DEF ActSend, Goto, Threads, ServiceThreads, stateVars, tickVars, runnerVars, Begun,
         Locks, Observing, Flow, Totals, Flushed, lockVars, envVars, Share, Release, Return
  <1>32. CASE ActFails
    <2>1. Ordered' /\ Total' = Total /\ (samples' # <<>> => samples # <<>>)
      BY <1>32, <1>a, SamplesStay DEF ActFails, sampleVars
    <2>2. QED
      BY <1>32, <1>a, <2>1, ActorsAssumption
      DEF ActFails, Goto, Threads, ServiceThreads, stateVars, tickVars, runnerVars, Begun,
         Locks, Observing, Flow, Totals, Flushed, lockVars, envVars, Share, Release, Return
  <1>32w. CASE ActWriteFails
    <2>1. Ordered' /\ Total' = Total /\ (samples' # <<>> => samples # <<>>)
      BY <1>32w, <1>a, SamplesStay DEF ActWriteFails, sampleVars
    <2>2. QED
      BY <1>32w, <1>a, <2>1, ActorsAssumption
      DEF ActWriteFails, Goto, Threads, ServiceThreads, stateVars, tickVars, runnerVars, Begun,
         Locks, Observing, Flow, Totals, Flushed, lockVars, envVars, Share, Release, Return
  <1>33. CASE RequestEnd
    <2>1. Ordered' /\ Total' = Total /\ (samples' # <<>> => samples # <<>>)
      BY <1>33, <1>a, SamplesStay DEF RequestEnd, sampleVars
    <2>2. QED
      BY <1>33, <1>a, <2>1, ActorsAssumption
      DEF RequestEnd, Goto, Threads, ServiceThreads, tickVars, runnerVars, Begun, Locks,
         Observing, Flow, Totals, Flushed, lockVars, envVars, Share, Release, Return
  <1>34. CASE Kill
    <2>1. Ordered' /\ Total' = Total /\ (samples' # <<>> => samples # <<>>)
      BY <1>34, <1>a, SamplesStay DEF Kill, sampleVars
    <2>2. QED
      BY <1>34, <1>a, <2>1, ActorsAssumption
      DEF Kill, Goto, Threads, ServiceThreads, stateVars, tickVars, runnerVars, Begun, Locks,
         Observing, Flow, Totals, Flushed, lockVars, envVars, Share, Release, Return
  <1>35. ASSUME NEW t \in {"act", "start", "rpc"}, Terminate(t) PROVE Flow'
    <2>1. Ordered' /\ Total' = Total /\ (samples' # <<>> => samples # <<>>)
      BY <1>35, <1>a, SamplesStay DEF Terminate, sampleVars
    <2>2. QED
      BY <1>35, <1>a, <2>1, ActorsAssumption
      DEF Terminate, AfterTerminate, Goto, Threads, ServiceThreads, tickVars, runnerVars,
         Begun, Locks, Observing, Flow, Totals, Flushed, lockVars, envVars, Share, Release,
         Return
  <1>36. ASSUME NEW t \in {"act", "start", "rpc"}, TerminateStreams(t) PROVE Flow'
    <2>1. Ordered' /\ Total' = Total /\ (samples' # <<>> => samples # <<>>)
      BY <1>36, <1>a, SamplesStay DEF TerminateStreams, sampleVars
    <2>2. QED
      BY <1>36, <1>a, <2>1, ActorsAssumption
      DEF TerminateStreams, Goto, Threads, ServiceThreads, stateVars, tickVars, runnerVars,
         Begun, Locks, Observing, Flow, Totals, Flushed, lockVars, envVars, Share, Release,
         Return
  <1>37. ASSUME NEW t \in {"act", "start", "rpc"}, TerminateEnd(t) PROVE Flow'
    <2>1. /\ SetEnded /\ UNCHANGED <<tick, observed>>
          /\ pc[t] = "ended" /\ pc' = [pc EXCEPT ![t] = AfterTerminate(t)]
      BY <1>37 DEF TerminateEnd, Goto, tickVars, envVars
    <2>2. /\ Ordered' /\ Total' = Total /\ state' = "ended"
          /\ samples' # <<>> => state = "ended" /\ samples # <<>>
      BY <1>a, <2>1, SamplesFlushed
    <2>3. pc["env"] \notin Observing
      BY <2>1, ActorsAssumption DEF Locks, Threads, ServiceThreads
    <2>4. pc'["env"] = pc["env"]
      BY <1>a, <2>1 DEF Threads, ServiceThreads
    <2>5. pc'["start"] = pc["start"] \/ pc'["start"] = "idle"
      BY <1>a, <2>1 DEF Threads, ServiceThreads, AfterTerminate
    <2>6. Totals'
      BY <2>1, <2>2, <2>4, <2>5 DEF Flow, Totals
    <2>7. Flushed'
      BY <2>2, <2>3, <2>4, <2>5 DEF Flow, Flushed
    <2>8. QED
      BY <2>2, <2>6, <2>7 DEF Flow
  <1>38. CASE Finalize
    <2>1. Ordered' /\ Total' = Total /\ (samples' # <<>> => samples # <<>>)
      BY <1>38, <1>a, SamplesStay DEF Finalize, sampleVars
    <2>2. QED
      BY <1>38, <1>a, <2>1, ActorsAssumption
      DEF Finalize, Goto, Threads, ServiceThreads, stateVars, tickVars, runnerVars, Begun,
         Locks, Observing, Flow, Totals, Flushed, lockVars, envVars, Share, Release, Return
  <1>39. CASE FinishEnd
    <2>1. SetEnded /\ UNCHANGED <<tick, observed>> /\ pc["fin"] = "ended" /\ pc' = [pc EXCEPT !["fin"] = "idle"]
      BY <1>39 DEF FinishEnd, Goto, tickVars, envVars
    <2>2. /\ Ordered' /\ Total' = Total /\ state' = "ended"
          /\ samples' # <<>> => state = "ended" /\ samples # <<>>
      BY <1>a, <2>1, SamplesFlushed
    <2>3. pc["env"] = "read" /\ pc'["env"] = pc["env"] /\ pc'["start"] = pc["start"]
      BY <1>a, <2>1 DEF Locks, Threads, ServiceThreads
    <2>4. Totals' /\ Flushed'
      BY <2>1, <2>2, <2>3 DEF Flow, Totals, Flushed, Observing
    <2>5. QED
      BY <2>2, <2>4 DEF Flow
  <1>40. CASE UNCHANGED vars
    <2>1. Ordered' /\ Total' = Total /\ (samples' # <<>> => samples # <<>>)
      BY <1>40, <1>a, SamplesStay DEF vars, sampleVars
    <2>2. QED
      BY <1>40, <1>a, <2>1, ActorsAssumption
      DEF vars, stateVars, tickVars, runnerVars, Threads, ServiceThreads, Begun, Locks,
         Observing, Flow, Totals, Flushed, lockVars, envVars, Share, Release, Return
  <1>41. QED
    BY <1>1f, <1>22i, <1>32w, <1>1, <1>2, <1>3, <1>4, <1>5, <1>6, <1>7, <1>8, <1>9, <1>10, <1>11, <1>12, <1>13, <1>14,
       <1>15, <1>16, <1>17, <1>18, <1>19, <1>20, <1>21, <1>22, <1>23, <1>24, <1>25, <1>26,
       <1>27, <1>28, <1>29, <1>30, <1>31, <1>32, <1>33, <1>34, <1>35, <1>36, <1>37, <1>38,
       <1>39, <1>40
    DEF Next, Moves, Start, EnvThread, ActThread, FinThread, ActorThread, Leaving, Terminating,
        Finished

LEMMA FlowInit == Init => Locks /\ Flow
  <1> SUFFICES ASSUME Init PROVE Locks /\ Flow
    OBVIOUS
  <1>1. pc["env"] = "idle" /\ pc["start"] = "check" /\ pc["fin"] = "idle" /\ pc["act"] = "wait" /\ pc["rpc"] = "idle"
    BY ActorsAssumption DEF Init, Threads, ServiceThreads
  <1>2. Locks
    BY <1>1 DEF Init, Locks, Observing
  <1>3. samples = <<>> /\ log = <<>> /\ tick = 0 /\ observed = 0 /\ state = "initializing"
    BY DEF Init
  <1>4. Ordered /\ Total = 0
    BY <1>3, EmptySeq DEF Ordered, Total
  <1>5. QED
    BY <1>1, <1>2, <1>3, <1>4 DEF Flow, Totals, Flushed, Observing

\* The order, told of the log and the buffer, is that of the two together.
LEMMA FlowSuffices == TypeOK /\ Locks /\ Flow => AllSamplesLogged
  <1> SUFFICES ASSUME TypeOK, Locks, Flow PROVE AllSamplesLogged
    OBVIOUS
  <1>1. Ticks(samples) \in Seq(Nat) /\ Len(Ticks(samples)) = Len(samples)
        /\ \A i \in 1..Len(samples) : Ticks(samples)[i] = samples[i].tick
    <2>1. Ticks(samples) \in Seq(Nat) /\ Len(Ticks(samples)) = Len(samples)
      BY SamplesTypes, TicksType
    <2>2. QED
      BY <2>1 DEF Ticks
  <1> DEFINE all == log \o Ticks(samples)
  <1>2. /\ Len(all) = Len(log) + Len(samples)
        /\ \A i \in 1..Len(log) + Len(samples) :
             all[i] = IF i <= Len(log) THEN log[i] ELSE Ticks(samples)[i - Len(log)]
    <2> DEFINE more == Ticks(samples)
    <2>1. log \in Seq(Nat) /\ more \in Seq(Nat) /\ Len(more) = Len(samples)
      BY <1>1, SamplesTypes
    <2> HIDE DEF more
    <2>2. /\ Len(log \o more) = Len(log) + Len(more)
          /\ \A i \in 1..Len(log) + Len(more) :
               (log \o more)[i] = IF i <= Len(log) THEN log[i] ELSE more[i - Len(log)]
      BY <2>1, ConcatProperties
    <2>3. /\ Len(log \o more) = Len(log) + Len(samples)
          /\ \A i \in 1..Len(log) + Len(samples) :
               (log \o more)[i] = IF i <= Len(log) THEN log[i] ELSE more[i - Len(log)]
      BY <2>1, <2>2
    <2>4. QED
      BY <2>3 DEF more
  <1>3. ASSUME NEW i \in 1..Len(all) PROVE all[i] = i - 1
    <2> HIDE DEF all
    <2>1. CASE i <= Len(log)
      BY <1>2, <2>1, SamplesTypes DEF Flow, Ordered
    <2>2. CASE ~(i <= Len(log))
      <3> DEFINE j == i - Len(log)
      <3>1. j \in 1..Len(samples) /\ i = Len(log) + j
        BY <1>2, <2>2, SamplesTypes
      <3>2. all[i] = samples[j].tick
        BY <1>1, <1>2, <2>2, <3>1
      <3>3. samples[j].tick = Len(log) + j - 1
        BY <3>1 DEF Flow, Ordered
      <3>4. QED
        BY <3>1, <3>2, <3>3
    <2>3. QED
      BY <2>1, <2>2
  <1>4. ASSUME state = "ended", shared = {}, observed > 0 PROVE samples = <<>> /\ Len(log) = tick + 1
    <2>1. pc["env"] = "read"
      BY <1>4 DEF Locks, Flow, Totals
    <2>2. samples = <<>> /\ Total = tick + 1
      BY <1>4, <2>1 DEF Flow, Flushed, Totals
    <2>3. QED
      BY <2>2, EmptySeq, SamplesTypes DEF Total
  <1>5. QED
    BY <1>3, <1>4 DEF AllSamplesLogged, SamplesInOrder

\* Whatever breaks, leaves, is killed or times out, the datalog gets the samples of all
\* the ticks, once each and in order, and nothing stays in the buffer of a trial that
\* has ended.
THEOREM SamplesReachTheLog == Spec => []AllSamplesLogged
  <1>1. TypeOK /\ VictimNamed /\ Begun /\ Locks /\ Flow /\ [Next]_vars
        => TypeOK' /\ VictimNamed' /\ Begun' /\ Locks' /\ Flow'
    BY TypeStep, BegunStep, LocksStep, FlowStep
  <1>2. QED
    BY <1>1, TypeInit, BegunInit, FlowInit, FlowSuffices, PTL DEF Spec

-----------------------------------------------------------------------------
(* Where actions end.                                                      *)

\* Observations are of ticks that have a sample, actions are not newer than the sample
\* that was looked up for them, and no sample is ahead of the tick.
Answers ==
  /\ \A a \in Actors : \A k \in seen[a] :
       pc["env"] # "idle" /\ k <= tick /\ (pc["env"] = "sample" => k < tick)
  /\ \A a \in Actors : ptr[a] <= tick /\ (msg[a] = AUTO \/ msg[a] <= ptr[a])

\* The last sample is that of the tick, or of the tick before while a new one is made.
LEMMA LastTick ==
  ASSUME TypeOK, Locks, Flow, samples # <<>>, pc["env"] # "idle"
  PROVE  /\ Last(samples).tick \in Nat /\ Last(samples).tick <= tick
         /\ pc["env"] # "sample" => Last(samples).tick = tick
         /\ pc["env"] = "sample" => Last(samples).tick = tick - 1
  <1>1. Len(samples) \in 1..Len(samples) /\ Len(log) \in Nat /\ tick \in Nat
    BY SamplesTypes, EmptySeq
  <1>2. Last(samples).tick = Total - 1 /\ Total \in Nat /\ Total >= 1
    BY <1>1, SamplesTypes DEF Flow, Ordered, Total, Last
  <1>3. QED
    BY <1>1, <1>2 DEF Flow, Totals, Locks

\* An action given to a sample is the only thing that changes in it.
LEMMA ActsStay ==
  ASSUME TypeOK, NEW k, NEW x, NEW a \in Actors, samples' = WithAction(k, a, x)
  PROVE  /\ Len(samples') = Len(samples)
         /\ \A i \in 1..Len(samples) : samples'[i].tick = samples[i].tick
         /\ \A i \in 1..Len(samples), b \in Actors :
              \/ samples'[i].acts[b] = samples[i].acts[b]
              \/ samples'[i].acts[b] = x /\ samples[i].tick = k
  <1>1. Len(samples) \in Nat /\ \A i \in 1..Len(samples) : samples[i] \in Sample
    BY SamplesTypes
  <1>2. DOMAIN samples' = 1..Len(samples)
    BY DEF WithAction
  <1> DEFINE S == {samples'[i] : i \in 1..Len(samples)}
  <1>3. Len(samples') = Len(samples)
    <2>1. samples' \in [1..Len(samples) -> S]
      BY <1>2 DEF WithAction
    <2>2. samples' \in Seq(S)
      BY <1>1, <2>1, SeqDef
    <2>3. QED
      BY <1>1, <1>2, <2>2
  <1>4. ASSUME NEW i \in 1..Len(samples), NEW b \in Actors
        PROVE  /\ samples'[i].tick = samples[i].tick
               /\ \/ samples'[i].acts[b] = samples[i].acts[b]
                  \/ samples'[i].acts[b] = x /\ samples[i].tick = k
    <2>1. CASE samples[i].tick = k
      <3>1. samples'[i] = [samples[i] EXCEPT !.acts[a] = x]
        BY <2>1 DEF WithAction
      <3>2. samples'[i].tick = k /\ samples'[i].acts = [samples[i].acts EXCEPT ![a] = x]
        BY <1>1, <2>1, <3>1 DEF Sample
      <3>3. samples[i].acts \in [Actors -> Int]
        BY <1>1 DEF Sample
      <3>4. samples'[i].acts[b] = IF b = a THEN x ELSE samples[i].acts[b]
        BY <3>2, <3>3
      <3>5. QED
        BY <2>1, <3>2, <3>4
    <2>2. CASE samples[i].tick # k
      BY <2>2 DEF WithAction
    <2>3. QED
      BY <2>1, <2>2
  <1>5. ASSUME NEW i \in 1..Len(samples) PROVE samples'[i].tick = samples[i].tick
    BY <1>4, ActorsAssumption
  <1>6. QED
    BY <1>3, <1>4, <1>5

\* A new sample has no action.
LEMMA ActsAdded ==
  ASSUME TypeOK, samples' = Append(samples, NewSample(tick)),
         NEW i \in 1..Len(samples'), NEW a \in Actors
  PROVE  \/ samples'[i].acts[a] = NoData
         \/ i \in 1..Len(samples) /\ samples'[i] = samples[i]
  <1>1. NewSample(tick) \in Sample
    BY NewSampleType, SamplesTypes
  <1>2. /\ Len(samples') = Len(samples) + 1 /\ samples'[Len(samples) + 1] = NewSample(tick)
        /\ \A j \in 1..Len(samples) : samples'[j] = samples[j]
    BY <1>1, SamplesTypes
  <1>3. NewSample(tick).acts[a] = NoData
    BY DEF NewSample
  <1>4. QED
    BY <1>2, <1>3, SamplesTypes

\* A step that changes no sample, or only an action, which is of the sample's tick.
LEMMA OwnStays ==
  ASSUME TypeOK, ActionInOwnSample,
         \/ UNCHANGED samples
         \/ \E k, x : \E a \in Actors :
              samples' = WithAction(k, a, x) /\ x \in {NoData, AUTO, k}
  PROVE  ActionInOwnSample'
  <1>1. CASE UNCHANGED samples
    BY <1>1 DEF ActionInOwnSample
  <1>2. ASSUME NEW k, NEW x, NEW a \in Actors,
               samples' = WithAction(k, a, x), x \in {NoData, AUTO, k}
        PROVE  ActionInOwnSample'
    BY <1>2, ActsStay DEF ActionInOwnSample
  <1>3. QED
    BY <1>1, <1>2

\* Every step keeps it.
LEMMA AnswersStep == TypeOK /\ Begun /\ Locks /\ Flow /\ Answers /\ [Next]_vars => Answers'
  <1> SUFFICES ASSUME TypeOK, Begun, Locks, Flow, Answers, [Next]_vars
               PROVE  Answers'
    OBVIOUS
  <1>a. /\ pc \in [Threads -> Places] /\ tick \in Nat /\ seen \in [Actors -> SUBSET Nat]
        /\ msg \in [Actors -> Int] /\ ptr \in [Actors -> Int]
    BY DEF TypeOK, ThreadsOK, ComponentsOK, CountsOK
  <1>1. CASE StartCheck
    BY <1>1, <1>a, ActorsAssumption
    DEF StartCheck, Goto, stateVars, tickVars, sampleVars, runnerVars, lockVars, localVars,
        actorVars, envVars, Threads, ServiceThreads, Answers
  <1>1f. CASE StartEnvFails
    BY <1>1f, <1>a, ActorsAssumption
    DEF StartEnvFails, Goto, stateVars, tickVars, sampleVars, runnerVars, lockVars, localVars,
        actorVars, envVars, Threads, ServiceThreads, Answers
  <1>2. CASE StartPrepare
    BY <1>2, <1>a, ActorsAssumption
    DEF StartPrepare, Goto, stateVars, lockVars, localVars, actorVars, envVars, Threads,
        ServiceThreads, Answers
  <1>3. CASE StartPend
    BY <1>3, <1>a, ActorsAssumption
    DEF StartPend, Goto, tickVars, sampleVars, runnerVars, lockVars, localVars, actorVars,
        envVars, Threads, ServiceThreads, Answers
  <1>4. ASSUME NEW a \in Actors, JoinTimeout(a) PROVE Answers'
    BY <1>4, <1>a, ActorsAssumption
    DEF JoinTimeout, Goto, stateVars, tickVars, sampleVars, runnerVars, lockVars,
        actorVars, envVars, Threads, ServiceThreads, Answers
  <1>5. CASE StartEnv
    BY <1>5, <1>a, ActorsAssumption
    DEF StartEnv, stateVars, tickVars, sampleVars, runnerVars, lockVars, localVars,
        actorVars, Threads, ServiceThreads, Answers
  <1>6. CASE EnvEnds
    BY <1>6, <1>a, ActorsAssumption
    DEF EnvEnds, stateVars, tickVars, sampleVars, runnerVars, lockVars, localVars,
        actorVars, Threads, ServiceThreads, Answers
  <1>7. CASE EnvObserved
    BY <1>7, <1>a, ActorsAssumption
    DEF EnvObserved, Goto, Share, sampleVars, runnerVars, actorVars, Threads,
        ServiceThreads, Answers
  <1>8. CASE EnvSample
    BY <1>8, <1>a, ActorsAssumption
    DEF EnvSample, Goto, stateVars, runnerVars, lockVars, localVars, actorVars, envVars,
        Threads, ServiceThreads, Answers
  <1>9. CASE EnvRespond
    BY <1>9, <1>a, ActorsAssumption
    DEF EnvRespond, Runner!StartBegin, Goto, stateVars, tickVars, sampleVars, runnerVars,
        lockVars, actorVars, envVars, Threads, ServiceThreads, Answers
  <1>10. CASE EnvDispatch
    BY <1>10, <1>a, ActorsAssumption
    DEF EnvDispatch, Deliver, Goto, stateVars, tickVars, sampleVars, runnerVars, lockVars,
        envVars,
        Threads, ServiceThreads, Answers
  <1>11. ASSUME NEW a \in Actors, EnvWriteFails(a) PROVE Answers'
    BY <1>11, <1>a, ActorsAssumption
    DEF EnvWriteFails, Deliver, Goto, stateVars, tickVars, sampleVars, runnerVars, lockVars,
        envVars, Threads, ServiceThreads, Answers
  <1>12. CASE EnvStarted
    BY <1>12, <1>a, ActorsAssumption
    DEF EnvStarted, Runner!StartEnd, Goto, stateVars, tickVars, sampleVars, lockVars,
        localVars, actorVars, envVars, Threads, ServiceThreads, Answers
  <1>13. CASE EnvBalance
    BY <1>13, <1>a, ActorsAssumption
    DEF EnvBalance, Goto, Release, stateVars, tickVars, runnerVars, localVars, actorVars,
        envVars, Threads, ServiceThreads, Answers
  <1>14. CASE EnvFinish
    BY <1>14, <1>a, ActorsAssumption
    DEF EnvFinish, Goto, Release, tickVars, sampleVars, runnerVars, localVars, actorVars,
        envVars, Threads, ServiceThreads, Answers
  <1>15. CASE EnvBreaks
    BY <1>15, <1>a, ActorsAssumption
    DEF EnvBreaks, stateVars, tickVars, sampleVars, runnerVars, lockVars, localVars,
        actorVars, Threads, ServiceThreads, Answers
  <1>16. ASSUME NEW a \in Actors, Join(a) PROVE Answers'
    BY <1>16, <1>a, ActorsAssumption
    DEF Join, Goto, stateVars, tickVars, sampleVars, runnerVars, lockVars, localVars,
        envVars, Threads, ServiceThreads, Answers
  <1>17. ASSUME NEW a \in Actors, ReadAction(a) PROVE Answers'
    <2>1. CASE state = "ended" \/ samples = <<>>
      BY <1>17, <1>a, <2>1, ActorsAssumption
      DEF ReadAction, Answers, stateVars, tickVars, Threads, ServiceThreads
    <2>2. CASE ~(state = "ended" \/ samples = <<>>)
      <3>1. PICK k \in seen[a] :
              /\ seen' = [seen EXCEPT ![a] = @ \ {k}] /\ Goto(a, "record")
              /\ msg' = [msg EXCEPT ![a] = IF a \in AutoActors THEN AUTO ELSE k]
              /\ ptr' = [ptr EXCEPT ![a] = Last(samples).tick] /\ UNCHANGED tick
        BY <1>17, <2>2 DEF ReadAction, tickVars
      <3>2. pc["env"] # "idle" /\ k <= tick /\ (pc["env"] = "sample" => k < tick) /\ k \in Nat
        BY <1>a, <3>1 DEF Answers
      <3>3. Last(samples).tick \in Nat /\ Last(samples).tick <= tick /\ k <= Last(samples).tick
        BY <1>a, <2>2, <3>2, LastTick
      <3>4. pc'["env"] = pc["env"]
        BY <1>a, <3>1, ActorsAssumption DEF Goto, Threads, ServiceThreads
      <3>5. \A x \in Actors : \A j \in seen'[x] :
              pc'["env"] # "idle" /\ j <= tick' /\ (pc'["env"] = "sample" => j < tick')
        BY <1>a, <3>1, <3>4 DEF Answers
      <3>6. \A x \in Actors : ptr'[x] <= tick' /\ (msg'[x] = AUTO \/ msg'[x] <= ptr'[x])
        BY <1>a, <3>1, <3>3 DEF Answers
      <3>7. QED
        BY <3>5, <3>6 DEF Answers
    <2>3. QED
      BY <2>1, <2>2
  <1>18. ASSUME NEW a \in Actors, RecordAction(a) PROVE Answers'
    BY <1>18, <1>a, ActorsAssumption
    DEF RecordAction, Goto, stateVars, tickVars, runnerVars, lockVars, localVars,
        actorVars, envVars, Threads, ServiceThreads, Answers
  <1>19. ASSUME NEW a \in Actors, IgnoreAction(a) PROVE Answers'
    BY <1>19, <1>a, ActorsAssumption
    DEF NoData, IgnoreAction, Return, Goto, Release, stateVars, tickVars, sampleVars,
        runnerVars,
        actorVars, envVars, Threads, ServiceThreads, Answers
  <1>20. ASSUME NEW a \in Actors, SignalAction(a) PROVE Answers'
    BY <1>20, <1>a, ActorsAssumption
    DEF NoData, SignalAction, Runner!Signal, Runner!LockFree, Return, Goto, Release, stateVars,
        sampleVars, actorVars, envVars, Threads, ServiceThreads, Answers
  <1>21. ASSUME NEW a \in Actors, StreamBreaks(a) PROVE Answers'
    BY <1>21, <1>a, ActorsAssumption
    DEF StreamBreaks, stateVars, tickVars, sampleVars, runnerVars, lockVars, localVars,
        envVars, Threads, ServiceThreads, Answers
  <1>22. ASSUME NEW a \in Actors, StreamEnds(a) PROVE Answers'
    BY <1>22, <1>a, ActorsAssumption
    DEF StreamEnds, Goto, stateVars, tickVars, sampleVars, runnerVars, lockVars, localVars,
        actorVars, envVars, Threads, ServiceThreads, Answers
  <1>22i. ASSUME NEW a \in Actors, InitFails(a) PROVE Answers'
    BY <1>22i, <1>a, ActorsAssumption
    DEF InitFails, Goto, stateVars, tickVars, sampleVars, runnerVars, lockVars, localVars,
        actorVars, envVars, Threads, ServiceThreads, Answers
  <1>23. ASSUME NEW t \in Actors \cup {"env", "start"}, Disengage(t) PROVE Answers'
    BY <1>23, <1>a, ActorsAssumption
    DEF Disengage, Leaver, AfterLeave, Goto, stateVars, tickVars, runnerVars, lockVars,
        localVars, envVars, Threads, ServiceThreads, Answers
  <1>24. ASSUME NEW t \in Actors \cup {"env", "start"}, RemoveActor(t) PROVE Answers'
    BY <1>24, <1>a, ActorsAssumption
    DEF RemoveActor, Runner!Remove, Leaver, AfterLeave, Goto, stateVars, sampleVars,
        lockVars, localVars, actorVars, envVars, Threads, ServiceThreads, Answers
  <1>25. CASE RunnerWakes
    BY <1>25, <1>a, ActorsAssumption
    DEF RunnerWakes, Runner!Wake, stateVars, sampleVars, lockVars, localVars, actorVars,
        envVars, Threads, ServiceThreads, Answers
  <1>26. CASE RunnerExpires
    BY <1>26, <1>a, ActorsAssumption
    DEF RunnerExpires, Runner!Expire, stateVars, sampleVars, lockVars, localVars,
        actorVars, envVars, Threads, ServiceThreads, Answers
  <1>27. CASE ActWait
    BY <1>27, <1>a, ActorsAssumption
    DEF ActWait, Goto, stateVars, tickVars, sampleVars, runnerVars, lockVars, localVars,
        actorVars, envVars, Threads, ServiceThreads, Answers
  <1>28. CASE ActCount
    BY <1>28, <1>a, ActorsAssumption
    DEF ActCount, Goto, stateVars, tickVars, sampleVars, runnerVars, lockVars, localVars,
        actorVars, envVars, Threads, ServiceThreads, Answers
  <1>29. CASE ActClaim
    BY <1>29, <1>a, ActorsAssumption
    DEF ActClaim, Goto, stateVars, sampleVars, runnerVars, lockVars, localVars, actorVars,
        envVars, Threads, ServiceThreads, Answers
  <1>30. CASE ActLock
    BY <1>30, <1>a, ActorsAssumption
    DEF ActLock, Goto, Share, tickVars, sampleVars, runnerVars, lockVars, actorVars,
        envVars, Threads, ServiceThreads, Answers
  <1>31. CASE ActSend
    BY <1>31, <1>a, ActorsAssumption
    DEF ActSend, Goto, Release, stateVars, tickVars, sampleVars, runnerVars, actorVars,
        Threads, ServiceThreads, Answers
  <1>32. CASE ActFails
    BY <1>32, <1>a, ActorsAssumption
    DEF ActFails, Goto, Release, stateVars, tickVars, sampleVars, runnerVars, actorVars,
        envVars, Threads, ServiceThreads, Answers
  <1>32w. CASE ActWriteFails
    BY <1>32w, <1>a, ActorsAssumption
    DEF ActWriteFails, Goto, Release, stateVars, tickVars, sampleVars, runnerVars, actorVars,
        envVars, Threads, ServiceThreads, Answers
  <1>33. CASE RequestEnd
    BY <1>33, <1>a, ActorsAssumption
    DEF RequestEnd, tickVars, sampleVars, runnerVars, lockVars, localVars, actorVars,
        envVars, Threads, ServiceThreads, Answers
  <1>34. CASE Kill
    BY <1>34, <1>a, ActorsAssumption
    DEF Kill, Goto, stateVars, tickVars, sampleVars, runnerVars, lockVars, localVars,
        actorVars, envVars, Threads, ServiceThreads, Answers
  <1>35. ASSUME NEW t \in {"act", "start", "rpc"}, Terminate(t) PROVE Answers'
    BY <1>35, <1>a, ActorsAssumption
    DEF Terminate, AfterTerminate, Goto, tickVars, sampleVars, runnerVars, localVars,
        actorVars, envVars, Threads, ServiceThreads, Answers
  <1>36. ASSUME NEW t \in {"act", "start", "rpc"}, TerminateStreams(t) PROVE Answers'
    BY <1>36, <1>a, ActorsAssumption
    DEF TerminateStreams, Goto, stateVars, tickVars, sampleVars, runnerVars, lockVars,
        localVars, Threads, ServiceThreads, Answers
  <1>37. ASSUME NEW t \in {"act", "start", "rpc"}, TerminateEnd(t) PROVE Answers'
    BY <1>37, <1>a, ActorsAssumption
    DEF TerminateEnd, SetEnded, AfterTerminate, Goto, tickVars, runnerVars, localVars,
        actorVars, envVars, Threads, ServiceThreads, Answers
  <1>38. CASE Finalize
    BY <1>38, <1>a, ActorsAssumption
    DEF Finalize, Goto, stateVars, tickVars, sampleVars, runnerVars, lockVars, localVars,
        Threads, ServiceThreads, Answers
  <1>39. CASE FinishEnd
    BY <1>39, <1>a, ActorsAssumption
    DEF FinishEnd, SetEnded, Goto, tickVars, runnerVars, lockVars, localVars, actorVars,
        envVars, Threads, ServiceThreads, Answers
  <1>40. CASE UNCHANGED vars
    BY <1>40, <1>a, ActorsAssumption
    DEF vars, stateVars, tickVars, sampleVars, runnerVars, lockVars, localVars, actorVars,
        envVars, Threads, ServiceThreads, Answers
  <1>41. QED
    BY <1>1f, <1>22i, <1>32w, <1>1, <1>2, <1>3, <1>4, <1>5, <1>6, <1>7, <1>8, <1>9, <1>10, <1>11, <1>12, <1>13,
       <1>14, <1>15, <1>16, <1>17, <1>18, <1>19, <1>20, <1>21, <1>22, <1>23, <1>24, <1>25,
       <1>26, <1>27, <1>28, <1>29, <1>30, <1>31, <1>32, <1>33, <1>34, <1>35, <1>36, <1>37,
       <1>38, <1>39, <1>40
    DEF Next, Moves, Start, EnvThread, ActThread, FinThread, ActorThread, Leaving, Terminating,
        Finished

\* Every step keeps the property itself.
LEMMA OwnSampleStep == TypeOK /\ VictimNamed /\ Answers /\ ActionInOwnSample /\ [Next]_vars => ActionInOwnSample'
  <1> SUFFICES ASSUME TypeOK, VictimNamed, Answers, ActionInOwnSample, [Next]_vars
               PROVE  ActionInOwnSample'
    OBVIOUS
  <1>a. samples \in Seq(Sample)
    BY SamplesTypes
  <1>1. CASE StartCheck
    BY <1>1, <1>a
    DEF StartCheck, Goto, stateVars, tickVars, sampleVars, runnerVars, lockVars, localVars,
        actorVars, envVars, ActionInOwnSample
  <1>1f. CASE StartEnvFails
    BY <1>1f, <1>a
    DEF StartEnvFails, Goto, stateVars, tickVars, sampleVars, runnerVars, lockVars, localVars,
        actorVars, envVars, ActionInOwnSample
  <1>2. CASE StartPrepare
    BY <1>2, ActsAdded DEF StartPrepare, ActionInOwnSample
  <1>3. CASE StartPend
    BY <1>3, <1>a
    DEF StartPend, Goto, tickVars, sampleVars, runnerVars, lockVars, localVars, actorVars,
        envVars, ActionInOwnSample
  <1>4. ASSUME NEW a \in Actors, JoinTimeout(a) PROVE ActionInOwnSample'
    BY <1>4, <1>a
    DEF JoinTimeout, Goto, stateVars, tickVars, sampleVars, runnerVars, lockVars,
        actorVars, envVars, ActionInOwnSample
  <1>5. CASE StartEnv
    BY <1>5, <1>a
    DEF StartEnv, stateVars, tickVars, sampleVars, runnerVars, lockVars, localVars,
        actorVars, ActionInOwnSample
  <1>6. CASE EnvEnds
    BY <1>6, <1>a
    DEF EnvEnds, stateVars, tickVars, sampleVars, runnerVars, lockVars, localVars,
        actorVars, ActionInOwnSample
  <1>7. CASE EnvObserved
    BY <1>7, <1>a
    DEF EnvObserved, Goto, Share, sampleVars, runnerVars, actorVars, ActionInOwnSample
  <1>8. CASE EnvSample
    BY <1>8, ActsAdded DEF EnvSample, ActionInOwnSample
  <1>9. CASE EnvRespond
    BY <1>9, <1>a
    DEF EnvRespond, Runner!StartBegin, Goto, stateVars, tickVars, sampleVars, runnerVars,
        lockVars, actorVars, envVars, ActionInOwnSample
  <1>10. CASE EnvDispatch
    BY <1>10, <1>a
    DEF EnvDispatch, Goto, stateVars, tickVars, sampleVars, runnerVars, lockVars, envVars,
        ActionInOwnSample
  <1>11. ASSUME NEW a \in Actors, EnvWriteFails(a) PROVE ActionInOwnSample'
    BY <1>11, <1>a
    DEF EnvWriteFails, Goto, stateVars, tickVars, sampleVars, runnerVars, lockVars,
        envVars, ActionInOwnSample
  <1>12. CASE EnvStarted
    BY <1>12, <1>a
    DEF EnvStarted, Runner!StartEnd, Goto, stateVars, tickVars, sampleVars, lockVars,
        localVars, actorVars, envVars, ActionInOwnSample
  <1>13. CASE EnvBalance
    <2> DEFINE n == IF Len(samples) >= NbBuffered THEN Len(samples) - NbBuffered + 1 ELSE 0
    <2>1. n \in 0..Len(samples) /\ samples' = SubSeq(samples, n + 1, Len(samples))
      BY <1>13, SamplesTypes, BoundsAssumption DEF EnvBalance
    <2> HIDE DEF n
    <2>2. Len(samples') = Len(samples) - n /\ \A i \in 1..Len(samples') : samples'[i] = samples[n + i]
      BY <2>1, <1>a, SamplesTypes
    <2>3. \A i \in 1..Len(samples') : n + i \in 1..Len(samples)
      BY <2>1, <2>2, SamplesTypes
    <2>4. QED
      BY <2>2, <2>3 DEF ActionInOwnSample
  <1>14. CASE EnvFinish
    BY <1>14, <1>a
    DEF EnvFinish, Goto, Release, tickVars, sampleVars, runnerVars, localVars, actorVars,
        envVars, ActionInOwnSample
  <1>15. CASE EnvBreaks
    BY <1>15, <1>a
    DEF EnvBreaks, stateVars, tickVars, sampleVars, runnerVars, lockVars, localVars,
        actorVars, ActionInOwnSample
  <1>16. ASSUME NEW a \in Actors, Join(a) PROVE ActionInOwnSample'
    BY <1>16, <1>a
    DEF Join, Goto, stateVars, tickVars, sampleVars, runnerVars, lockVars, localVars,
        envVars, ActionInOwnSample
  <1>17. ASSUME NEW a \in Actors, ReadAction(a) PROVE ActionInOwnSample'
    BY <1>17, <1>a
    DEF ReadAction, Goto, Share, stateVars, tickVars, sampleVars, runnerVars, lockVars,
        envVars, ActionInOwnSample
  <1>18. ASSUME NEW a \in Actors, RecordAction(a) PROVE ActionInOwnSample'
    <2>1. samples' = WithAction(ptr[a], a, msg[a]) /\ msg[a] \in {AUTO, tick}
      BY <1>18 DEF RecordAction
    <2>2. ptr[a] <= tick /\ (msg[a] = AUTO \/ msg[a] <= ptr[a]) /\ tick \in Nat /\ ptr[a] \in Int
      BY SamplesTypes DEF Answers, TypeOK, ThreadsOK
    <2>3. msg[a] \in {NoData, AUTO, ptr[a]}
      BY <2>1, <2>2
    <2>4. QED
      BY <2>1, <2>3, OwnStays
  <1>19. ASSUME NEW a \in Actors, IgnoreAction(a) PROVE ActionInOwnSample'
    BY <1>19, <1>a
    DEF IgnoreAction, Return, Goto, Release, stateVars, tickVars, sampleVars, runnerVars,
        actorVars, envVars, ActionInOwnSample
  <1>20. ASSUME NEW a \in Actors, SignalAction(a) PROVE ActionInOwnSample'
    BY <1>20, <1>a
    DEF SignalAction, Runner!Signal, Runner!LockFree, Return, Goto, Release, stateVars,
        sampleVars, actorVars, envVars, ActionInOwnSample
  <1>21. ASSUME NEW a \in Actors, StreamBreaks(a) PROVE ActionInOwnSample'
    BY <1>21, <1>a
    DEF StreamBreaks, stateVars, tickVars, sampleVars, runnerVars, lockVars, localVars,
        envVars, ActionInOwnSample
  <1>22. ASSUME NEW a \in Actors, StreamEnds(a) PROVE ActionInOwnSample'
    BY <1>22, <1>a
    DEF StreamEnds, Goto, stateVars, tickVars, sampleVars, runnerVars, lockVars, localVars,
        actorVars, envVars, ActionInOwnSample
  <1>22i. ASSUME NEW a \in Actors, InitFails(a) PROVE ActionInOwnSample'
    BY <1>22i, <1>a
    DEF InitFails, Goto, stateVars, tickVars, sampleVars, runnerVars, lockVars, localVars,
        actorVars, envVars, ActionInOwnSample
  <1>23. ASSUME NEW t \in Actors \cup {"env", "start"}, Disengage(t) PROVE ActionInOwnSample'
    <2>1. Leaver(t) \in Actors
      BY <1>23, ActorsAssumption DEF Disengage, Leaver, VictimNamed, ServiceThreads
    <2>2. QED
      BY <1>23, <2>1, OwnStays DEF Disengage
  <1>24. ASSUME NEW t \in Actors \cup {"env", "start"}, RemoveActor(t) PROVE ActionInOwnSample'
    BY <1>24, <1>a
    DEF RemoveActor, Runner!Remove, Leaver, AfterLeave, Goto, stateVars, sampleVars,
        lockVars, localVars, actorVars, envVars, ActionInOwnSample
  <1>25. CASE RunnerWakes
    BY <1>25, <1>a
    DEF RunnerWakes, Runner!Wake, stateVars, sampleVars, lockVars, localVars, actorVars,
        envVars, ActionInOwnSample
  <1>26. CASE RunnerExpires
    BY <1>26, <1>a
    DEF RunnerExpires, Runner!Expire, stateVars, sampleVars, lockVars, localVars,
        actorVars, envVars, ActionInOwnSample
  <1>27. CASE ActWait
    BY <1>27, <1>a
    DEF ActWait, Goto, stateVars, tickVars, sampleVars, runnerVars, lockVars, localVars,
        actorVars, envVars, ActionInOwnSample
  <1>28. CASE ActCount
    BY <1>28, <1>a
    DEF ActCount, Goto, stateVars, tickVars, sampleVars, runnerVars, lockVars, localVars,
        actorVars, envVars, ActionInOwnSample
  <1>29. CASE ActClaim
    BY <1>29, <1>a
    DEF ActClaim, Goto, stateVars, sampleVars, runnerVars, lockVars, localVars, actorVars,
        envVars, ActionInOwnSample
  <1>30. CASE ActLock
    BY <1>30, <1>a
    DEF ActLock, Goto, Share, tickVars, sampleVars, runnerVars, lockVars, actorVars,
        envVars, ActionInOwnSample
  <1>31. CASE ActSend
    BY <1>31, <1>a
    DEF ActSend, Goto, Release, stateVars, tickVars, sampleVars, runnerVars, actorVars,
        ActionInOwnSample
  <1>32. CASE ActFails
    BY <1>32, <1>a
    DEF ActFails, Goto, Release, stateVars, tickVars, sampleVars, runnerVars, actorVars,
        envVars, ActionInOwnSample
  <1>32w. CASE ActWriteFails
    BY <1>32w, <1>a
    DEF ActWriteFails, Goto, Release, stateVars, tickVars, sampleVars, runnerVars, actorVars,
        envVars, ActionInOwnSample
  <1>33. CASE RequestEnd
    BY <1>33, <1>a
    DEF RequestEnd, tickVars, sampleVars, runnerVars, lockVars, localVars, actorVars,
        envVars, ActionInOwnSample
  <1>34. CASE Kill
    BY <1>34, <1>a
    DEF Kill, Goto, stateVars, tickVars, sampleVars, runnerVars, lockVars, localVars,
        actorVars, envVars, ActionInOwnSample
  <1>35. ASSUME NEW t \in {"act", "start", "rpc"}, Terminate(t) PROVE ActionInOwnSample'
    BY <1>35, <1>a
    DEF Terminate, AfterTerminate, Goto, tickVars, sampleVars, runnerVars, localVars,
        actorVars, envVars, ActionInOwnSample
  <1>36. ASSUME NEW t \in {"act", "start", "rpc"}, TerminateStreams(t) PROVE ActionInOwnSample'
    BY <1>36, <1>a
    DEF TerminateStreams, Goto, stateVars, tickVars, sampleVars, runnerVars, lockVars,
        localVars, ActionInOwnSample
  <1>37. ASSUME NEW t \in {"act", "start", "rpc"}, TerminateEnd(t) PROVE ActionInOwnSample'
    BY <1>37, <1>a
    DEF TerminateEnd, SetEnded, AfterTerminate, Goto, tickVars, runnerVars, localVars,
        actorVars, envVars, ActionInOwnSample
  <1>38. CASE Finalize
    BY <1>38, <1>a
    DEF Finalize, Goto, stateVars, tickVars, sampleVars, runnerVars, lockVars, localVars,
        ActionInOwnSample
  <1>39. CASE FinishEnd
    BY <1>39, <1>a
    DEF FinishEnd, SetEnded, Goto, tickVars, runnerVars, lockVars, localVars, actorVars,
        envVars, ActionInOwnSample
  <1>40. CASE UNCHANGED vars
    BY <1>40, <1>a
    DEF vars, stateVars, tickVars, sampleVars, runnerVars, lockVars, localVars, actorVars,
        envVars, ActionInOwnSample
  <1>41. QED
    BY <1>1f, <1>22i, <1>32w, <1>1, <1>2, <1>3, <1>4, <1>5, <1>6, <1>7, <1>8, <1>9, <1>10, <1>11, <1>12, <1>13,
       <1>14, <1>15, <1>16, <1>17, <1>18, <1>19, <1>20, <1>21, <1>22, <1>23, <1>24, <1>25,
       <1>26, <1>27, <1>28, <1>29, <1>30, <1>31, <1>32, <1>33, <1>34, <1>35, <1>36, <1>37,
       <1>38, <1>39, <1>40
    DEF Next, Moves, Start, EnvThread, ActThread, FinThread, ActorThread, Leaving, Terminating,
        Finished

\* Every action recorded with a tick id is in the sample of that tick, for any number of
\* actors whose threads race with the environment's for the last sample.
THEOREM ActionsInOwnSample == Spec => []ActionInOwnSample
  <1>1. Init => Answers /\ ActionInOwnSample
    BY DEF Init, Answers, ActionInOwnSample, AUTO, NoData
  <1>2. TypeOK /\ VictimNamed /\ Begun /\ Locks /\ Flow /\ Answers /\ ActionInOwnSample /\ [Next]_vars
        => TypeOK' /\ VictimNamed' /\ Begun' /\ Locks' /\ Flow' /\ Answers' /\ ActionInOwnSample'
    BY TypeStep, BegunStep, LocksStep, FlowStep, AnswersStep, OwnSampleStep
  <1>3. QED
    BY <1>1, <1>2, TypeInit, BegunInit, FlowInit, PTL DEF Spec

-----------------------------------------------------------------------------
(* Observations and actions take turns.                                    *)

\* The first observations start the run, each of the next ones starts a tick; the action
\* thread sends at most one set for each tick it claimed.
Turns ==
  /\ observed = 0 => state \in {"initializing", "pending", "ended"} /\ tick = 0
  /\ observed > 0 => state \in {"running", "terminating", "ended"} /\ tick = observed - 1
  /\ pc["env"] \in Observing => observed > 0
  /\ Len(sets) <= lastAction + 1
  /\ pc["act"] \in {"lock", "send"} => Len(sets) <= lastAction

\* Every step keeps it.
LEMMA TurnsStep == TypeOK /\ Begun /\ Locks /\ Turns /\ [Next]_vars => Turns'
  <1> SUFFICES ASSUME TypeOK, Begun, Locks, Turns, [Next]_vars
               PROVE  Turns'
    OBVIOUS
  <1>a. /\ pc \in [Threads -> Places] /\ tick \in Nat /\ observed \in Nat
        /\ lastAction \in -1..tick /\ sets \in Seq(ActionSet) /\ Len(sets) \in Nat
    BY DEF TypeOK, ThreadsOK, CountsOK, ComponentsOK
  <1>1. CASE StartCheck
    BY <1>1, <1>a
    DEF StartCheck, Goto, stateVars, tickVars, sampleVars, runnerVars, lockVars, localVars,
        actorVars, envVars, Threads, ServiceThreads, Observing, Turns
  <1>1f. CASE StartEnvFails
    BY <1>1f, <1>a
    DEF StartEnvFails, Goto, stateVars, tickVars, sampleVars, runnerVars, lockVars, localVars,
        actorVars, envVars, Threads, ServiceThreads, Observing, Turns
  <1>2. CASE StartPrepare
    BY <1>2, <1>a
    DEF StartPrepare, Goto, stateVars, lockVars, localVars, actorVars, envVars, Threads,
        ServiceThreads, Observing, Turns
  <1>3. CASE StartPend
    BY <1>3, <1>a, ActorsAssumption
    DEF StartPend, Begun, Goto, tickVars, envVars, Threads, ServiceThreads, Observing, Turns
  <1>4. ASSUME NEW a \in Actors, JoinTimeout(a) PROVE Turns'
    BY <1>4, <1>a
    DEF JoinTimeout, Goto, stateVars, tickVars, sampleVars, runnerVars, lockVars,
        actorVars, envVars, Threads, ServiceThreads, Observing, Turns
  <1>5. CASE StartEnv
    BY <1>5, <1>a
    DEF StartEnv, stateVars, tickVars, sampleVars, runnerVars, lockVars, localVars,
        actorVars, Threads, ServiceThreads, Observing, Turns
  <1>6. CASE EnvEnds
    BY <1>6, <1>a
    DEF EnvEnds, stateVars, tickVars, sampleVars, runnerVars, lockVars, localVars,
        actorVars, Threads, ServiceThreads, Observing, Turns
  <1>7. CASE EnvObserved
    <2>1. pc["start"] = "idle" /\ state # "initializing"
      BY <1>7 DEF EnvObserved, Begun
    <2>2. QED
      BY <1>7, <1>a, <2>1
      DEF EnvObserved, Goto, Threads, ServiceThreads, Observing, Turns
  <1>8. CASE EnvSample
    BY <1>8, <1>a
    DEF EnvSample, Goto, stateVars, runnerVars, lockVars, localVars, actorVars, envVars,
        Threads, ServiceThreads, Observing, Turns
  <1>9. CASE EnvRespond
    BY <1>9, <1>a
    DEF EnvRespond, Runner!StartBegin, Goto, stateVars, tickVars, sampleVars, runnerVars,
        lockVars, actorVars, envVars, Threads, ServiceThreads, Observing, Turns
  <1>10. CASE EnvDispatch
    BY <1>10, <1>a
    DEF EnvDispatch, Goto, stateVars, tickVars, sampleVars, runnerVars, lockVars, envVars,
        Threads, ServiceThreads, Observing, Turns
  <1>11. ASSUME NEW a \in Actors, EnvWriteFails(a) PROVE Turns'
    BY <1>11, <1>a
    DEF EnvWriteFails, Goto, stateVars, tickVars, sampleVars, runnerVars, lockVars,
        envVars, Threads, ServiceThreads, Observing, Turns
  <1>12. CASE EnvStarted
    BY <1>12, <1>a
    DEF EnvStarted, Runner!StartEnd, Goto, stateVars, tickVars, sampleVars, lockVars,
        localVars, actorVars, envVars, Threads, ServiceThreads, Observing, Turns
  <1>13. CASE EnvBalance
    BY <1>13, <1>a
    DEF EnvBalance, Goto, Release, stateVars, tickVars, runnerVars, localVars, actorVars,
        envVars, Threads, ServiceThreads, Observing, Turns
  <1>14. CASE EnvFinish
    BY <1>14, <1>a
    DEF EnvFinish, Goto, Release, tickVars, sampleVars, runnerVars, localVars, actorVars,
        envVars, Threads, ServiceThreads, Observing, Turns
  <1>15. CASE EnvBreaks
    BY <1>15, <1>a
    DEF EnvBreaks, stateVars, tickVars, sampleVars, runnerVars, lockVars, localVars,
        actorVars, Threads, ServiceThreads, Observing, Turns
  <1>16. ASSUME NEW a \in Actors, Join(a) PROVE Turns'
    BY <1>16, <1>a
    DEF Join, Goto, stateVars, tickVars, sampleVars, runnerVars, lockVars, localVars,
        envVars, Threads, ServiceThreads, Observing, Turns
  <1>17. ASSUME NEW a \in Actors, ReadAction(a) PROVE Turns'
    BY <1>17, <1>a
    DEF ReadAction, Goto, Share, stateVars, tickVars, sampleVars, runnerVars, lockVars,
        envVars, Threads, ServiceThreads, Observing, Turns
  <1>18. ASSUME NEW a \in Actors, RecordAction(a) PROVE Turns'
    BY <1>18, <1>a
    DEF RecordAction, Goto, stateVars, tickVars, runnerVars, lockVars, localVars,
        actorVars, envVars, Threads, ServiceThreads, Observing, Turns
  <1>19. ASSUME NEW a \in Actors, IgnoreAction(a) PROVE Turns'
    BY <1>19, <1>a
    DEF IgnoreAction, Return, Goto, Release, stateVars, tickVars, sampleVars, runnerVars,
        actorVars, envVars, Threads, ServiceThreads, Observing, Turns
  <1>20. ASSUME NEW a \in Actors, SignalAction(a) PROVE Turns'
    BY <1>20, <1>a
    DEF SignalAction, Runner!Signal, Runner!LockFree, Return, Goto, Release, stateVars,
        sampleVars, actorVars, envVars, Threads, ServiceThreads, Observing, Turns
  <1>21. ASSUME NEW a \in Actors, StreamBreaks(a) PROVE Turns'
    BY <1>21, <1>a
    DEF StreamBreaks, stateVars, tickVars, sampleVars, runnerVars, lockVars, localVars,
        envVars, Threads, ServiceThreads, Observing, Turns
  <1>22. ASSUME NEW a \in Actors, StreamEnds(a) PROVE Turns'
    BY <1>22, <1>a, ActorsAssumption
    DEF StreamEnds, Goto, stateVars, tickVars, envVars, Threads, ServiceThreads, Observing,
        Turns
  <1>22i. ASSUME NEW a \in Actors, InitFails(a) PROVE Turns'
    BY <1>22i, <1>a, ActorsAssumption
    DEF InitFails, Goto, stateVars, tickVars, envVars, Threads, ServiceThreads, Observing,
        Turns
  <1>23. ASSUME NEW t \in Actors \cup {"env", "start"}, Disengage(t) PROVE Turns'
    <2>1. UNCHANGED <<state, tick, lastAction, observed, sets>> /\ pc[t] = "leave"
          /\ pc' \in {[pc EXCEPT ![t] = AfterLeave(t)], [pc EXCEPT ![t] = "remove"]}
      BY <1>23 DEF Disengage, Goto, stateVars, tickVars, envVars
    <2>2. QED
      BY <1>a, <2>1, ActorsAssumption
      DEF AfterLeave, Threads, ServiceThreads, Observing, Turns
  <1>24. ASSUME NEW t \in Actors \cup {"env", "start"}, RemoveActor(t) PROVE Turns'
    BY <1>24, <1>a
    DEF RemoveActor, Runner!Remove, Leaver, AfterLeave, Goto, stateVars, sampleVars,
        lockVars, localVars, actorVars, envVars, Threads, ServiceThreads, Observing, Turns
  <1>25. CASE RunnerWakes
    BY <1>25, <1>a
    DEF RunnerWakes, Runner!Wake, stateVars, sampleVars, lockVars, localVars, actorVars,
        envVars, Threads, ServiceThreads, Observing, Turns
  <1>26. CASE RunnerExpires
    BY <1>26, <1>a
    DEF RunnerExpires, Runner!Expire, stateVars, sampleVars, lockVars, localVars,
        actorVars, envVars, Threads, ServiceThreads, Observing, Turns
  <1>27. CASE ActWait
    BY <1>27, <1>a
    DEF ActWait, Goto, stateVars, tickVars, sampleVars, runnerVars, lockVars, localVars,
        actorVars, envVars, Threads, ServiceThreads, Observing, Turns
  <1>28. CASE ActCount
    BY <1>28, <1>a
    DEF ActCount, Goto, stateVars, tickVars, sampleVars, runnerVars, lockVars, localVars,
        actorVars, envVars, Threads, ServiceThreads, Observing, Turns
  <1>29. CASE ActClaim
    BY <1>29, <1>a
    DEF ActClaim, Goto, stateVars, sampleVars, runnerVars, lockVars, localVars, actorVars,
        envVars, Threads, ServiceThreads, Observing, Turns
  <1>30. CASE ActLock
    BY <1>30, <1>a
    DEF ActLock, Begun, Goto, envVars, tickVars, Threads, ServiceThreads, Observing, Turns
  <1>31. CASE ActSend
    <2>1. Len(sets') = Len(sets) + 1
      BY <1>31, <1>a DEF ActSend
    <2>2. pc["act"] = "send" /\ pc' = [pc EXCEPT !["act"] = "wait"]
          /\ UNCHANGED <<state, tick, lastAction, observed>>
      BY <1>31 DEF ActSend, Goto, stateVars, tickVars
    <2>3. QED
      BY <1>a, <2>1, <2>2 DEF Threads, ServiceThreads, Observing, Turns
  <1>32. CASE ActFails
    BY <1>32, <1>a
    DEF ActFails, Goto, Release, stateVars, tickVars, sampleVars, runnerVars, actorVars,
        envVars, Threads, ServiceThreads, Observing, Turns
  <1>32w. CASE ActWriteFails
    BY <1>32w, <1>a
    DEF ActWriteFails, Goto, Release, stateVars, tickVars, sampleVars, runnerVars, actorVars,
        envVars, Threads, ServiceThreads, Observing, Turns
  <1>33. CASE RequestEnd
    BY <1>33, <1>a
    DEF RequestEnd, tickVars, sampleVars, runnerVars, lockVars, localVars, actorVars,
        envVars, Threads, ServiceThreads, Observing, Turns
  <1>34. CASE Kill
    BY <1>34, <1>a
    DEF Kill, Goto, stateVars, tickVars, sampleVars, runnerVars, lockVars, localVars,
        actorVars, envVars, Threads, ServiceThreads, Observing, Turns
  <1>35. ASSUME NEW t \in {"act", "start", "rpc"}, Terminate(t) PROVE Turns'
    BY <1>35, <1>a
    DEF Terminate, AfterTerminate, Goto, tickVars, sampleVars, runnerVars, localVars,
        actorVars, envVars, Threads, ServiceThreads, Observing, Turns
  <1>36. ASSUME NEW t \in {"act", "start", "rpc"}, TerminateStreams(t) PROVE Turns'
    BY <1>36, <1>a
    DEF TerminateStreams, Goto, stateVars, tickVars, sampleVars, runnerVars, lockVars,
        localVars, Threads, ServiceThreads, Observing, Turns
  <1>37. ASSUME NEW t \in {"act", "start", "rpc"}, TerminateEnd(t) PROVE Turns'
    BY <1>37, <1>a
    DEF TerminateEnd, SetEnded, AfterTerminate, Goto, tickVars, runnerVars, localVars,
        actorVars, envVars, Threads, ServiceThreads, Observing, Turns
  <1>38. CASE Finalize
    BY <1>38, <1>a
    DEF Finalize, Goto, stateVars, tickVars, sampleVars, runnerVars, lockVars, localVars,
        Threads, ServiceThreads, Observing, Turns
  <1>39. CASE FinishEnd
    BY <1>39, <1>a
    DEF FinishEnd, SetEnded, Goto, tickVars, runnerVars, lockVars, localVars, actorVars,
        envVars, Threads, ServiceThreads, Observing, Turns
  <1>40. CASE UNCHANGED vars
    BY <1>40, <1>a
    DEF vars, stateVars, tickVars, sampleVars, runnerVars, lockVars, localVars, actorVars,
        envVars, Threads, ServiceThreads, Observing, Turns
  <1>41. QED
    BY <1>1f, <1>22i, <1>32w, <1>1, <1>2, <1>3, <1>4, <1>5, <1>6, <1>7, <1>8, <1>9, <1>10, <1>11, <1>12, <1>13,
       <1>14, <1>15, <1>16, <1>17, <1>18, <1>19, <1>20, <1>21, <1>22, <1>23, <1>24, <1>25,
       <1>26, <1>27, <1>28, <1>29, <1>30, <1>31, <1>32, <1>33, <1>34, <1>35, <1>36, <1>37,
       <1>38, <1>39, <1>40
    DEF Next, Moves, Start, EnvThread, ActThread, FinThread, ActorThread, Leaving, Terminating,
        Finished

\* Before the first observations no actor is asked for an action, and none has one.
Blank == \A i \in 1..Len(samples), a \in Actors : samples[i].acts[a] = NoData
Unasked ==
  observed = 0 => Blank /\ \A a \in Actors : seen[a] = {} /\ pc[a] \notin {"record", "signal"}

\* A step that changes no sample, takes back an action or makes a new sample.
LEMMA BlankStays ==
  ASSUME TypeOK, Blank,
         \/ UNCHANGED samples
         \/ samples' = Append(samples, NewSample(tick))
         \/ \E k : \E a \in Actors : samples' = WithAction(k, a, NoData)
         \/ samples' = <<>>
  PROVE  Blank'
  <1>1. CASE UNCHANGED samples
    BY <1>1 DEF Blank
  <1>2. CASE samples' = Append(samples, NewSample(tick))
    BY <1>2, ActsAdded DEF Blank
  <1>3. ASSUME NEW k, NEW a \in Actors, samples' = WithAction(k, a, NoData) PROVE Blank'
    BY <1>3, ActsStay DEF Blank
  <1>4. CASE samples' = <<>>
    BY <1>4 DEF Blank
  <1>5. QED
    BY <1>1, <1>2, <1>3, <1>4

\* Every step keeps it.
LEMMA UnaskedStep == TypeOK /\ VictimNamed /\ Turns /\ Unasked /\ [Next]_vars => Unasked'
  <1> SUFFICES ASSUME TypeOK, VictimNamed, Turns, Unasked, [Next]_vars
               PROVE  Unasked'
    OBVIOUS
  <1>a. pc \in [Threads -> Places] /\ observed \in Nat /\ seen \in [Actors -> SUBSET Nat]
    BY DEF TypeOK, ThreadsOK, ComponentsOK
  <1>b. UNCHANGED samples => (Blank => Blank')
    BY DEF Blank
  <1>1. CASE StartCheck
    BY <1>1, <1>a, <1>b, ActorsAssumption
    DEF StartCheck, Goto, stateVars, tickVars, sampleVars, runnerVars, lockVars, localVars,
        actorVars, envVars, Threads, ServiceThreads, Unasked
  <1>1f. CASE StartEnvFails
    BY <1>1f, <1>a, <1>b, ActorsAssumption
    DEF StartEnvFails, Goto, stateVars, tickVars, sampleVars, runnerVars, lockVars, localVars,
        actorVars, envVars, Threads, ServiceThreads, Unasked
  <1>2. CASE StartPrepare
    <2>1. Blank => Blank'
      BY <1>2, BlankStays DEF StartPrepare
    <2>2. QED
      BY <1>2, <1>a, <2>1, ActorsAssumption
      DEF StartPrepare, Goto, actorVars, envVars, Threads, ServiceThreads, Unasked
  <1>3. CASE StartPend
    BY <1>3, <1>a, <1>b, ActorsAssumption
    DEF StartPend, Goto, tickVars, sampleVars, runnerVars, lockVars, localVars, actorVars,
        envVars, Threads, ServiceThreads, Unasked
  <1>4. ASSUME NEW a \in Actors, JoinTimeout(a) PROVE Unasked'
    BY <1>4, <1>a, <1>b, ActorsAssumption
    DEF JoinTimeout, Goto, stateVars, tickVars, sampleVars, runnerVars, lockVars,
        actorVars, envVars, Threads, ServiceThreads, Unasked
  <1>5. CASE StartEnv
    BY <1>5, <1>a, <1>b, ActorsAssumption
    DEF StartEnv, stateVars, tickVars, sampleVars, runnerVars, lockVars, localVars,
        actorVars, Threads, ServiceThreads, Unasked
  <1>6. CASE EnvEnds
    BY <1>6, <1>a, <1>b, ActorsAssumption
    DEF EnvEnds, stateVars, tickVars, sampleVars, runnerVars, lockVars, localVars,
        actorVars, Threads, ServiceThreads, Unasked
  <1>7. CASE EnvObserved
    BY <1>7, <1>a DEF EnvObserved, Unasked
  <1>8. CASE EnvSample
    BY <1>8, <1>a DEF EnvSample, envVars, Turns, Observing, Unasked
  <1>9. CASE EnvRespond
    BY <1>9, <1>a, <1>b, ActorsAssumption
    DEF EnvRespond, Runner!StartBegin, Goto, stateVars, tickVars, sampleVars, runnerVars,
        lockVars, actorVars, envVars, Threads, ServiceThreads, Unasked
  <1>10. CASE EnvDispatch
    BY <1>10, <1>a DEF EnvDispatch, envVars, Turns, Observing, Unasked
  <1>11. ASSUME NEW a \in Actors, EnvWriteFails(a) PROVE Unasked'
    BY <1>11, <1>a DEF EnvWriteFails, envVars, Turns, Observing, Unasked
  <1>12. CASE EnvStarted
    BY <1>12, <1>a, <1>b, ActorsAssumption
    DEF EnvStarted, Runner!StartEnd, Goto, stateVars, tickVars, sampleVars, lockVars,
        localVars, actorVars, envVars, Threads, ServiceThreads, Unasked
  <1>13. CASE EnvBalance
    BY <1>13, <1>a DEF EnvBalance, envVars, Turns, Observing, Unasked
  <1>14. CASE EnvFinish
    BY <1>14, <1>a, <1>b, ActorsAssumption
    DEF EnvFinish, Goto, Release, tickVars, sampleVars, runnerVars, localVars, actorVars,
        envVars, Threads, ServiceThreads, Unasked
  <1>15. CASE EnvBreaks
    BY <1>15, <1>a, <1>b, ActorsAssumption
    DEF EnvBreaks, stateVars, tickVars, sampleVars, runnerVars, lockVars, localVars,
        actorVars, Threads, ServiceThreads, Unasked
  <1>16. ASSUME NEW a \in Actors, Join(a) PROVE Unasked'
    BY <1>16, <1>a, <1>b, ActorsAssumption
    DEF Join, Goto, stateVars, tickVars, sampleVars, runnerVars, lockVars, localVars,
        envVars, Threads, ServiceThreads, Unasked
  <1>17. ASSUME NEW a \in Actors, ReadAction(a) PROVE Unasked'
    BY <1>17, <1>a, <1>b, ActorsAssumption
    DEF ReadAction, Goto, Share, stateVars, tickVars, sampleVars, runnerVars, lockVars,
        envVars, Threads, ServiceThreads, Unasked
  <1>18. ASSUME NEW a \in Actors, RecordAction(a) PROVE Unasked'
    BY <1>18, <1>b DEF RecordAction, envVars, Unasked
  <1>19. ASSUME NEW a \in Actors, IgnoreAction(a) PROVE Unasked'
    BY <1>19, <1>a, <1>b, ActorsAssumption
    DEF IgnoreAction, Return, Goto, Release, stateVars, tickVars, sampleVars, runnerVars,
        actorVars, envVars, Threads, ServiceThreads, Unasked
  <1>20. ASSUME NEW a \in Actors, SignalAction(a) PROVE Unasked'
    BY <1>20, <1>a, <1>b, ActorsAssumption
    DEF SignalAction, Runner!Signal, Runner!LockFree, Return, Goto, Release, stateVars,
        sampleVars, actorVars, envVars, Threads, ServiceThreads, Unasked
  <1>21. ASSUME NEW a \in Actors, StreamBreaks(a) PROVE Unasked'
    BY <1>21, <1>a, <1>b, ActorsAssumption
    DEF StreamBreaks, stateVars, tickVars, sampleVars, runnerVars, lockVars, localVars,
        envVars, Threads, ServiceThreads, Unasked
  <1>22. ASSUME NEW a \in Actors, StreamEnds(a) PROVE Unasked'
    BY <1>22, <1>a, <1>b, ActorsAssumption
    DEF StreamEnds, Goto, stateVars, tickVars, sampleVars, runnerVars, lockVars, localVars,
        actorVars, envVars, Threads, ServiceThreads, Unasked
  <1>22i. ASSUME NEW a \in Actors, InitFails(a) PROVE Unasked'
    BY <1>22i, <1>a, <1>b, ActorsAssumption
    DEF InitFails, Goto, stateVars, tickVars, sampleVars, runnerVars, lockVars, localVars,
        actorVars, envVars, Threads, ServiceThreads, Unasked
  <1>23. ASSUME NEW t \in Actors \cup {"env", "start"}, Disengage(t) PROVE Unasked'
    <2>1. Leaver(t) \in Actors
      BY <1>23, ActorsAssumption DEF Disengage, Leaver, VictimNamed, ServiceThreads
    <2>2. Blank => Blank'
      BY <1>23, <2>1, BlankStays DEF Disengage
    <2>3. UNCHANGED <<observed, seen>>
          /\ pc' \in {[pc EXCEPT ![t] = AfterLeave(t)], [pc EXCEPT ![t] = "remove"]}
      BY <1>23 DEF Disengage, Goto, envVars
    <2>4. QED
      BY <1>a, <2>2, <2>3, ActorsAssumption DEF AfterLeave, Threads, ServiceThreads, Unasked
  <1>24. ASSUME NEW t \in Actors \cup {"env", "start"}, RemoveActor(t) PROVE Unasked'
    BY <1>24, <1>a, <1>b, ActorsAssumption
    DEF RemoveActor, Runner!Remove, Leaver, AfterLeave, Goto, stateVars, sampleVars,
        lockVars, localVars, actorVars, envVars, Threads, ServiceThreads, Unasked
  <1>25. CASE RunnerWakes
    BY <1>25, <1>a, <1>b, ActorsAssumption
    DEF RunnerWakes, Runner!Wake, stateVars, sampleVars, lockVars, localVars, actorVars,
        envVars, Threads, ServiceThreads, Unasked
  <1>26. CASE RunnerExpires
    BY <1>26, <1>a, <1>b, ActorsAssumption
    DEF RunnerExpires, Runner!Expire, stateVars, sampleVars, lockVars, localVars,
        actorVars, envVars, Threads, ServiceThreads, Unasked
  <1>27. CASE ActWait
    BY <1>27, <1>a, <1>b, ActorsAssumption
    DEF ActWait, Goto, stateVars, tickVars, sampleVars, runnerVars, lockVars, localVars,
        actorVars, envVars, Threads, ServiceThreads, Unasked
  <1>28. CASE ActCount
    BY <1>28, <1>a, <1>b, ActorsAssumption
    DEF ActCount, Goto, stateVars, tickVars, sampleVars, runnerVars, lockVars, localVars,
        actorVars, envVars, Threads, ServiceThreads, Unasked
  <1>29. CASE ActClaim
    BY <1>29, <1>a, <1>b, ActorsAssumption
    DEF ActClaim, Goto, stateVars, sampleVars, runnerVars, lockVars, localVars, actorVars,
        envVars, Threads, ServiceThreads, Unasked
  <1>30. CASE ActLock
    BY <1>30, <1>a, <1>b, ActorsAssumption
    DEF ActLock, Goto, Share, tickVars, sampleVars, runnerVars, lockVars, actorVars,
        envVars, Threads, ServiceThreads, Unasked
  <1>31. CASE ActSend
    BY <1>31, <1>a, <1>b, ActorsAssumption
    DEF ActSend, Goto, Release, stateVars, tickVars, sampleVars, runnerVars, actorVars,
        Threads, ServiceThreads, Unasked
  <1>32. CASE ActFails
    BY <1>32, <1>a, <1>b, ActorsAssumption
    DEF ActFails, Goto, Release, stateVars, tickVars, sampleVars, runnerVars, actorVars,
        envVars, Threads, ServiceThreads, Unasked
  <1>32w. CASE ActWriteFails
    BY <1>32w, <1>a, <1>b, ActorsAssumption
    DEF ActWriteFails, Goto, Release, stateVars, tickVars, sampleVars, runnerVars, actorVars,
        envVars, Threads, ServiceThreads, Unasked
  <1>33. CASE RequestEnd
    BY <1>33, <1>a, <1>b, ActorsAssumption
    DEF RequestEnd, tickVars, sampleVars, runnerVars, lockVars, localVars, actorVars,
        envVars, Threads, ServiceThreads, Unasked
  <1>34. CASE Kill
    BY <1>34, <1>a, <1>b, ActorsAssumption
    DEF Kill, Goto, stateVars, tickVars, sampleVars, runnerVars, lockVars, localVars,
        actorVars, envVars, Threads, ServiceThreads, Unasked
  <1>35. ASSUME NEW t \in {"act", "start", "rpc"}, Terminate(t) PROVE Unasked'
    BY <1>35, <1>a, <1>b, ActorsAssumption
    DEF Terminate, AfterTerminate, Goto, tickVars, sampleVars, runnerVars, localVars,
        actorVars, envVars, Threads, ServiceThreads, Unasked
  <1>36. ASSUME NEW t \in {"act", "start", "rpc"}, TerminateStreams(t) PROVE Unasked'
    BY <1>36, <1>a, <1>b, ActorsAssumption
    DEF TerminateStreams, Goto, stateVars, tickVars, sampleVars, runnerVars, lockVars,
        localVars, Threads, ServiceThreads, Unasked
  <1>37. ASSUME NEW t \in {"act", "start", "rpc"}, TerminateEnd(t) PROVE Unasked'
    <2>1. Blank => Blank'
      BY <1>37, BlankStays DEF TerminateEnd, SetEnded
    <2>2. QED
      BY <1>37, <1>a, <2>1, ActorsAssumption
      DEF TerminateEnd, AfterTerminate, Goto, actorVars, envVars, Threads, ServiceThreads,
          Unasked
  <1>38. CASE Finalize
    BY <1>38, <1>a, <1>b, ActorsAssumption
    DEF Finalize, Goto, stateVars, tickVars, sampleVars, runnerVars, lockVars, localVars,
        Threads, ServiceThreads, Unasked
  <1>39. CASE FinishEnd
    <2>1. Blank => Blank'
      BY <1>39, BlankStays DEF FinishEnd, SetEnded
    <2>2. QED
      BY <1>39, <1>a, <2>1, ActorsAssumption
      DEF FinishEnd, Goto, actorVars, envVars, Threads, ServiceThreads, Unasked
  <1>40. CASE UNCHANGED vars
    BY <1>40, <1>a, <1>b, ActorsAssumption
    DEF vars, stateVars, tickVars, sampleVars, runnerVars, lockVars, localVars, actorVars,
        envVars, Threads, ServiceThreads, Unasked
  <1>41. QED
    BY <1>1f, <1>22i, <1>32w, <1>1, <1>2, <1>3, <1>4, <1>5, <1>6, <1>7, <1>8, <1>9, <1>10, <1>11, <1>12, <1>13,
       <1>14, <1>15, <1>16, <1>17, <1>18, <1>19, <1>20, <1>21, <1>22, <1>23, <1>24, <1>25,
       <1>26, <1>27, <1>28, <1>29, <1>30, <1>31, <1>32, <1>33, <1>34, <1>35, <1>36, <1>37,
       <1>38, <1>39, <1>40
    DEF Next, Moves, Start, EnvThread, ActThread, FinThread, ActorThread, Leaving, Terminating,
        Finished

\* The initial states.
LEMMA TurnsInit == Init => Turns /\ Unasked
  BY ActorsAssumption DEF Init, Turns, Unasked, Blank, Observing, Threads, ServiceThreads

\* Every step is a step of the protocol, or none.  With a required actor: a set of actions
\* with none before the first observations would not be one.
Follows == [Protocol!Next]_(Protocol!vars)
LEMMA FollowsStep ==
  ASSUME Required # {}
  PROVE  TypeOK /\ Begun /\ Locks /\ Flow /\ Turns /\ Unasked /\ [Next]_vars => Follows
  <1> SUFFICES ASSUME TypeOK, Begun, Locks, Flow, Turns, Unasked, [Next]_vars
               PROVE  Follows
    OBVIOUS
  <1>a. /\ state \in States /\ tick \in Nat /\ observed \in Nat /\ lastAction \in -1..tick
        /\ sets \in Seq(ActionSet) /\ Len(sets) \in Nat
    BY DEF TypeOK, StateOK, CountsOK, ComponentsOK
  <1>1. CASE StartCheck
    BY <1>1, <1>a
    DEF StartCheck, Goto, stateVars, tickVars, sampleVars, runnerVars, lockVars, localVars,
        actorVars, envVars, Protocol!vars, Follows
  <1>1f. CASE StartEnvFails
    BY <1>1f, <1>a
    DEF StartEnvFails, Goto, stateVars, tickVars, sampleVars, runnerVars, lockVars, localVars,
        actorVars, envVars, Protocol!vars, Follows
  <1>2. CASE StartPrepare
    BY <1>2, <1>a
    DEF StartPrepare, Goto, stateVars, lockVars, localVars, actorVars, envVars,
        Protocol!vars, Follows
  <1>3. CASE StartPend
    <2>1. CASE state = "initializing"
      BY <1>3, <2>1
      DEF StartPend, envVars, Protocol!Next, Protocol!Configured, Protocol!vars, Follows
    <2>2. CASE state # "initializing"
      BY <1>3, <2>2 DEF StartPend, envVars, Protocol!vars, Follows
    <2>3. QED
      BY <2>1, <2>2
  <1>4. ASSUME NEW a \in Actors, JoinTimeout(a) PROVE Follows
    BY <1>4, <1>a
    DEF JoinTimeout, Goto, stateVars, tickVars, sampleVars, runnerVars, lockVars,
        actorVars, envVars, Protocol!vars, Follows
  <1>5. CASE StartEnv
    BY <1>5, <1>a
    DEF StartEnv, stateVars, tickVars, sampleVars, runnerVars, lockVars, localVars,
        actorVars, Protocol!vars, Follows
  <1>6. CASE EnvEnds
    BY <1>6, <1>a
    DEF EnvEnds, stateVars, tickVars, sampleVars, runnerVars, lockVars, localVars,
        actorVars, Protocol!vars, Follows
  <1>7. CASE EnvObserved
    <2>1. pc["start"] = "idle" /\ state \in {"pending", "running", "terminating"}
      BY <1>7, <1>a DEF EnvObserved, Begun, Turns
    <2>2. observed' = observed + 1 /\ observed <= Len(sets) /\ UNCHANGED sets
          /\ state' = IF state = "pending" THEN "running" ELSE state
      BY <1>7 DEF EnvObserved
    <2>3. CASE state = "pending"
      BY <1>a, <2>2, <2>3
      DEF Turns, Protocol!Next, Protocol!FirstObservation, Protocol!vars, Follows
    <2>4. CASE state # "pending"
      <3>1. Len(sets) = observed
        BY <1>a, <2>1, <2>2, <2>4 DEF Turns
      <3>2. QED
        BY <2>1, <2>2, <2>4, <3>1
        DEF Protocol!Next, Protocol!Observation, Protocol!vars, Follows
    <2>5. QED
      BY <2>3, <2>4
  <1>8. CASE EnvSample
    BY <1>8, <1>a
    DEF EnvSample, Goto, stateVars, runnerVars, lockVars, localVars, actorVars, envVars,
        Protocol!vars, Follows
  <1>9. CASE EnvRespond
    BY <1>9, <1>a
    DEF EnvRespond, Runner!StartBegin, Goto, stateVars, tickVars, sampleVars, runnerVars,
        lockVars, actorVars, envVars, Protocol!vars, Follows
  <1>10. CASE EnvDispatch
    BY <1>10, <1>a
    DEF EnvDispatch, Goto, stateVars, tickVars, sampleVars, runnerVars, lockVars, envVars,
        Protocol!vars, Follows
  <1>11. ASSUME NEW a \in Actors, EnvWriteFails(a) PROVE Follows
    BY <1>11, <1>a
    DEF EnvWriteFails, Goto, stateVars, tickVars, sampleVars, runnerVars, lockVars,
        envVars, Protocol!vars, Follows
  <1>12. CASE EnvStarted
    BY <1>12, <1>a
    DEF EnvStarted, Runner!StartEnd, Goto, stateVars, tickVars, sampleVars, lockVars,
        localVars, actorVars, envVars, Protocol!vars, Follows
  <1>13. CASE EnvBalance
    BY <1>13, <1>a
    DEF EnvBalance, Goto, Release, stateVars, tickVars, runnerVars, localVars, actorVars,
        envVars, Protocol!vars, Follows
  <1>14. CASE EnvFinish
    <2>1. state \in {"running", "terminating", "ended"}
      BY <1>14, <1>a DEF EnvFinish, Turns, Observing
    <2>2. UNCHANGED <<observed, sets>> /\ state' = IF state = "ended" THEN state ELSE "terminating"
      BY <1>14 DEF EnvFinish, envVars
    <2>3. QED
      BY <2>1, <2>2 DEF Protocol!Next, Protocol!Ending, Protocol!vars, Follows
  <1>15. CASE EnvBreaks
    BY <1>15, <1>a
    DEF EnvBreaks, stateVars, tickVars, sampleVars, runnerVars, lockVars, localVars,
        actorVars, Protocol!vars, Follows
  <1>16. ASSUME NEW a \in Actors, Join(a) PROVE Follows
    BY <1>16, <1>a
    DEF Join, Goto, stateVars, tickVars, sampleVars, runnerVars, lockVars, localVars,
        envVars, Protocol!vars, Follows
  <1>17. ASSUME NEW a \in Actors, ReadAction(a) PROVE Follows
    BY <1>17, <1>a
    DEF ReadAction, Goto, Share, stateVars, tickVars, sampleVars, runnerVars, lockVars,
        envVars, Protocol!vars, Follows
  <1>18. ASSUME NEW a \in Actors, RecordAction(a) PROVE Follows
    BY <1>18, <1>a
    DEF RecordAction, Goto, stateVars, tickVars, runnerVars, lockVars, localVars,
        actorVars, envVars, Protocol!vars, Follows
  <1>19. ASSUME NEW a \in Actors, IgnoreAction(a) PROVE Follows
    BY <1>19, <1>a
    DEF IgnoreAction, Return, Goto, Release, stateVars, tickVars, sampleVars, runnerVars,
        actorVars, envVars, Protocol!vars, Follows
  <1>20. ASSUME NEW a \in Actors, SignalAction(a) PROVE Follows
    BY <1>20, <1>a
    DEF SignalAction, Runner!Signal, Runner!LockFree, Return, Goto, Release, stateVars,
        sampleVars, actorVars, envVars, Protocol!vars, Follows
  <1>21. ASSUME NEW a \in Actors, StreamBreaks(a) PROVE Follows
    BY <1>21, <1>a
    DEF StreamBreaks, stateVars, tickVars, sampleVars, runnerVars, lockVars, localVars,
        envVars, Protocol!vars, Follows
  <1>22. ASSUME NEW a \in Actors, StreamEnds(a) PROVE Follows
    BY <1>22, <1>a
    DEF StreamEnds, Goto, stateVars, tickVars, sampleVars, runnerVars, lockVars, localVars,
        actorVars, envVars, Protocol!vars, Follows
  <1>22i. ASSUME NEW a \in Actors, InitFails(a) PROVE Follows
    BY <1>22i, <1>a
    DEF InitFails, Goto, stateVars, tickVars, sampleVars, runnerVars, lockVars, localVars,
        actorVars, envVars, Protocol!vars, Follows
  <1>23. ASSUME NEW t \in Actors \cup {"env", "start"}, Disengage(t) PROVE Follows
    BY <1>23, <1>a
    DEF Disengage, Leaver, AfterLeave, Goto, stateVars, tickVars, runnerVars, lockVars,
        localVars, envVars, Protocol!vars, Follows
  <1>24. ASSUME NEW t \in Actors \cup {"env", "start"}, RemoveActor(t) PROVE Follows
    BY <1>24, <1>a
    DEF RemoveActor, Runner!Remove, Leaver, AfterLeave, Goto, stateVars, sampleVars,
        lockVars, localVars, actorVars, envVars, Protocol!vars, Follows
  <1>25. CASE RunnerWakes
    BY <1>25, <1>a
    DEF RunnerWakes, Runner!Wake, stateVars, sampleVars, lockVars, localVars, actorVars,
        envVars, Protocol!vars, Follows
  <1>26. CASE RunnerExpires
    BY <1>26, <1>a
    DEF RunnerExpires, Runner!Expire, stateVars, sampleVars, lockVars, localVars,
        actorVars, envVars, Protocol!vars, Follows
  <1>27. CASE ActWait
    BY <1>27, <1>a
    DEF ActWait, Goto, stateVars, tickVars, sampleVars, runnerVars, lockVars, localVars,
        actorVars, envVars, Protocol!vars, Follows
  <1>28. CASE ActCount
    BY <1>28, <1>a
    DEF ActCount, Goto, stateVars, tickVars, sampleVars, runnerVars, lockVars, localVars,
        actorVars, envVars, Protocol!vars, Follows
  <1>29. CASE ActClaim
    BY <1>29, <1>a
    DEF ActClaim, Goto, stateVars, sampleVars, runnerVars, lockVars, localVars, actorVars,
        envVars, Protocol!vars, Follows
  <1>30. CASE ActLock
    <2>1. state # "initializing"
      BY <1>30 DEF ActLock, Begun
    <2>2. UNCHANGED <<observed, sets>>
      BY <1>30 DEF ActLock, envVars
    <2>3. state' = state \/ (state' = "terminating" /\ state \notin {"ended", "pending"})
      BY <1>30 DEF ActLock
    <2>4. state' = state \/ state = "terminating" \/ state = "running"
      BY <1>a, <2>1, <2>3 DEF States
    <2>5. QED
      BY <2>2, <2>3, <2>4 DEF Protocol!Next, Protocol!Ending, Protocol!vars, Follows
  <1>31. CASE ActSend
    <2>1. pc["act"] = "send" /\ samples # <<>> /\ Filled \cap Required = {}
          /\ Len(sets') = Len(sets) + 1 /\ UNCHANGED <<state, observed>>
      BY <1>31, <1>a DEF ActSend, stateVars
    <2>2. observed > 0
      <3> SUFFICES ASSUME observed = 0 PROVE FALSE
        BY <1>a
      <3>1. Len(samples) \in 1..Len(samples)
        BY <2>1, EmptySeq, SamplesTypes
      <3>2. \A a \in Actors : Last(samples).acts[a] = NoData
        BY <3>1 DEF Unasked, Blank, Last
      <3>3. Filled = Actors
        BY <3>2 DEF Filled
      <3>4. QED
        BY <2>1, <3>3, ActorsAssumption
    <2>3. pc["env"] # "idle"
      BY <2>2 DEF Flow, Totals
    <2>4. state \in {"running", "terminating"}
      BY <1>a, <2>1, <2>2, <2>3 DEF Turns, Flow, Flushed
    <2>5. Len(sets) < observed
      BY <1>a, <2>1, <2>2 DEF Turns
    <2>6. QED
      BY <2>1, <2>4, <2>5 DEF Protocol!Next, Protocol!Actions, Protocol!vars, Follows
  <1>32. CASE ActFails
    BY <1>32, <1>a
    DEF ActFails, Goto, Release, stateVars, tickVars, sampleVars, runnerVars, actorVars,
        envVars, Protocol!vars, Follows
  <1>32w. CASE ActWriteFails
    BY <1>32w, <1>a
    DEF ActWriteFails, Goto, Release, stateVars, tickVars, sampleVars, runnerVars, actorVars,
        envVars, Protocol!vars, Follows
  <1>33. CASE RequestEnd
    BY <1>33, <1>a
    DEF RequestEnd, tickVars, sampleVars, runnerVars, lockVars, localVars, actorVars,
        envVars, Protocol!vars, Follows
  <1>34. CASE Kill
    BY <1>34, <1>a
    DEF Kill, Goto, stateVars, tickVars, sampleVars, runnerVars, lockVars, localVars,
        actorVars, envVars, Protocol!vars, Follows
  <1>35. ASSUME NEW t \in {"act", "start", "rpc"}, Terminate(t) PROVE Follows
    BY <1>35 DEF Terminate, envVars, Protocol!Next, Protocol!Ending, Protocol!vars, Follows
  <1>36. ASSUME NEW t \in {"act", "start", "rpc"}, TerminateStreams(t) PROVE Follows
    BY <1>36, <1>a
    DEF TerminateStreams, Goto, stateVars, tickVars, sampleVars, runnerVars, lockVars,
        localVars, Protocol!vars, Follows
  <1>37. ASSUME NEW t \in {"act", "start", "rpc"}, TerminateEnd(t) PROVE Follows
    BY <1>37 DEF TerminateEnd, SetEnded, envVars, Protocol!Next, Protocol!Ended, Protocol!vars, Follows
  <1>38. CASE Finalize
    BY <1>38, <1>a
    DEF Finalize, Goto, stateVars, tickVars, sampleVars, runnerVars, lockVars, localVars,
        Protocol!vars, Follows
  <1>39. CASE FinishEnd
    BY <1>39 DEF FinishEnd, SetEnded, envVars, Protocol!Next, Protocol!Ended, Protocol!vars, Follows
  <1>40. CASE UNCHANGED vars
    BY <1>40, <1>a
    DEF vars, stateVars, tickVars, sampleVars, runnerVars, lockVars, localVars, actorVars,
        envVars, Protocol!vars, Follows
  <1>41. QED
    BY <1>1f, <1>22i, <1>32w, <1>1, <1>2, <1>3, <1>4, <1>5, <1>6, <1>7, <1>8, <1>9, <1>10, <1>11, <1>12, <1>13,
       <1>14, <1>15, <1>16, <1>17, <1>18, <1>19, <1>20, <1>21, <1>22, <1>23, <1>24, <1>25,
       <1>26, <1>27, <1>28, <1>29, <1>30, <1>31, <1>32, <1>33, <1>34, <1>35, <1>36, <1>37,
       <1>38, <1>39, <1>40
    DEF Next, Moves, Start, EnvThread, ActThread, FinThread, ActorThread, Leaving, Terminating,
        Finished

\* A trial with a required actor implements its protocol, whatever its threads do: its life
\* goes one way, observations and actions take turns, each answered once.
THEOREM TrialFollowsProtocol == ASSUME Required # {} PROVE Spec => ImplementsProtocol
  <1>1. Init => Protocol!Init
    BY DEF Init, Protocol!Init
  <1>2. TypeOK /\ VictimNamed /\ Begun /\ Locks /\ Flow /\ Turns /\ Unasked /\ [Next]_vars
        => /\ TypeOK' /\ VictimNamed' /\ Begun' /\ Locks' /\ Flow' /\ Turns' /\ Unasked'
           /\ [Protocol!Next]_(Protocol!vars)
    BY TypeStep, BegunStep, LocksStep, FlowStep, TurnsStep, UnaskedStep, FollowsStep DEF Follows
  <1>3. QED
    BY <1>1, <1>2, TypeInit, BegunInit, FlowInit, TurnsInit, PTL
    DEF Spec, ImplementsProtocol, Protocol!Spec

-----------------------------------------------------------------------------
(* Who is waited for.                                                      *)

Starting == {"check", "prepare", "pend"}
Leavers == Actors \cup {"env", "start"}

\* Nobody leaves before the trial has started; an actor being taken off the count has
\* m_disengaged set, and one thread does it.
Removals ==
  /\ pc["start"] \in Starting => disengaged = {}
  /\ \A t \in Threads \ Leavers : pc[t] # "remove"
  /\ \A t \in Leavers : pc[t] = "remove" => Leaver(t) \in disengaged
  /\ \A t, u \in Leavers :
       pc[t] = "remove" /\ pc[u] = "remove" /\ Leaver(t) = Leaver(u) => t = u

\* A trial that is not over has a sample.
Sampled ==
  state \in {"pending", "running"} \/ (state = "initializing" /\ pc["start"] = "pend")
    => samples # <<>>

\* A step that no actor leaves in, and that does not start the trial.
Kept ==
  /\ UNCHANGED <<available, disengaged>>
  /\ \A t \in Threads : pc'[t] = "remove" <=> pc[t] = "remove"
  /\ \A t \in {"env", "start"} : pc[t] = "remove" => victim'[t] = victim[t]
  /\ state' = "initializing" => state = "initializing"
  /\ state' \in {"pending", "running"} => state \in {"pending", "running"}
  /\ pc'["start"] = "pend" => pc["start"] = "pend"
  /\ pc'["start"] \in Starting => pc["start"] \in Starting
  /\ samples # <<>> /\ state' # "ended" => samples' # <<>>

Engaged ==
  Kept \/ StartPrepare \/ StartPend \/ \E t \in Leavers : Disengage(t) \/ RemoveActor(t)

\* All the other steps are of that kind.
LEMMA EngagedStep == TypeOK /\ Begun /\ Removals /\ [Next]_vars => Engaged
  <1> SUFFICES ASSUME TypeOK, Begun, Removals, [Next]_vars
               PROVE  Engaged
    OBVIOUS
  <1>a. pc \in [Threads -> Places]
    BY DEF TypeOK, ThreadsOK
  <1>1. CASE StartCheck
    BY <1>1, <1>a, ActorsAssumption
    DEF StartCheck, Goto, stateVars, tickVars, sampleVars, runnerVars, lockVars, localVars,
        actorVars, envVars, Threads, ServiceThreads, Leavers, Starting, Kept, Engaged
  <1>1f. CASE StartEnvFails
    BY <1>1f, <1>a, ActorsAssumption
    DEF StartEnvFails, Goto, stateVars, tickVars, sampleVars, runnerVars, lockVars, localVars,
        actorVars, envVars, Threads, ServiceThreads, Leavers, Starting, Kept, Engaged
  <1>2. CASE StartPrepare
    BY <1>2 DEF Engaged, Leavers
  <1>3. CASE StartPend
    BY <1>3 DEF Engaged, Leavers
  <1>4. ASSUME NEW a \in Actors, JoinTimeout(a) PROVE Engaged
    BY <1>4, <1>a, ActorsAssumption
    DEF JoinTimeout, Goto, stateVars, tickVars, sampleVars, runnerVars, lockVars,
        actorVars, envVars, Threads, ServiceThreads, Leavers, Starting, Kept, Engaged
  <1>5. CASE StartEnv
    <2>1. pc["env"] = "idle"
      BY <1>5 DEF StartEnv, Begun
    <2>2. QED
      BY <1>5, <1>a, <2>1, ActorsAssumption
      DEF StartEnv, stateVars, tickVars, sampleVars, localVars, actorVars, Threads,
          ServiceThreads, Leavers, Starting, Kept, Engaged
  <1>6. CASE EnvEnds
    BY <1>6, <1>a, ActorsAssumption
    DEF EnvEnds, stateVars, tickVars, sampleVars, runnerVars, lockVars, localVars,
        actorVars, Threads, ServiceThreads, Leavers, Starting, Kept, Engaged
  <1>7. CASE EnvObserved
    BY <1>7, <1>a, ActorsAssumption
    DEF EnvObserved, Goto, Share, sampleVars, runnerVars, actorVars, Threads,
        ServiceThreads, Leavers, Starting, Kept, Engaged
  <1>8. CASE EnvSample
    <2>1. samples' # <<>>
      <3>1. NewSample(tick) \in Sample
        BY NewSampleType, SamplesTypes
      <3>2. Len(samples') = Len(samples) + 1
        BY <1>8, <3>1, SamplesTypes DEF EnvSample
      <3>3. QED
        BY <3>2, SamplesTypes
    <2>2. QED
      BY <1>8, <1>a, <2>1, ActorsAssumption
      DEF EnvSample, Goto, stateVars, localVars, actorVars, Threads, ServiceThreads,
          Leavers, Starting, Kept,
          Engaged
  <1>9. CASE EnvRespond
    BY <1>9, <1>a, ActorsAssumption
    DEF EnvRespond, Runner!StartBegin, Goto, stateVars, tickVars, sampleVars, runnerVars,
        lockVars, actorVars, envVars, Threads, ServiceThreads, Leavers, Starting, Kept, Engaged
  <1>10. CASE EnvDispatch
    BY <1>10, <1>a, ActorsAssumption
    DEF EnvDispatch, Goto, stateVars, tickVars, sampleVars, runnerVars, lockVars, envVars,
        Threads, ServiceThreads, Leavers, Starting, Kept, Engaged
  <1>11. ASSUME NEW a \in Actors, EnvWriteFails(a) PROVE Engaged
    BY <1>11, <1>a, ActorsAssumption
    DEF EnvWriteFails, Goto, stateVars, tickVars, sampleVars, runnerVars, lockVars,
        envVars, Threads, ServiceThreads, Leavers, Starting, Kept, Engaged
  <1>12. CASE EnvStarted
    BY <1>12, <1>a, ActorsAssumption
    DEF EnvStarted, Runner!StartEnd, Goto, stateVars, tickVars, sampleVars, lockVars,
        localVars, actorVars, envVars, Threads, ServiceThreads, Leavers, Starting, Kept, Engaged
  <1>13. CASE EnvBalance
    <2>1. samples # <<>> => samples' # <<>>
      <3> DEFINE n == IF Len(samples) >= NbBuffered THEN Len(samples) - NbBuffered + 1 ELSE 0
      <3>1. samples' = SubSeq(samples, n + 1, Len(samples)) /\ n \in Nat
            /\ (Len(samples) > 0 => n < Len(samples))
        BY <1>13, SamplesTypes, BoundsAssumption DEF EnvBalance
      <3> HIDE DEF n
      <3>2. Len(samples) > 0 => Len(samples') > 0
        BY <3>1, SamplesTypes
      <3>3. QED
        BY <3>2, EmptySeq, SamplesTypes
    <2>2. QED
      BY <1>13, <1>a, <2>1, ActorsAssumption
      DEF EnvBalance, Goto, stateVars, tickVars, localVars, actorVars, Threads,
          ServiceThreads, Leavers, Starting, Kept, Engaged
  <1>14. CASE EnvFinish
    <2>1. pc["fin"] # "remove"
      BY ActorsAssumption DEF Removals, Leavers, Threads, ServiceThreads
    <2>2. QED
      BY <1>14, <1>a, <2>1, ActorsAssumption
      DEF EnvFinish, Goto, tickVars, sampleVars, localVars, actorVars, Threads,
          ServiceThreads, Starting, Kept, Engaged
  <1>15. CASE EnvBreaks
    BY <1>15, <1>a, ActorsAssumption
    DEF EnvBreaks, stateVars, tickVars, sampleVars, runnerVars, lockVars, localVars,
        actorVars, Threads, ServiceThreads, Leavers, Starting, Kept, Engaged
  <1>16. ASSUME NEW a \in Actors, Join(a) PROVE Engaged
    BY <1>16, <1>a, ActorsAssumption
    DEF Join, Goto, stateVars, tickVars, sampleVars, runnerVars, lockVars, localVars,
        envVars, Threads, ServiceThreads, Leavers, Starting, Kept, Engaged
  <1>17. ASSUME NEW a \in Actors, ReadAction(a) PROVE Engaged
    <2>1. pc[a] = "read" /\ pc' \in {pc, [pc EXCEPT ![a] = "record"]}
          /\ UNCHANGED <<available, disengaged, victim, state, samples>>
      BY <1>17 DEF ReadAction, Goto, stateVars, tickVars, sampleVars
    <2>2. QED
      BY <1>a, <2>1, ActorsAssumption DEF Threads, ServiceThreads, Leavers, Starting, Kept, Engaged
  <1>18. ASSUME NEW a \in Actors, RecordAction(a) PROVE Engaged
    <2>1. samples # <<>> => samples' # <<>>
      <3>1. Len(samples') = Len(samples)
        BY <1>18, ActsStay DEF RecordAction
      <3>2. QED
        BY <3>1, EmptySeq, SamplesTypes
    <2>2. QED
      BY <1>18, <1>a, <2>1, ActorsAssumption
      DEF RecordAction, Goto, stateVars, tickVars, localVars, actorVars, Threads,
          ServiceThreads, Leavers, Starting, Kept, Engaged
  <1>19. ASSUME NEW a \in Actors, IgnoreAction(a) PROVE Engaged
    BY <1>19, <1>a, ActorsAssumption
    DEF IgnoreAction, Return, Goto, Release, stateVars, tickVars, sampleVars, runnerVars,
        actorVars, envVars, Threads, ServiceThreads, Leavers, Starting, Kept, Engaged
  <1>20. ASSUME NEW a \in Actors, SignalAction(a) PROVE Engaged
    BY <1>20, <1>a, ActorsAssumption
    DEF SignalAction, Runner!Signal, Runner!LockFree, Return, Goto, Release, stateVars,
        sampleVars, actorVars, envVars, Threads, ServiceThreads, Leavers, Starting, Kept, Engaged
  <1>21. ASSUME NEW a \in Actors, StreamBreaks(a) PROVE Engaged
    BY <1>21, <1>a, ActorsAssumption
    DEF StreamBreaks, stateVars, tickVars, sampleVars, runnerVars, lockVars, localVars,
        envVars, Threads, ServiceThreads, Leavers, Starting, Kept, Engaged
  <1>22. ASSUME NEW a \in Actors, StreamEnds(a) PROVE Engaged
    BY <1>22, <1>a, ActorsAssumption
    DEF StreamEnds, Goto, stateVars, tickVars, sampleVars, runnerVars, lockVars, localVars,
        actorVars, envVars, Threads, ServiceThreads, Leavers, Starting, Kept, Engaged
  <1>22i. ASSUME NEW a \in Actors, InitFails(a) PROVE Engaged
    BY <1>22i, <1>a, ActorsAssumption
    DEF InitFails, Goto, stateVars, tickVars, sampleVars, runnerVars, lockVars, localVars,
        actorVars, envVars, Threads, ServiceThreads, Leavers, Starting, Kept, Engaged
  <1>23. ASSUME NEW t \in Actors \cup {"env", "start"}, Disengage(t) PROVE Engaged
    BY <1>23 DEF Engaged, Leavers
  <1>24. ASSUME NEW t \in Actors \cup {"env", "start"}, RemoveActor(t) PROVE Engaged
    BY <1>24 DEF Engaged, Leavers
  <1>25. CASE RunnerWakes
    BY <1>25, <1>a, ActorsAssumption
    DEF RunnerWakes, Runner!Wake, stateVars, sampleVars, lockVars, localVars, actorVars,
        envVars, Threads, ServiceThreads, Leavers, Starting, Kept, Engaged
  <1>26. CASE RunnerExpires
    BY <1>26, <1>a, ActorsAssumption
    DEF RunnerExpires, Runner!Expire, stateVars, sampleVars, lockVars, localVars,
        actorVars, envVars, Threads, ServiceThreads, Leavers, Starting, Kept, Engaged
  <1>27. CASE ActWait
    BY <1>27, <1>a, ActorsAssumption
    DEF ActWait, Goto, stateVars, tickVars, sampleVars, runnerVars, lockVars, localVars,
        actorVars, envVars, Threads, ServiceThreads, Leavers, Starting, Kept, Engaged
  <1>28. CASE ActCount
    BY <1>28, <1>a, ActorsAssumption
    DEF ActCount, Goto, stateVars, tickVars, sampleVars, runnerVars, lockVars, localVars,
        actorVars, envVars, Threads, ServiceThreads, Leavers, Starting, Kept, Engaged
  <1>29. CASE ActClaim
    BY <1>29, <1>a, ActorsAssumption
    DEF ActClaim, Goto, stateVars, sampleVars, runnerVars, lockVars, localVars, actorVars,
        envVars, Threads, ServiceThreads, Leavers, Starting, Kept, Engaged
  <1>30. CASE ActLock
    BY <1>30, <1>a, ActorsAssumption
    DEF ActLock, Goto, Share, tickVars, sampleVars, runnerVars, lockVars, actorVars,
        envVars, Threads, ServiceThreads, Leavers, Starting, Kept, Engaged
  <1>31. CASE ActSend
    BY <1>31, <1>a, ActorsAssumption
    DEF ActSend, Goto, Release, stateVars, tickVars, sampleVars, runnerVars, actorVars,
        Threads, ServiceThreads, Leavers, Starting, Kept, Engaged
  <1>32. CASE ActFails
    BY <1>32, <1>a, ActorsAssumption
    DEF ActFails, Goto, Release, stateVars, tickVars, sampleVars, runnerVars, actorVars,
        envVars, Threads, ServiceThreads, Leavers, Starting, Kept, Engaged
  <1>32w. CASE ActWriteFails
    BY <1>32w, <1>a, ActorsAssumption
    DEF ActWriteFails, Goto, Release, stateVars, tickVars, sampleVars, runnerVars, actorVars,
        envVars, Threads, ServiceThreads, Leavers, Starting, Kept, Engaged
  <1>33. CASE RequestEnd
    BY <1>33, <1>a, ActorsAssumption
    DEF RequestEnd, tickVars, sampleVars, runnerVars, lockVars, localVars, actorVars,
        envVars, Threads, ServiceThreads, Leavers, Starting, Kept, Engaged
  <1>34. CASE Kill
    BY <1>34, <1>a, ActorsAssumption
    DEF Kill, Goto, stateVars, tickVars, sampleVars, runnerVars, lockVars, localVars,
        actorVars, envVars, Threads, ServiceThreads, Leavers, Starting, Kept, Engaged
  <1>35. ASSUME NEW t \in {"act", "start", "rpc"}, Terminate(t) PROVE Engaged
    BY <1>35, <1>a, ActorsAssumption
    DEF Terminate, AfterTerminate, Goto, tickVars, sampleVars, runnerVars, localVars,
        actorVars, envVars, Threads, ServiceThreads, Leavers, Starting, Kept, Engaged
  <1>36. ASSUME NEW t \in {"act", "start", "rpc"}, TerminateStreams(t) PROVE Engaged
    BY <1>36, <1>a, ActorsAssumption
    DEF TerminateStreams, Goto, stateVars, tickVars, sampleVars, runnerVars, lockVars,
        localVars, Threads, ServiceThreads, Leavers, Starting, Kept, Engaged
  <1>37. ASSUME NEW t \in {"act", "start", "rpc"}, TerminateEnd(t) PROVE Engaged
    BY <1>37, <1>a, ActorsAssumption
    DEF TerminateEnd, SetEnded, AfterTerminate, Goto, tickVars, runnerVars, localVars,
        actorVars, envVars, Threads, ServiceThreads, Leavers, Starting, Kept, Engaged
  <1>38. CASE Finalize
    BY <1>38, <1>a, ActorsAssumption
    DEF Finalize, Goto, stateVars, tickVars, sampleVars, runnerVars, lockVars, localVars,
        Threads, ServiceThreads, Leavers, Starting, Kept, Engaged
  <1>39. CASE FinishEnd
    BY <1>39, <1>a, ActorsAssumption
    DEF FinishEnd, SetEnded, Goto, tickVars, runnerVars, lockVars, localVars, actorVars,
        envVars, Threads, ServiceThreads, Leavers, Starting, Kept, Engaged
  <1>40. CASE UNCHANGED vars
    BY <1>40, <1>a, ActorsAssumption
    DEF vars, stateVars, tickVars, sampleVars, runnerVars, lockVars, localVars, actorVars,
        envVars, Threads, ServiceThreads, Leavers, Starting, Kept, Engaged
  <1>41. QED
    BY <1>1f, <1>22i, <1>32w, <1>1, <1>2, <1>3, <1>4, <1>5, <1>6, <1>7, <1>8, <1>9, <1>10, <1>11, <1>12, <1>13,
       <1>14, <1>15, <1>16, <1>17, <1>18, <1>19, <1>20, <1>21, <1>22, <1>23, <1>24, <1>25,
       <1>26, <1>27, <1>28, <1>29, <1>30, <1>31, <1>32, <1>33, <1>34, <1>35, <1>36, <1>37,
       <1>38, <1>39, <1>40
    DEF Next, Moves, Start, EnvThread, ActThread, FinThread, ActorThread, Leaving, Terminating,
        Finished

\* Every step keeps it.
LEMMA RemovalsStep ==
  TypeOK /\ VictimNamed /\ Begun /\ Removals /\ [Next]_vars => Removals'
  <1> SUFFICES ASSUME TypeOK, VictimNamed, Begun, Removals, [Next]_vars
               PROVE  Removals'
    OBVIOUS
  <1>a. pc \in [Threads -> Places] /\ Leavers \subseteq Threads /\ "start" \in Leavers
    BY DEF TypeOK, ThreadsOK, Leavers, Threads, ServiceThreads
  <1>1. CASE Kept
    <2>1. \A t \in Leavers : pc[t] = "remove" => Leaver(t)' = Leaver(t)
      BY <1>1 DEF Kept, Leaver, Leavers
    <2>2. QED
      BY <1>1, <1>a, <2>1 DEF Kept, Removals
  <1>2. CASE StartPrepare
    <2>1. pc' = [pc EXCEPT !["start"] = "pend"] /\ pc["start"] = "prepare"
          /\ UNCHANGED <<disengaged, victim>>
      BY <1>2 DEF StartPrepare, Goto, actorVars, localVars
    <2>2. \A t \in Leavers : Leaver(t)' = Leaver(t)
      BY <2>1 DEF Leaver
    <2>3. QED
      BY <1>a, <2>1, <2>2 DEF Removals, Starting
  <1>3. CASE StartPend
    <2>1. UNCHANGED <<disengaged, victim>> /\ pc["start"] = "pend"
          /\ \A t \in Threads : pc'[t] \in {pc[t], "join", "idle"}
      BY <1>3, <1>a DEF StartPend, Goto, actorVars, localVars
    <2>2. \A t \in Leavers : Leaver(t)' = Leaver(t)
      BY <2>1 DEF Leaver
    <2>3. QED
      BY <1>a, <2>1, <2>2 DEF Removals, Starting
  <1>4. ASSUME NEW t \in Leavers, Disengage(t) PROVE Removals'
    <2>1. pc["start"] \notin Starting
      BY <1>4, ActorsAssumption DEF Disengage, Begun, Leavers, Starting
    <2>2. /\ pc[t] = "leave" /\ UNCHANGED victim
          /\ disengaged' = disengaged \cup {Leaver(t)}
          /\ \/ pc' = [pc EXCEPT ![t] = AfterLeave(t)]
             \/ pc' = [pc EXCEPT ![t] = "remove"] /\ Leaver(t) \notin disengaged
      BY <1>4 DEF Disengage, Goto, localVars
    <2>3. AfterLeave(t) \in {"dispatch", "join", "gone"}
      BY DEF AfterLeave
    <2>4. \A u \in Leavers : Leaver(u)' = Leaver(u)
      BY <2>2 DEF Leaver
    <2>5. pc'["start"] \notin Starting
      BY <1>a, <2>1, <2>2, <2>3 DEF Starting
    <2>6. \A u \in Threads \ Leavers : pc'[u] # "remove"
      BY <1>a, <2>2 DEF Removals
    <2>7. \A u \in Leavers : pc'[u] = "remove" => Leaver(u)' \in disengaged'
      BY <1>a, <2>2, <2>3, <2>4 DEF Removals
    <2>8. ASSUME NEW u \in Leavers, NEW v \in Leavers, pc'[u] = "remove", pc'[v] = "remove",
                 Leaver(u)' = Leaver(v)'
          PROVE  u = v
      BY <1>a, <2>2, <2>3, <2>4, <2>8 DEF Removals
    <2>9. QED
      BY <2>5, <2>6, <2>7, <2>8 DEF Removals
  <1>5. ASSUME NEW t \in Leavers, RemoveActor(t) PROVE Removals'
    <2>1. UNCHANGED <<disengaged, victim>> /\ pc' = [pc EXCEPT ![t] = AfterLeave(t)]
          /\ pc[t] = "remove"
      BY <1>5 DEF RemoveActor, Goto, actorVars, localVars
    <2>2. AfterLeave(t) \in {"dispatch", "join", "gone"}
      BY DEF AfterLeave
    <2>3. \A u \in Leavers : Leaver(u)' = Leaver(u)
      BY <2>1 DEF Leaver
    <2>4. QED
      BY <1>a, <2>1, <2>2, <2>3 DEF Removals, Starting
  <1>6. QED
    BY <1>1, <1>2, <1>3, <1>4, <1>5, EngagedStep DEF Engaged

\* A trial keeps a sample until it has ended.
LEMMA SampledStep ==
  TypeOK /\ VictimNamed /\ Begun /\ Removals /\ Sampled /\ [Next]_vars => Sampled'
  <1> SUFFICES ASSUME TypeOK, VictimNamed, Begun, Removals, Sampled, [Next]_vars
               PROVE  Sampled'
    OBVIOUS
  <1>a. pc \in [Threads -> Places] /\ "start" \in Threads
    BY DEF TypeOK, ThreadsOK, Threads, ServiceThreads
  <1>1. CASE Kept
    BY <1>1 DEF Kept, Sampled
  <1>2. CASE StartPrepare
    <2>1. NewSample(tick) \in Sample
      BY NewSampleType, SamplesTypes
    <2>2. Len(samples') = Len(samples) + 1
      BY <1>2, <2>1, SamplesTypes DEF StartPrepare
    <2>3. QED
      BY <2>2, SamplesTypes DEF Sampled
  <1>3. CASE StartPend
    BY <1>3, <1>a DEF StartPend, Goto, sampleVars, Sampled
  <1>4. ASSUME NEW t \in Leavers, Disengage(t) PROVE Sampled'
    <2>1. Leaver(t) \in Actors
      BY <1>4, ActorsAssumption DEF Disengage, Leaver, VictimNamed, ServiceThreads, Leavers
    <2>2. samples # <<>> => samples' # <<>>
      <3>1. UNCHANGED samples \/ Len(samples') = Len(samples)
        BY <1>4, <2>1, ActsStay DEF Disengage
      <3>2. QED
        BY <3>1, EmptySeq, SamplesTypes
    <2>3. UNCHANGED state /\ (pc'["start"] = "pend" => pc["start"] = "pend")
      BY <1>4, <1>a DEF Disengage, Goto, AfterLeave, stateVars
    <2>4. QED
      BY <2>2, <2>3 DEF Sampled
  <1>5. ASSUME NEW t \in Leavers, RemoveActor(t) PROVE Sampled'
    BY <1>5, <1>a DEF RemoveActor, Goto, AfterLeave, stateVars, sampleVars, Sampled
  <1>6. QED
    BY <1>1, <1>2, <1>3, <1>4, <1>5, EngagedStep DEF Engaged

\* The count follows: an actor is taken off it after m_disengaged is set, in another step.
LEMMA AvailableStep ==
  TypeOK /\ VictimNamed /\ Begun /\ Removals /\ Sampled /\ AvailableIsExact /\ [Next]_vars
    => AvailableIsExact'
  <1> SUFFICES ASSUME TypeOK, VictimNamed, Begun, Removals, Sampled, AvailableIsExact,
                      [Next]_vars, state' \in {"pending", "running"}
               PROVE  available' = Cardinality(Actors) - Cardinality(disengaged' \ BeingRemoved')
    BY DEF AvailableIsExact
  <1> DEFINE Left == disengaged \ BeingRemoved
  <1>a. pc \in [Threads -> Places] /\ Leavers \subseteq Threads /\ available \in Int
        /\ disengaged \subseteq Actors
    BY DEF TypeOK, ThreadsOK, CountsOK, ComponentsOK, Leavers, Threads, ServiceThreads
  <1>b. IsFiniteSet(Left) /\ Cardinality(Left) \in Nat /\ Cardinality(Actors) \in Nat
    BY <1>a, ActorsAssumption, FS_Subset, FS_CardinalityType
  <1>c. BeingRemoved = {x \in Actors : \E u \in Leavers : pc[u] = "remove" /\ Leaver(u) = x}
    BY <1>a DEF BeingRemoved, Removals
  <1>d. BeingRemoved' = {x \in Actors : \E u \in Leavers : pc'[u] = "remove" /\ Leaver(u)' = x}
    BY <1>a, RemovalsStep DEF BeingRemoved, Removals
  <1>1. CASE Kept
    <2>1. \A u \in Leavers : pc[u] = "remove" => Leaver(u)' = Leaver(u)
      BY <1>1 DEF Kept, Leaver, Leavers
    <2>2. BeingRemoved' = BeingRemoved
      BY <1>1, <1>a, <1>c, <1>d, <2>1 DEF Kept
    <2>3. QED
      BY <1>1, <2>2 DEF Kept, AvailableIsExact
  <1>2. CASE StartPrepare
    <2>1. disengaged' = {} /\ available' = Cardinality(Actors)
      BY <1>2 DEF StartPrepare, actorVars, Removals, Starting
    <2>2. disengaged' \ BeingRemoved' = {} /\ Cardinality({}) = 0
      BY <2>1, FS_EmptySet
    <2>3. QED
      BY <1>b, <2>1, <2>2
  <1>3. CASE StartPend
    <2>1. disengaged' = {} /\ available' = Cardinality(Actors)
      BY <1>3 DEF StartPend, tickVars, actorVars, Removals, Starting, Begun
    <2>2. disengaged' \ BeingRemoved' = {} /\ Cardinality({}) = 0
      BY <2>1, FS_EmptySet
    <2>3. QED
      BY <1>b, <2>1, <2>2
  <1>4. ASSUME NEW t \in Leavers, Disengage(t)
        PROVE  available' = Cardinality(Actors) - Cardinality(disengaged' \ BeingRemoved')
    <2>1. UNCHANGED <<state, available, victim>> /\ pc[t] = "leave"
          /\ disengaged' = disengaged \cup {Leaver(t)}
      BY <1>4 DEF Disengage, stateVars, tickVars, localVars
    <2>2. Leaver(t) \in Actors
      BY <2>1, ActorsAssumption DEF Leaver, VictimNamed, ServiceThreads, Leavers
    <2>3. \/ pc' = [pc EXCEPT ![t] = AfterLeave(t)] /\ Leaver(t) \in disengaged
          \/ pc' = [pc EXCEPT ![t] = "remove"] /\ Leaver(t) \notin disengaged
      BY <1>4, <2>1 DEF Disengage, Goto, Sampled, Ending
    <2>4. AfterLeave(t) # "remove"
      BY DEF AfterLeave
    <2>5. \A u \in Leavers : Leaver(u)' = Leaver(u)
      BY <2>1 DEF Leaver
    <2>6. BeingRemoved' = IF Leaver(t) \in disengaged THEN BeingRemoved
                          ELSE BeingRemoved \cup {Leaver(t)}
      BY <1>a, <1>c, <1>d, <2>1, <2>2, <2>3, <2>4, <2>5
    <2>7. disengaged' \ BeingRemoved' = Left
      BY <2>1, <2>6
    <2>8. QED
      BY <2>1, <2>7 DEF AvailableIsExact
  <1>5. ASSUME NEW t \in Leavers, RemoveActor(t)
        PROVE  available' = Cardinality(Actors) - Cardinality(disengaged' \ BeingRemoved')
    <2>1. UNCHANGED <<state, disengaged, victim>> /\ available' = available - 1
          /\ pc[t] = "remove" /\ pc' = [pc EXCEPT ![t] = AfterLeave(t)]
      BY <1>5 DEF RemoveActor, Goto, stateVars, actorVars, localVars
    <2>2. Leaver(t) \in disengaged /\ Leaver(t) \in BeingRemoved
      BY <1>a, <1>c, <2>1 DEF Removals
    <2>3. AfterLeave(t) # "remove"
      BY DEF AfterLeave
    <2>4. \A u \in Leavers : Leaver(u)' = Leaver(u)
      BY <2>1 DEF Leaver
    <2>5. \A u \in Leavers : pc'[u] = "remove" <=> pc[u] = "remove" /\ u # t
      BY <1>a, <2>1, <2>3
    <2>6. \A u \in Leavers : pc[u] = "remove" /\ u # t => Leaver(u) # Leaver(t)
      BY <2>1 DEF Removals
    <2>7. BeingRemoved' = BeingRemoved \ {Leaver(t)}
      BY <1>c, <1>d, <2>1, <2>4, <2>5, <2>6
    <2>8. disengaged' \ BeingRemoved' = Left \cup {Leaver(t)} /\ Leaver(t) \notin Left
      BY <2>1, <2>2, <2>7
    <2>9. Cardinality(Left \cup {Leaver(t)}) = Cardinality(Left) + 1
      BY <1>b, <2>8, FS_AddElement
    <2>10. available = Cardinality(Actors) - Cardinality(Left)
      BY <2>1 DEF AvailableIsExact
    <2>11. Cardinality(disengaged' \ BeingRemoved') = Cardinality(Left) + 1
      BY <2>8, <2>9
    <2> HIDE DEF Left
    <2>12. QED
      BY <1>a, <1>b, <2>1, <2>10, <2>11
  <1>6. QED
    BY <1>1, <1>2, <1>3, <1>4, <1>5, EngagedStep DEF Engaged

\* The number of actors a tick waits for is that of the engaged ones, although the thread
\* of an actor, the environment's and start()'s may each disengage it, in two steps.
THEOREM AvailableStaysExact == Spec => []AvailableIsExact
  <1>1. Init => Removals /\ Sampled /\ AvailableIsExact
    BY ActorsAssumption
    DEF Init, Removals, Sampled, AvailableIsExact, Starting, Leavers, Threads, ServiceThreads
  <1>2. TypeOK /\ VictimNamed /\ Begun /\ Removals /\ Sampled /\ AvailableIsExact /\ [Next]_vars
        => /\ TypeOK' /\ VictimNamed' /\ Begun' /\ Removals' /\ Sampled' /\ AvailableIsExact'
    BY TypeStep, BegunStep, RemovalsStep, SampledStep, AvailableStep
  <1>3. QED
    BY <1>1, <1>2, TypeInit, BegunInit, PTL DEF Spec
=============================================================================
