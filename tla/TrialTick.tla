------------------------------ MODULE TrialTick ------------------------------
(***************************************************************************)
(* One trial of the orchestrator (orchestrator/lib/cogment/trial.cpp), with *)
(* all the threads that work on it:                                        *)
(*   "env"    reads the environment's stream and runs env_observed         *)
(*   a actor  reads the stream of actor a, runs actor_acted and disengage  *)
(*   "act"    the action processing thread, runs process_actions           *)
(*   "start"  runs start(), then "Trial starting" (wait_for_actors)        *)
(*   "fin"    "Trial finishing", spawned by finish()                       *)
(*   "rpc"    a hard termination from outside (TerminateTrial, GC)         *)
(* and the thread of the TimeoutRunner, which has no local state.          *)
(*                                                                         *)
(* An action is what a thread does between two accesses to shared state    *)
(* that others can come in between; pc[t] names the place where t stands.  *)
(* The environment is the SDK's: it sends one set of observations, then    *)
(* waits for one set of actions.  An actor answers an observation once.    *)
(***************************************************************************)
EXTENDS Integers, Sequences, FiniteSets

CONSTANTS
  Actors,        \* the actors of the trial's parameters
  Required,      \* those that are not optional
  TimedActors,   \* those with a response timeout
  Rank,          \* order of the response timeouts
  AutoActors,    \* those whose actions carry AUTO_TICK_ID
  Flaky,         \* those whose stream may break
  Absent,        \* those that may not join in time
  MaxSteps,      \* m_max_steps
  NbBuffered,    \* m_nb_buffered_samples
  EnvMayEnd,     \* may the environment end the trial?
  EnvMayFail,    \* may the environment's stream break?
  MayRequestEnd, \* may a client call request_end?
  MayTerminate,  \* may a client (or the GC) call terminate?
  Nobody         \* no thread, no actor

ServiceThreads == {"env", "act", "fin", "start", "rpc"}
Threads == Actors \cup ServiceThreads

ASSUME ActorsAssumption ==
  /\ IsFiniteSet(Actors) /\ Actors # {}
  /\ Actors \cap ServiceThreads = {} /\ Nobody \notin Threads
  /\ Required \subseteq Actors /\ TimedActors \subseteq Actors
  /\ AutoActors \subseteq Actors /\ Flaky \subseteq Actors /\ Absent \subseteq Actors
  /\ Rank \in [Actors -> Nat] /\ \A i, j \in Actors : Rank[i] = Rank[j] => i = j

ASSUME BoundsAssumption ==
  /\ MaxSteps \in Nat /\ NbBuffered \in Nat /\ NbBuffered >= 2
  /\ EnvMayEnd \in BOOLEAN /\ EnvMayFail \in BOOLEAN
  /\ MayRequestEnd \in BOOLEAN /\ MayTerminate \in BOOLEAN

AUTO == -1     \* AUTO_TICK_ID
NoData == -2   \* NO_DATA_TICK_ID

VARIABLES
  state,         \* m_state
  endRequested,  \* m_end_requested
  tick,          \* m_tick_id
  acted,         \* m_nb_actors_acted
  available,     \* m_nb_available_actors
  lastAction,    \* m_last_action_tick
  samples,       \* m_step_data: [tick, acts] where acts[a] is the action's tick id
  log,           \* ticks of the samples given to the datalog
  signalled,     \* m_action_signal.m_signalled
  timed, toRemove, sorted, running, signaled, condSig, condLock,  \* m_response_timeouts
  shared, excl,  \* holders of m_terminating_lock
  pc,            \* where each thread stands
  victim,        \* the actor "env" or "start" is disengaging
  toSend,        \* actors dispatch_observations has still to serve
  isLast,        \* env_observed's parameter: are these the last observations?
  lastSet,       \* process_actions' last_actions
  msg, ptr,      \* actor_acted: the action's tick id, the tick of the sample found
  disengaged,    \* actors with m_disengaged set
  initFailed,    \* actors whose initialization failed (m_init_prom holds false)
  streams,       \* actors whose stream is valid
  envStream,     \* is the environment's stream valid?
  envLast,       \* Environment::m_last_sent_received
  seen,          \* per actor: observations received and not answered yet
  observed,      \* sets of observations the trial accepted
  sets           \* the action sets sent to the environment

stateVars == <<state, endRequested>>
tickVars == <<tick, acted, available, lastAction>>
sampleVars == <<samples, log>>
runnerVars == <<timed, toRemove, sorted, running, signaled, condSig, condLock>>
lockVars == <<shared, excl>>
localVars == <<victim, toSend, isLast, lastSet, msg, ptr>>
actorVars == <<disengaged, initFailed, streams, seen>>
envVars == <<envStream, envLast, observed, sets>>
vars == <<stateVars, tickVars, sampleVars, signalled, runnerVars, lockVars, pc,
          localVars, actorVars, envVars>>

Runner == INSTANCE TimeoutRunner WITH
            Ids <- Actors, NoLock <- Nobody, sigs <- acted, term <- signalled

States == {"initializing", "pending", "running", "terminating", "ended"}
Ending == {"terminating", "ended"}

Last(s) == s[Len(s)]
Ticks(s) == [i \in 1..Len(s) |-> s[i].tick]

Init ==
  /\ state = "initializing" /\ endRequested = FALSE
  /\ tick = 0 /\ acted = 0 /\ available = 0 /\ lastAction = -1
  /\ samples = <<>> /\ log = <<>> /\ signalled = FALSE
  /\ Runner!RunnerInit
  /\ shared = {} /\ excl = Nobody
  /\ pc = [t \in Threads |-> CASE t = "act" -> "wait" [] t = "start" -> "check" [] OTHER -> "idle"]
  /\ victim = [t \in {"env", "start"} |-> Nobody]
  /\ toSend = {} /\ isLast = FALSE /\ lastSet = FALSE
  /\ msg = [a \in Actors |-> NoData] /\ ptr = [a \in Actors |-> NoData]
  /\ disengaged = {} /\ initFailed = {} /\ streams = {} /\ seen = [a \in Actors |-> {}]
  /\ envStream = FALSE /\ envLast = FALSE /\ observed = 0 /\ sets = <<>>

Goto(t, place) == pc' = [pc EXCEPT ![t] = place]
Share(t) == excl = Nobody /\ shared' = shared \cup {t} /\ UNCHANGED excl
Release(t) == shared' = shared \ {t} /\ UNCHANGED excl

\* Mutant: nothing is flushed.
SetEndedUnflushed == state' = "ended" /\ UNCHANGED <<samples, log>>

\* set_state(ended) with its flush_samples: allowed from any state.
SetEnded ==
  IF state = "ended"
    THEN UNCHANGED <<state, samples, log>>
    ELSE state' = "ended" /\ log' = log \o Ticks(samples) /\ samples' = <<>>

\* make_new_sample, but for the count that it resets.
NewSample(k) == [tick |-> k, acts |-> [a \in Actors |-> NoData]]

-----------------------------------------------------------------------------
(* Starting: Trial::start, then its "Trial starting" thread.               *)

StartCheck ==
  /\ pc["start"] = "check"
  /\ Goto("start", IF state = "initializing" THEN "prepare" ELSE "idle")
  /\ UNCHANGED <<stateVars, tickVars, sampleVars, signalled, runnerVars, lockVars,
                 localVars, actorVars, envVars>>

\* prepare_datalog, prepare_environment, prepare_actors, make_new_sample.
StartPrepare ==
  /\ pc["start"] = "prepare"
  /\ Runner!LockFree
  /\ timed' = timed \cup TimedActors /\ sorted' = FALSE
  /\ available' = Cardinality(Actors)
  /\ samples' = Append(samples, NewSample(tick)) /\ acted' = 0
  /\ Goto("start", "pend")
  /\ UNCHANGED <<stateVars, tick, lastAction, log, signalled, toRemove, running,
                 signaled, condSig, condLock, lockVars, localVars, actorVars, envVars>>

\* set_state(pending); if the trial was terminated meanwhile, start() throws.
StartPend ==
  /\ pc["start"] = "pend"
  /\ IF state = "initializing"
       THEN /\ state' = "pending"
            /\ pc' = [t \in Threads |-> IF t = "start" THEN "join"
                                        ELSE IF t \in Actors THEN "join" ELSE pc[t]]
       ELSE Goto("start", "idle") /\ UNCHANGED state
  /\ UNCHANGED <<endRequested, tickVars, sampleVars, signalled, runnerVars, lockVars,
                 localVars, actorVars, envVars>>

\* The actor's stream is established and its init data exchanged.
Join(a) ==
  /\ pc[a] = "join" /\ pc["start"] = "join"
  /\ streams' = streams \cup {a}
  /\ Goto(a, "read")
  /\ UNCHANGED <<stateVars, tickVars, sampleVars, signalled, runnerVars, lockVars,
                 localVars, disengaged, initFailed, seen, envVars>>

\* The actor's own thread cannot initialize it (process_initialization):
\* wait_for_actors is told, and the thread disengages the actor.
InitFails(a) ==
  /\ pc[a] = "join" /\ a \in Absent
  /\ initFailed' = initFailed \cup {a}
  /\ Goto(a, "leave")
  /\ UNCHANGED <<stateVars, tickVars, sampleVars, signalled, runnerVars, lockVars,
                 localVars, disengaged, streams, seen, envVars>>

\* wait_for_actors: an actor is not there in time, or its initialization
\* failed.  A required one ends the trial (terminate), an optional one is
\* disengaged, here and maybe in its own thread.
JoinTimeout(a) ==
  /\ pc["start"] = "join" /\ a \in Absent
  /\ pc[a] = "join" \/ a \in initFailed
  /\ a \in Required \/ a \notin disengaged
  /\ victim' = [victim EXCEPT !["start"] = a]
  /\ Goto("start", IF a \in Required THEN "terminate" ELSE "leave")
  /\ UNCHANGED <<stateVars, tickVars, sampleVars, signalled, runnerVars, lockVars,
                 toSend, isLast, lastSet, msg, ptr, actorVars, envVars>>

ActorsReady ==
  /\ \A a \in Actors : pc[a] # "join" \/ a \in disengaged
  /\ initFailed \subseteq disengaged \ Required

\* Everybody joined or left: the environment's session starts (m_env->init).
StartEnv ==
  /\ pc["start"] = "join" /\ ActorsReady
  /\ envStream' = TRUE
  /\ pc' = [pc EXCEPT !["start"] = "idle", !["env"] = "read"]
  /\ UNCHANGED <<stateVars, tickVars, sampleVars, signalled, runnerVars, lockVars,
                 localVars, actorVars, envLast, observed, sets>>

\* The environment cannot be started: the trial is terminated.  If it can, but
\* its stream ends before its init data came, nobody gives m_init_prom a
\* value: the thread waits in init().wait() for good.
StartEnvFails ==
  /\ EnvMayFail /\ pc["start"] = "join" /\ ActorsReady
  /\ \/ Goto("start", "terminate")
     \/ Goto("start", "init")
  /\ UNCHANGED <<stateVars, tickVars, sampleVars, signalled, runnerVars, lockVars,
                 localVars, actorVars, envVars>>

-----------------------------------------------------------------------------
(* The environment's stream: Trial::env_observed.                          *)

\* The environment ends the trial: its next observations are the last
\* (Environment::process_incoming_state on LAST).
EnvEnds ==
  /\ EnvMayEnd /\ pc["env"] = "read" /\ envStream /\ ~envLast /\ ~isLast
  /\ observed <= Len(sets)
  /\ envLast' = TRUE
  /\ UNCHANGED <<stateVars, tickVars, sampleVars, signalled, runnerVars, lockVars, pc,
                 localVars, actorVars, envStream, observed, sets>>

\* Mutant: observations are taken after the end.
EnvObservedLate ==
  /\ pc["env"] = "read" /\ envStream /\ ~isLast /\ observed <= Len(sets)
  /\ Share("env")
  /\ isLast' = envLast /\ observed' = observed + 1
  /\ IF state = "pending"
       THEN state' = "running" /\ Goto("env", "observe") /\ UNCHANGED tick
       ELSE tick' = tick + 1 /\ Goto("env", "sample") /\ UNCHANGED state
  /\ UNCHANGED <<endRequested, acted, available, lastAction, sampleVars, signalled,
                 runnerVars, victim, toSend, lastSet, msg, ptr, actorVars,
                 envStream, envLast, sets>>

\* Observations come in, one set for each set of actions the environment
\* got and one to begin with.  After the end they are dropped.
EnvObserved ==
  /\ pc["env"] = "read" /\ envStream /\ ~isLast /\ observed <= Len(sets)
  /\ state # "ended"
  /\ Share("env")
  /\ isLast' = envLast /\ observed' = observed + 1
  /\ IF state = "pending"
       THEN state' = "running" /\ Goto("env", "observe") /\ UNCHANGED tick
       ELSE tick' = tick + 1 /\ Goto("env", "sample") /\ UNCHANGED state
  /\ UNCHANGED <<endRequested, acted, available, lastAction, sampleVars, signalled,
                 runnerVars, victim, toSend, lastSet, msg, ptr, actorVars,
                 envStream, envLast, sets>>

EnvSample ==
  /\ pc["env"] = "sample"
  /\ samples' = Append(samples, NewSample(tick)) /\ acted' = 0
  /\ Goto("env", "observe")
  /\ UNCHANGED <<stateVars, tick, available, lastAction, log, signalled, runnerVars,
                 lockVars, localVars, actorVars, envVars>>

\* The observations are in the last sample: TimeoutRunner::start holds the
\* runner's lock while they are dispatched; the last ones need no timeout.
EnvRespond ==
  /\ pc["env"] = "observe"
  /\ IF isLast THEN UNCHANGED runnerVars ELSE Runner!StartBegin("env")
  /\ toSend' = IF state = "ended" \/ samples = <<>> THEN {} ELSE Actors
  /\ Goto("env", "dispatch")
  /\ UNCHANGED <<stateVars, tickVars, sampleVars, signalled, lockVars, victim, isLast,
                 lastSet, msg, ptr, actorVars, envVars>>

Deliver(S) == seen' = [a \in Actors |-> IF a \in S THEN seen[a] \cup {tick} ELSE seen[a]]

\* dispatch_observations: every actor still engaged gets its observation...
EnvDispatch ==
  /\ pc["env"] = "dispatch"
  /\ toSend \subseteq disengaged \cup streams
  /\ Deliver(toSend \ disengaged)
  /\ toSend' = {} /\ Goto("env", "sent")
  /\ UNCHANGED <<stateVars, tickVars, sampleVars, signalled, runnerVars, lockVars,
                 victim, isLast, lastSet, msg, ptr, disengaged, initFailed, streams, envVars>>

\* ... unless a write fails: Actor::dispatch_tick then disengages that actor,
\* after it served those that come before it.
EnvWriteFails(a) ==
  /\ pc["env"] = "dispatch" /\ a \in toSend \ (disengaged \cup streams)
  /\ \E before \in SUBSET ((toSend \cap streams) \ disengaged) :
        Deliver(before) /\ toSend' = toSend \ (before \cup {a})
  /\ victim' = [victim EXCEPT !["env"] = a]
  /\ Goto("env", "leave")
  /\ UNCHANGED <<stateVars, tickVars, sampleVars, signalled, runnerVars, lockVars,
                 isLast, lastSet, msg, ptr, disengaged, initFailed, streams, envVars>>

EnvStarted ==
  /\ pc["env"] = "sent" /\ ~isLast
  /\ Runner!StartEnd("env")
  /\ Goto("env", "balance")
  /\ UNCHANGED <<stateVars, tickVars, sampleVars, signalled, lockVars, localVars,
                 actorVars, envVars>>

\* balance_sample_bufer: with LOG_BATCH_SIZE = 1, all but the last
\* NbBuffered - 1 samples go to the log.
EnvBalance ==
  /\ pc["env"] = "balance"
  /\ LET over == IF Len(samples) >= NbBuffered THEN Len(samples) - NbBuffered + 1 ELSE 0 IN
     /\ log' = log \o Ticks(SubSeq(samples, 1, over))
     /\ samples' = SubSeq(samples, over + 1, Len(samples))
  /\ Release("env") /\ Goto("env", "read")
  /\ UNCHANGED <<stateVars, tickVars, signalled, runnerVars, localVars, actorVars, envVars>>

\* finish(), after the last observations: the "Trial finishing" thread takes over.
EnvFinish ==
  /\ pc["env"] = "sent" /\ isLast
  /\ IF state = "ended"
       THEN Goto("env", "read") /\ UNCHANGED state
       ELSE state' = "terminating" /\ pc' = [pc EXCEPT !["env"] = "read", !["fin"] = "finalize"]
  /\ Release("env")
  /\ UNCHANGED <<endRequested, tickVars, sampleVars, signalled, runnerVars, localVars,
                 actorVars, envVars>>

\* The environment's stream breaks: its reading loop ends.
EnvBreaks ==
  /\ EnvMayFail /\ pc["env"] = "read"
  /\ envStream /\ envStream' = FALSE
  /\ UNCHANGED <<stateVars, tickVars, sampleVars, signalled, runnerVars, lockVars, pc,
                 localVars, actorVars, envLast, observed, sets>>

-----------------------------------------------------------------------------
(* The actors' streams: Trial::actor_acted.                                *)

\* An action is read, in the order of the observations it answers, and the
\* sample it will go to is looked up (the last one, get_last_sample).
ReadAction(a) ==
  /\ pc[a] = "read" /\ a \in streams \ disengaged
  /\ \E k \in seen[a] :
       /\ \A j \in seen[a] : k <= j
       /\ seen' = [seen EXCEPT ![a] = @ \ {k}]
       /\ IF state = "ended" \/ samples = <<>>
            THEN excl = Nobody /\ UNCHANGED <<msg, ptr, pc, lockVars>>
            ELSE /\ Share(a) /\ Goto(a, "record")
                 /\ msg' = [msg EXCEPT ![a] = IF a \in AutoActors THEN AUTO ELSE k]
                 /\ ptr' = [ptr EXCEPT ![a] = Last(samples).tick]
  /\ UNCHANGED <<stateVars, tickVars, sampleVars, signalled, runnerVars, victim, toSend,
                 isLast, lastSet, disengaged, initFailed, streams, envVars>>

\* actor_acted returns; its locals are gone.
Return(a) ==
  /\ Release(a) /\ Goto(a, "read")
  /\ msg' = [msg EXCEPT ![a] = NoData] /\ ptr' = [ptr EXCEPT ![a] = NoData]

Buffered(k) == \E i \in 1..Len(samples) : samples[i].tick = k

\* The action of a in the sample of tick k: what it becomes, what it is.
WithAction(k, a, x) ==
  [i \in 1..Len(samples) |->
     IF samples[i].tick = k THEN [samples[i] EXCEPT !.acts[a] = x] ELSE samples[i]]
ActionAt(k, a) == (CHOOSE s \in {samples[i] : i \in 1..Len(samples)} : s.tick = k).acts[a]

\* Mutant: the action's tick is not checked.
RecordAnyTick(a) ==
  /\ pc[a] = "record"
  /\ Buffered(ptr[a]) => ActionAt(ptr[a], a) = NoData
  /\ samples' = WithAction(ptr[a], a, msg[a])
  /\ Goto(a, "signal")
  /\ UNCHANGED <<stateVars, tickVars, log, signalled, runnerVars, lockVars, localVars,
                 actorVars, envVars>>

\* The action is for this tick and is the first: it is accepted.
RecordAction(a) ==
  /\ pc[a] = "record" /\ msg[a] \in {AUTO, tick}
  /\ Buffered(ptr[a]) => ActionAt(ptr[a], a) = NoData
  /\ samples' = WithAction(ptr[a], a, msg[a])
  /\ Goto(a, "signal")
  /\ UNCHANGED <<stateVars, tickVars, log, signalled, runnerVars, lockVars, localVars,
                 actorVars, envVars>>

\* "invalid action step" or "multiple actions": ignored.  (A sample that left
\* the buffer was freed: what is read there is arbitrary.)
IgnoreAction(a) ==
  /\ pc[a] = "record"
  /\ \/ msg[a] \notin {AUTO, tick}
     \/ ~Buffered(ptr[a])
     \/ Buffered(ptr[a]) /\ ActionAt(ptr[a], a) # NoData
  /\ Return(a)
  /\ UNCHANGED <<stateVars, tickVars, sampleVars, signalled, runnerVars, victim, toSend,
                 isLast, lastSet, actorVars, envVars>>

SignalAction(a) ==
  /\ pc[a] = "signal"
  /\ Runner!Signal(a)
  /\ Return(a)
  /\ UNCHANGED <<stateVars, tick, available, lastAction, sampleVars, victim, toSend,
                 isLast, lastSet, actorVars, envVars>>

\* The actor's process or its connection is lost.
StreamBreaks(a) ==
  /\ a \in Flaky \cap streams /\ streams' = streams \ {a}
  /\ UNCHANGED <<stateVars, tickVars, sampleVars, signalled, runnerVars, lockVars, pc,
                 localVars, disengaged, initFailed, seen, envVars>>

\* The reading loop ends, and with it the actor's thread: disengage().
StreamEnds(a) ==
  /\ pc[a] = "read" /\ a \notin streams
  /\ Goto(a, "leave")
  /\ UNCHANGED <<stateVars, tickVars, sampleVars, signalled, runnerVars, lockVars,
                 localVars, actorVars, envVars>>

-----------------------------------------------------------------------------
(* Actor::disengage and Trial::actor_disengaging, in the thread of the     *)
(* actor, in "env" (a write failed) or in "start" (it did not join).       *)

Leaver(t) == IF t \in Actors THEN t ELSE victim[t]
AfterLeave(t) == CASE t = "env" -> "dispatch" [] t = "start" -> "join" [] OTHER -> "gone"

\* Mutant: an actor can be disengaged twice.
DisengageAgain(t) ==
  /\ pc[t] = "leave"
  /\ LET x == Leaver(t) IN
     /\ disengaged' = disengaged \cup {x}
     /\ IF state \in Ending \/ samples = <<>>
          THEN Goto(t, AfterLeave(t)) /\ UNCHANGED samples
          ELSE Goto(t, "remove") /\ samples' = WithAction(Last(samples).tick, x, NoData)
  /\ UNCHANGED <<stateVars, tickVars, log, signalled, runnerVars, lockVars, localVars,
                 initFailed, streams, seen, envVars>>

\* m_disengaged, then the action that may already be there is taken back.
\* Nothing happens to a trial that is ending, or has no sample.
Disengage(t) ==
  /\ pc[t] = "leave"
  /\ LET x == Leaver(t) IN
     /\ disengaged' = disengaged \cup {x}
     /\ IF x \in disengaged \/ state \in Ending \/ samples = <<>>
          THEN Goto(t, AfterLeave(t)) /\ UNCHANGED samples
          ELSE Goto(t, "remove") /\ samples' = WithAction(Last(samples).tick, x, NoData)
  /\ UNCHANGED <<stateVars, tickVars, log, signalled, runnerVars, lockVars, localVars,
                 initFailed, streams, seen, envVars>>

\* Mutant: the action thread is not signalled.
RemoveActorSilently(t) ==
  /\ pc[t] = "remove"
  /\ Runner!Remove(Leaver(t))
  /\ available' = available - 1
  /\ Goto(t, AfterLeave(t))
  /\ UNCHANGED <<stateVars, tick, acted, lastAction, sampleVars, lockVars, localVars,
                 actorVars, envVars, signalled>>

\* Its timeout is removed, it is no longer waited for, and the action thread
\* looks again at the count.
RemoveActor(t) ==
  /\ pc[t] = "remove"
  /\ Runner!Remove(Leaver(t))
  /\ available' = available - 1 /\ signalled' = TRUE
  /\ Goto(t, AfterLeave(t))
  /\ UNCHANGED <<stateVars, tick, acted, lastAction, sampleVars, lockVars, localVars,
                 actorVars, envVars>>

-----------------------------------------------------------------------------
(* The timeout runner's thread.                                            *)

RunnerWakes ==
  /\ Runner!Wake
  /\ UNCHANGED <<stateVars, tick, available, lastAction, sampleVars, lockVars, pc,
                 localVars, actorVars, envVars>>

RunnerExpires ==
  /\ Runner!Expire
  /\ UNCHANGED <<stateVars, tick, available, lastAction, sampleVars, lockVars, pc,
                 localVars, actorVars, envVars>>

-----------------------------------------------------------------------------
(* The action thread: SimpleSignal::wait, then Trial::process_actions.     *)

ActWait ==
  /\ pc["act"] = "wait" /\ signalled
  /\ signalled' = FALSE /\ Goto("act", "count")
  /\ UNCHANGED <<stateVars, tickVars, sampleVars, runnerVars, lockVars, localVars,
                 actorVars, envVars>>

ActCount ==
  /\ pc["act"] = "count"
  /\ Goto("act", IF acted < available THEN "wait" ELSE "claim")
  /\ UNCHANGED <<stateVars, tickVars, sampleVars, signalled, runnerVars, lockVars,
                 localVars, actorVars, envVars>>

\* Mutant: the next tick is claimed as well.
ActClaimNext ==
  /\ pc["act"] = "claim"
  /\ IF lastAction >= tick
       THEN Goto("act", "wait") /\ UNCHANGED lastAction
       ELSE Goto("act", "lock") /\ lastAction' = tick + 1
  /\ UNCHANGED <<stateVars, tick, acted, available, sampleVars, signalled, runnerVars,
                 lockVars, localVars, actorVars, envVars>>

\* One decision a tick: m_last_action_tick.
ActClaim ==
  /\ pc["act"] = "claim"
  /\ IF lastAction >= tick
       THEN Goto("act", "wait") /\ UNCHANGED lastAction
       ELSE Goto("act", "lock") /\ lastAction' = tick
  /\ UNCHANGED <<stateVars, tick, acted, available, sampleVars, signalled, runnerVars,
                 lockVars, localVars, actorVars, envVars>>

\* Under the lock: is it the last set?  Then set_state(terminating), which
\* throws while the trial is pending.
ActLock ==
  /\ pc["act"] = "lock" /\ excl = Nobody
  /\ LET last == tick >= MaxSteps \/ endRequested IN
     IF state = "ended" \/ (last /\ state = "pending")
       THEN /\ Goto("act", IF state = "ended" THEN "wait" ELSE "terminate")
            /\ UNCHANGED <<state, lockVars, lastSet>>
       ELSE /\ Share("act") /\ Goto("act", "send")
            /\ lastSet' = last
            /\ state' = IF last THEN "terminating" ELSE state
  /\ UNCHANGED <<endRequested, tickVars, sampleVars, signalled, runnerVars, victim,
                 toSend, isLast, msg, ptr, actorVars, envVars>>

\* make_action_set: an entry for the actors whose action is of this tick and
\* an empty (or default) one for those that have none in the last sample.
Given == {a \in Actors : Last(samples).acts[a] \in {AUTO, tick}}
Filled == {a \in Actors : Last(samples).acts[a] = NoData}

\* Then it is dispatched to the environment...
ActSend ==
  /\ pc["act"] = "send" /\ samples # <<>>
  /\ Filled \cap Required = {} /\ envStream
  /\ sets' = Append(sets, [tick |-> tick, given |-> Given, filled |-> Filled])
  /\ envLast' = (envLast \/ lastSet)
  /\ Release("act") /\ Goto("act", "wait") /\ lastSet' = FALSE
  /\ UNCHANGED <<stateVars, tickVars, sampleVars, signalled, runnerVars, victim, toSend,
                 isLast, msg, ptr, actorVars, envStream, observed>>

\* ... unless a write fails: the stream is marked invalid, but nothing is
\* thrown, and only a second write (the set's, after LAST's) finds out.
ActWriteFails ==
  /\ pc["act"] = "send" /\ samples # <<>>
  /\ Filled \cap Required = {} /\ envStream /\ EnvMayFail
  /\ envStream' = FALSE /\ envLast' = (envLast \/ lastSet)
  /\ \/ Goto("act", "wait")
     \/ lastSet /\ Goto("act", "terminate")
  /\ Release("act") /\ lastSet' = FALSE
  /\ UNCHANGED <<stateVars, tickVars, sampleVars, signalled, runnerVars, victim, toSend,
                 isLast, msg, ptr, actorVars, observed, sets>>

\* ... or a required actor has no action, or the stream is invalid already: an
\* exception, and the thread terminates the trial.  (With the samples already
\* flushed, m_step_data.back() is undefined: the process stops there, or the
\* set is refused, the environment's stream being closed by then.)
ActFails ==
  /\ pc["act"] = "send"
  /\ IF samples = <<>> THEN TRUE ELSE ~envStream \/ Filled \cap Required # {}
  /\ Release("act") /\ Goto("act", "terminate") /\ lastSet' = FALSE
  /\ UNCHANGED <<stateVars, tickVars, sampleVars, signalled, runnerVars, victim, toSend,
                 isLast, msg, ptr, actorVars, envVars>>

-----------------------------------------------------------------------------
(* Ending.                                                                 *)

RequestEnd ==
  /\ MayRequestEnd /\ ~endRequested /\ state # "initializing"
  /\ endRequested' = TRUE
  /\ UNCHANGED <<state, tickVars, sampleVars, signalled, runnerVars, lockVars, pc,
                 localVars, actorVars, envVars>>

\* A client's TerminateTrial (hard), or the GC on a stale trial.
Kill ==
  /\ MayTerminate /\ pc["rpc"] = "idle"
  /\ Goto("rpc", "terminate")
  /\ UNCHANGED <<stateVars, tickVars, sampleVars, signalled, runnerVars, lockVars,
                 localVars, actorVars, envVars>>

AfterTerminate(t) == CASE t = "act" -> "wait" [] t = "start" -> "idle" [] OTHER -> "done"

\* terminate(): exclusive, nothing to do on a trial that ended.  From a state
\* where terminating is refused ("Hard termination") the state stays.
Terminate(t) ==
  /\ pc[t] = "terminate" /\ excl = Nobody /\ shared = {}
  /\ IF state = "ended"
       THEN Goto(t, AfterTerminate(t)) /\ UNCHANGED <<state, excl>>
       ELSE /\ Goto(t, "end") /\ excl' = t
            /\ state' = IF state = "running" THEN "terminating" ELSE state
  /\ UNCHANGED <<endRequested, tickVars, sampleVars, signalled, runnerVars, shared,
                 localVars, actorVars, envVars>>

\* trial_ended() on the environment and the actors closes the streams.
TerminateStreams(t) ==
  /\ pc[t] = "end"
  /\ streams' = {} /\ envStream' = FALSE
  /\ Goto(t, "ended")
  /\ UNCHANGED <<stateVars, tickVars, sampleVars, signalled, runnerVars, lockVars,
                 localVars, disengaged, initFailed, seen, envLast, observed, sets>>

TerminateEnd(t) ==
  /\ pc[t] = "ended"
  /\ SetEnded
  /\ excl' = Nobody /\ Goto(t, AfterTerminate(t))
  /\ UNCHANGED <<endRequested, tickVars, signalled, runnerVars, shared, localVars,
                 actorVars, envVars>>

\* "Trial finishing": finalize_env and finalize_actors wait for LAST_ACK, or
\* time out; then trial_ended() closes the streams.
Finalize ==
  /\ pc["fin"] = "finalize"
  /\ streams' = {} /\ envStream' = FALSE
  /\ Goto("fin", "ended")
  /\ UNCHANGED <<stateVars, tickVars, sampleVars, signalled, runnerVars, lockVars,
                 localVars, disengaged, initFailed, seen, envLast, observed, sets>>

FinishEnd ==
  /\ pc["fin"] = "ended"
  /\ SetEnded
  /\ Goto("fin", "idle")
  /\ UNCHANGED <<endRequested, tickVars, signalled, runnerVars, lockVars, localVars,
                 actorVars, envVars>>

\* The trial ended and no lock is held: the system may stop here.
Finished ==
  /\ state = "ended" /\ excl = Nobody /\ shared = {} /\ condLock = Nobody
  /\ UNCHANGED vars

-----------------------------------------------------------------------------

Start ==
  \/ StartCheck \/ StartPrepare \/ StartPend \/ StartEnv \/ StartEnvFails
  \/ \E a \in Actors : JoinTimeout(a)
EnvThread ==
  \/ EnvObserved \/ EnvSample \/ EnvRespond \/ EnvDispatch \/ EnvStarted
  \/ EnvBalance \/ EnvFinish \/ \E a \in Actors : EnvWriteFails(a)
ActThread == ActWait \/ ActCount \/ ActClaim \/ ActLock \/ ActSend \/ ActWriteFails \/ ActFails
Leaving(t) == Disengage(t) \/ RemoveActor(t)
ActorThread(a) ==
  \/ RecordAction(a) \/ IgnoreAction(a) \/ SignalAction(a)
  \/ StreamEnds(a) \/ Leaving(a)
Terminating(t) == Terminate(t) \/ TerminateStreams(t) \/ TerminateEnd(t)
FinThread == Finalize \/ FinishEnd

Moves ==
  \/ Start \/ EnvThread \/ ActThread \/ FinThread
  \/ EnvEnds \/ EnvBreaks \/ Kill \/ Finished
  \/ RunnerWakes \/ RunnerExpires
  \/ \E a \in Actors :
       Join(a) \/ InitFails(a) \/ ReadAction(a) \/ StreamBreaks(a) \/ ActorThread(a)
  \/ \E t \in {"env", "start"} : Leaving(t)
  \/ \E t \in {"act", "start", "rpc"} : Terminating(t)
Next == Moves \/ RequestEnd

Spec == Init /\ [][Next]_vars

\* Every thread keeps running, the clock advances, the environment answers
\* the actions it gets and the actors without a timeout answer observations.
Fairness ==
  /\ WF_vars(Start) /\ WF_vars(EnvThread) /\ WF_vars(ActThread) /\ WF_vars(FinThread)
  /\ WF_vars(RunnerWakes) /\ WF_vars(RunnerExpires)
  /\ \A a \in Actors \ Absent : WF_vars(Join(a))
  /\ \A a \in Actors \ TimedActors : WF_vars(ReadAction(a))
  /\ \A a \in Actors : WF_vars(ActorThread(a))
  /\ \A t \in {"env", "start"} : WF_vars(Leaving(t))
  /\ \A t \in {"act", "start", "rpc"} : WF_vars(Terminating(t))
FairSpec == Spec /\ Fairness

-----------------------------------------------------------------------------
(* Properties                                                              *)

Places == {"idle", "wait", "check", "prepare", "pend", "join", "init", "read", "sample", "observe",
           "dispatch", "sent", "balance", "record", "signal", "leave", "remove", "gone",
           "count", "claim", "lock", "send", "finalize", "terminate", "end", "ended", "done"}

Sample == [tick : Nat, acts : [Actors -> Int]]
ActionSet == [tick : Nat, given : SUBSET Actors, filled : SUBSET Actors]

StateOK == state \in States /\ endRequested \in BOOLEAN
CountsOK == tick \in Nat /\ acted \in Nat /\ available \in Int /\ lastAction \in -1..tick
SamplesOK == samples \in Seq(Sample) /\ log \in Seq(Nat)
RunnerOK ==
  /\ timed \in SUBSET Actors /\ toRemove \in SUBSET Actors
  /\ running \in SUBSET timed /\ signaled \in SUBSET Actors
  /\ sorted \in BOOLEAN /\ condSig \in BOOLEAN /\ signalled \in BOOLEAN
  /\ condLock \in {"env", Nobody}
ThreadsOK ==
  /\ shared \in SUBSET Threads /\ excl \in Threads \cup {Nobody}
  /\ pc \in [Threads -> Places]
  /\ victim \in [{"env", "start"} -> Actors \cup {Nobody}]
  /\ toSend \in SUBSET Actors /\ isLast \in BOOLEAN /\ lastSet \in BOOLEAN
  /\ msg \in [Actors -> Int] /\ ptr \in [Actors -> Int]
ComponentsOK ==
  /\ disengaged \in SUBSET Actors /\ initFailed \in SUBSET Actors
  /\ streams \in SUBSET Actors
  /\ seen \in [Actors -> SUBSET Nat]
  /\ envStream \in BOOLEAN /\ envLast \in BOOLEAN /\ observed \in Nat
  /\ sets \in Seq(ActionSet)

TypeOK ==
  StateOK /\ CountsOK /\ SamplesOK /\ RunnerOK /\ ThreadsOK /\ ComponentsOK

\* The trial, seen from outside, is a TrialProtocol: its life goes one way,
\* no set of actions is sent for observations that were already answered, no
\* observations are taken before the last ones were answered.
Protocol == INSTANCE TrialProtocol WITH answered <- Len(sets)
ImplementsProtocol == Protocol!Spec

\* An action with a tick id is stored in the sample of that tick, although
\* the sample is looked up before the tick is checked and the environment's
\* thread moves both on meanwhile (actor_acted / env_observed).
ActionInOwnSample ==
  \A i \in 1..Len(samples), a \in Actors :
    samples[i].acts[a] \in {NoData, AUTO, samples[i].tick}

\* The datalog gets every sample once and in order: what was logged, then
\* what is buffered, are the ticks from 0 on, although the samples leave the
\* buffer in different threads (balance_sample_bufer, flush_samples).  Nothing
\* is lost at the end: once the trial has ended and its threads have left, the
\* samples of all the ticks are in the log.
SamplesInOrder == LET all == log \o Ticks(samples) IN \A i \in 1..Len(all) : all[i] = i - 1
AllSamplesLogged ==
  /\ SamplesInOrder
  /\ (state = "ended" /\ shared = {} /\ observed > 0) => samples = <<>> /\ Len(log) = tick + 1

\* A tick that can be decided is: when all the available actors acted and
\* nothing was decided for the tick, the action thread is at work, or it is
\* signalled, or the timeout runner will signal it.
NoLostWakeup ==
  (/\ state \in {"pending", "running", "terminating"} /\ pc["env"] \in {"idle", "read", "balance"}
   /\ ~isLast /\ acted >= available /\ lastAction < tick)
    => signalled \/ pc["act"] \in {"count", "claim"} \/ condSig \/ running # {}

\* The actors waited for are those that are engaged, each counted once,
\* although two threads may disengage the same actor at the same time.
BeingRemoved == {x \in Actors : \E t \in Threads : pc[t] = "remove" /\ Leaver(t) = x}
AvailableIsExact ==
  state \in {"pending", "running"}
    => available = Cardinality(Actors) - Cardinality(disengaged \ BeingRemoved)

\* Every trial that starts ends, as its maximum number of steps is finite.
TrialEnds == <>(state = "ended")

=============================================================================
