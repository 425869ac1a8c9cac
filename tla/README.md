# Formal models of Cogment

TLA+ models of the program in this repository: a multi-actor trial platform made
of an orchestrator (C++), a trial datastore, a directory, a model registry and a
web proxy (Go). This project says which parts are modelled, how the models
correspond to the code, what TLC checks on small instances, what TLAPS proves for
every instance, and what is left out.

`PROJECT.json` is the index: the components, the runs, a mutant of the code for
every property, the lines every definition stands for, the hazards and the
theorems.

## 1. The system

| part | code | state it keeps | operations |
|---|---|---|---|
| Trial | `orchestrator/lib/cogment/trial.cpp` | state, tick, last ticks' samples, counts of actors that acted / are available, end requests | start, wait_for_actors, env_observed, actor_acted, process_actions, actor_disengaging, finish, terminate, request_end |
| Timeout runner, signal | `utils.{h,cpp}` | sorted list of response timeouts, its running prefix, two flags | add, remove, start, signal, the runner's thread, wait |
| Actor streams | `actor.cpp`, `agent_actor.cpp`, `client_actor.cpp` | one stream per actor, joined / disengaged flags, last-message exchange | join, read loop, dispatch_tick, disengage, trial_ended |
| Environment stream | `environment.cpp` | one stream, last sent / received | init, read loop, dispatch_actions, trial_ended |
| Orchestrator | `orchestrator.cpp` | the trials by id, watchers, GC countdown, trials to delete | start_trial, GC, get_trial, watch_trials, notify_watchers |
| gRPC services | `services/*.cpp` | none | translate requests to the calls above |
| Datalog client | `datalog.cpp` | one stream to the datastore per trial | add_samples |
| Trial datastore | `cli/services/datastore` | trials, parameters, samples; in memory or in a bolt file | create/update/delete trials, add samples, observe trials and samples |
| Directory | `cli/services/directory` | registered services, their health | register, deregister, inquire, health check |
| Model registry | `cli/services/registry` | models, versions, cached data, files | create / update / delete models and versions, retrieve data |
| Web proxy | `cli/services/proxy` | trial tokens, one actor manager per trial and actor | run a trial for a browser's actor |
| Launcher, CLI, clients, templates | `cli/launcher`, `cli/cmd`, `cli/clients` | processes | start processes, one remote call each |

(`orchestrator/` is `src/packages/orchestrator/`, `cli/` is `src/packages/cli/`.)

### How they interact

A client calls StartTrial; the orchestrator creates a `Trial`, which looks up its
components in the directory, opens a stream to the environment, one to each
service actor, and lets client actors join. The environment sends observations
for a tick; the trial stores them in a new sample and sends them to the actors.
Each actor answers with one action, which the trial stores in the last sample;
when everybody answered, timed out or left, the *action thread* sends one set of
actions to the environment, which answers with the observations of the next tick.
Samples that leave the trial's buffer go to the datalog, that is to the trial
datastore, which stores them and serves whoever observes that trial.

### What is hard in it

- One trial is worked on by many threads: the environment's reader, one reader per
  actor, the action thread, the starting and the finishing thread, the timeout
  runner, and any client or GC that terminates it. They share atomics, one shared
  mutex (`m_terminating_lock`, shared by all but `terminate`) and several small
  mutexes; most conditions are read before the lock that would make them stable.
- The trial moves on only when a *count* of answers reaches a *count* of available
  actors; both change from every thread, timeouts count for missing answers, and
  only the last change may wake the action thread.
- Streams break, actors never join, answers come after their timeout, a hard
  termination comes at any moment.
- In the services, observers read lists that grow and end while they wait, caches
  and files are kept in step, checks are made outside the lock of what they check.

### What makes each part correct

- *Trial*: observations and actions take turns; a tick is decided once, and never
  forgotten; an action ends in the sample of its own tick; the datalog receives
  every sample once and in order, whatever ends the trial; every trial ends.
- *Timeout runner*: every response or expiry is counted; whoever left is not
  waited for; the count that completes a round is announced; a round ends.
- *Orchestrator*: ids are unique, watchers see states in order and are not
  misled, calls do not wait on one another for ever.
- *Datastore*: observers see every item once, in order, then the end; eviction and
  deletion do not lose an item of a live trial.
- *Directory*: what is inquired was registered; the file has what the database has; an absent
  service is forgotten, and one that is there is found again.
- *Model registry*: what was archived stays, whatever fails while other versions are written;
  what is read of a version is what was created under its number, in the cache or in the files.
- *Web proxy*: an actor's actions reach the trial once, in order; a trial's end
  releases everyone who waits.

`PROJECT.json` lists under "hazards" the lines where each of these can go wrong.

## 2. The modules

| module | models | used by |
|---|---|---|
| `TimeoutRunner` | `TimeoutRunner` of utils.cpp as a library of actions on seven variables | `ResponseRounds`, `TrialTick` (INSTANCE) |
| `ResponseRounds` | the timer under rounds of responses, timeouts and departures, with the count and the signal it feeds | `MCResponseRounds`, `ResponseRoundsProofs` |
| `TrialProtocol` | the abstract specification of a trial: its life, and the turns of observations and actions | `TrialTick` (refinement) |
| `TrialTick` | one trial with all its threads, from start() to the end | `MCTrialTick`, `TrialProofs` |
| `OrchestratorRegistry` | the orchestrator around its trials: start_trial, GC, the list of trials, watch_trials | `MCOrchestratorRegistry`, `OrchestratorRegistryProofs` |
| `SampleLog` | the abstract specification of a datastore: append-only logs and their readers | `MemoryDatastore` (refinement) |
| `MemoryDatastore` | the samples of the datastore in memory: datalog streams with their batchers, AddSamples, the observable list, eviction, deletion, RetrieveSamples | `MCMemoryDatastore`, `MemoryDatastoreProofs` |
| `StoredSamples` | how a logged tick becomes a stored sample, and how a filter cuts it down: operators only | `BoltStore` |
| `BoltStore` | the datastore over a file: its buckets, transactions and migration, and the calls of the servers | `StoreClients` |
| `StoreClients` | `BoltStore` with the command line that exports and imports trials | `MCStore`, `BoltStoreProofs` |
| `Endpoint` | endpoints: parsing, resolution, writing: operators only | `DirectoryClients` |
| `Directory` | the directory: database, persistence file, handlers, health checks, restarts | `DirectoryClients` |
| `DirectoryClients` | `Directory` with the services that register themselves, the command line, and who resolves endpoints | `MCDirectory`, `DirectoryProofs` |
| `ModelRegistry` | the model registry: archive of files, memory cache, handlers, restarts | `MCModelRegistry`, `MCRegistryModes`, `ModelRegistryProofs` |
| `WebProxy` | the web proxy: HTTP clients that play an actor of a trial, and the orchestrator's stream | `WebProxyProofs` |

The modules `MC...` only give the constants and bounds of the runs, and those named
`...Proofs` only theorems (section 5).

The services run in processes of their own and share only remote calls. They are
therefore modelled apart: what one needs of another is in its module (the
orchestrator's registry sees of a trial its life steps, the datastores of a trial
its numbered samples, the proxy of the orchestrator one stream, the directory of a
service whether it answers). Where two parts of the code meet in a protocol of
several calls, they are composed: the timer with the trial, the datastore with the
export and import of its command line, the directory with the processes that
register and with those who resolve endpoints.

### TimeoutRunner

The sorted vector `m_timeouts` is the set `timed` with the constant order `Rank`;
its running prefix, `m_running_size`, is the set `running`, closed downwards in
that order. `signaled` holds the entries' flags, `condSig` is `m_cond_sig`,
`condLock` the holder of `m_cond_lock`: `start` holds it from `StartBegin` to
`StartEnd`, while `prep_func` (the dispatch of observations) runs; all the others
take and release it in one action. `Wake` is a return of the condition variable's
wait by notification, `Expire` by timeout: the clock may always have reached the
longest timeout, which leaves out how long a timeout is but none of the orders in
which it may elapse. `sigs` and `term` are the targets of the two callbacks.

### TrialTick

An action is what a thread does between two accesses to shared state that another
thread can come in between; `pc[t]` tells where thread `t` stands. The threads are
each actor's reader, and "env", "act" (the action thread), "start" (start(), then
the "Trial starting" thread), "fin" ("Trial finishing") and "rpc" (a hard
termination). `shared` and `excl` are the holders of `m_terminating_lock`.

| code | actions |
|---|---|
| `start` | `StartCheck`, `StartPrepare`, `StartPend` |
| "Trial starting", `wait_for_actors` | `Join`, `InitFails`, `JoinTimeout`, `StartEnv`, `StartEnvFails` |
| `env_observed` | `EnvObserved`, `EnvSample`, `EnvRespond`, `EnvDispatch`, `EnvWriteFails`, `EnvStarted`, `EnvBalance`, `EnvFinish` |
| `actor_acted` | `ReadAction`, `RecordAction`, `IgnoreAction`, `SignalAction` |
| end of an actor's stream, `disengage`, `actor_disengaging` | `StreamEnds`, `Disengage`, `RemoveActor` |
| action thread, `process_actions` | `ActWait`, `ActCount`, `ActClaim`, `ActLock`, `ActSend`, `ActWriteFails`, `ActFails` |
| `request_end`, `terminate` | `RequestEnd`, `Kill`, `Terminate`, `TerminateStreams`, `TerminateEnd` |
| `finish` | `EnvFinish`, `Finalize`, `FinishEnd` |

The variables carry the names of the members they stand for in their comments. A
sample is its tick and, per actor, the tick id of its action: `NoData` (no action),
`AUTO` or a number; the contents of observations, actions, rewards and messages
are not represented. `sets` records what the environment was sent, `log` the ticks
of the samples given to the datalog: nothing in the model reads `log`, and `sets`
only through its length (the environment answers each set once).

The environment and the service actors are those of the SDKs, modelled from the
side of the orchestrator: the environment sends one set of observations at the
start and one for each set of actions; an actor answers each observation once,
perhaps late or never when it has a timeout.

Where a stream fails the code goes different ways. A write of a set to the environment that
fails throws nothing: the stream is marked, and the thread goes on (`ActWriteFails`) unless it
writes again. An actor whose initialization fails is disengaged by its own thread, while
`wait_for_actors`, which it told, does it as well (`InitFails`, `JoinTimeout`). An
environment that cannot be started terminates the trial; one whose stream ends before its
init data came leaves the starting thread waiting (`StartEnvFails`, finding 8).

Undefined behaviour is a choice: `actor_acted` keeps a pointer to a sample that
another thread may free; `IgnoreAction` and `RecordAction` are then both possible.

### TrialProtocol

Three variables: the state, how many sets of observations were accepted and how
many were answered. No observations are accepted before the previous ones were
answered nor after the end, no set answers observations twice, and the state only
goes forward. `TrialTick` implements it with `answered <- Len(sets)`.

### OrchestratorRegistry

A trial is named by the StartTrial call that makes it, because two calls may
ask for the same id; `Id` gives the id. `registered` is `m_trials`, `tstate` each
trial's `m_state`. The mutexes are variables where they are held across steps:
`trialsLock` (`m_trials_mutex`), `notifyLock` (`m_notification_lock`), `stateLock`
(each trial's `m_state_lock`) and `termLock` (its `m_terminating_lock`); an action is
what a call does between two of them. `set_state` is two steps (`Assign`, `Notify`):
the state is assigned, then the watchers are told, with the state's lock held. The
threads that carry a trial through its life are seen through `LifeStep` and
`LifeTells` only.

| code | actions |
|---|---|
| `start_trial` | `StartCheck`, then the collection, `Make`, `TellMade`, `Insert`, `Hooks`, `Start` or `StartFails`, `Started` |
| `m_perform_trial_gc` | `GcTick`, `GcDue`, `GcReset`, `Collect`, `NextStale` |
| `get_trial`, `Trial::terminate` | `Find`, `Terminate`, `Terminating`, `TellTerminating`, `End`, `TellEnded` |
| `watch_trials` | `Watch`, `WatchList`, `WatchReport`, `WatchReady`; `Disconnect` is the client's |

### MemoryDatastore

A sample is its number in its trial and has size 1; the number `Last[x]` is the
sample with the state ENDED. The thread of RunTrialDatalog and the batcher's timer
both flush: `flusher` holds the batcher's mutex across the steps of AddSamples,
which go sample by sample and, as in the code, without the backend's lock:
`AddSize`, `AddStored`, `AppendItem`, then `Trigger`. `AppendItem` merges
`ObservableList.Append` with its emission: who subscribes in between is only woken
once more than needed. Each pending emission is a goroutine in the code and a flag
`woken` here: a second one to the same observer makes it read the list again.
An eviction replaces a trial's list by an empty one: `gen` tells which list is
current, and readers keep the one they observe in `seen`.

| code | actions |
|---|---|
| `RunTrialDatalog`, `sampleBatcher` | `Create`, `AddSample`, `FlushFull`, `FlushTimer` |
| `memoryBackend.AddSamples`, `ObservableList.Append` | `AddSize`, `AddStored`, `AppendItem`, `Trigger` |
| `evictLruTrials` and its worker | `EvictCheck`, `Evict` |
| `DeleteTrials` | `Delete` |
| `ObserveSamples` | `Find`, then `Attach`, `Subscribe`, `Read`, `Give`, `Wake`, `Observed` of `ObservableList.Observe`, and `Pass` |
| `RetrieveSamples` | `Send`, `Return` |

The three goroutines of a retrieval hand samples on over unbuffered channels: of
each sample it matters only whether it was `given`, `passed` or `received`. `down`
records that the process died: a deleted trial keeps an entry without a list, and
using it is a nil dereference. A stream that ends or breaks just brings no more
samples, and its batch is left to the timer. The counts and states that
RetrieveTrials reports are not represented here; those of the file are, in `BoltStore`.

### SampleLog

Per trial a number of samples, per reader the sequence it received: always the
next sample that was logged, of one trial, and the retrieval is over only after
the last one. `MemoryDatastore` implements it with `over` as the calls that
returned without an error.

### StoredSamples

`StoredSample(x, log, order)` is what `trialSampleFromDatalogSample` of
datalogServer.go builds of a tick: one table of payloads, first the observations,
then the actions, the rewards' and the messages' data, and per actor the positions
in it. `order` is the order in which the code's map of actors is iterated.
`Filtered` is `TrialSampleFilter`: a selection of actors (by name, class and
implementation) and of fields, with a table in which only the payloads that are still
pointed at are kept, in their places. Positions start at 1, 0 is none, and the actor 0
is the environment. `AsLogged` is the reference definition it is compared with: it
speaks of what was logged and of what the filter selects, and never of positions.

### BoltStore

The variables `trials`, `index`, `sequence` and `history` are the buckets of the file
(bolt.go:52-90); each transaction is one step, because bolt has one writer at a time
and readers see a snapshot. What a call keeps between two transactions is in
`streams` (per trial the batch of its datalog stream, or of its AddSample stream),
`request` (per RetrieveSamples the last tick it read of each trial, the samples on
their way to the client and whether the last one ended it) and `lister` (pages of
RetrieveTrials). The filter of properties is a set of kinds.

| code | actions |
|---|---|
| opening the file, `computeStoredSampleCount`, migrations | `Open`, `MigrateTrial`, `Migrated`, `Crash` |
| `RunTrialDatalog`, the batcher, `AddSamples` | `StartLog`, `Log`, `Flush`, `EndLog` |
| `AddTrial`, `AddSample` of the datastore's server | `AddTrial`, `StartUpload`, `Upload`, `EndUpload` |
| `DeleteTrials` | `Delete` |
| `RetrieveSamples`, `ObserveSamples` | `Retrieve`, `ReadRound`, `Give`, `Finish`, `Leave` |
| `RetrieveTrials`, `ObserveTrials`, `GetTrialParams` | `StartList`, `List`, `Poll`, `Timeout`, `Reply` |

`RetrievalEnds` says of each retrieval that it does not stay behind a trial that is over, or gone and
made again (`Behind`).

`panics` records why the process panicked (a nil bucket that is used, a closed channel); it is then
down, and `Open` starts it again. The fields `at`, `got` and `stay` of the calls are histories for
the properties; `Recount` keeps `stay`, the trials that a client which lists them may count on.

### StoreClients

`ExportTrials` asks for the trials' counts (`CountSamples`), then for their samples
(`AskSamples`, `RefuseExport`), writes each as it comes (`Receive`) until it has as many
as were counted (`EndExport`); `ImportTrials` reads the header and looks whether the
trials exist (`CheckTrials`), adds them one by one (`ImportTrial`) with their samples
(`ImportSample`, `EndImport`). `disk` is the file, a message in each cell: it is opened
without truncation, so that what an earlier export wrote further on stays.

### Directory and DirectoryClients

`db` has pointers into `heap`, as the code's map has: a check or an inquiry keeps a
pointer while the entry it was read from is replaced, so that it may hold a record that
is no longer in the database. Each change of the database writes the whole file in place
(`Save`), and an error of the write, or a process that dies while it writes, leaves the file
as it was or cut short; a file that cannot be parsed is loaded as an empty one (`Unreadable`).
A check goes from `StartCheck` (or `SkipCheck`) to its answer (`CogmentAnswers`, `TcpAnswers`,
`NoAnswer`), and only then, in a step of its own, to `RemoveUnhealthy`. There is no clock: records
have the age of their last check, in scans, up to `Oldest`.

| code | actions |
|---|---|
| `Register` | `Register`, `SelectForUpdate`, `UpdateNext`, `WriteUpdate`, `UpdateDone`, `Insert` |
| `Deregister` | `Deregister`, `Erase` |
| `Inquire` | `Inquire`, `Search`, `Collect` (one id at a time), `CheckFound`, `AllChecked`, `SearchAgain`, `Answer` |
| `healthCheck.go` | `Scan`, `Check`, `RemoveUnhealthy` (as the end of a check), `Tick` |
| the process | `DirectoryCrash`, `DirectoryStart` |
| `ManageRegistration` | `Launch`, `RegisterSelf`, `Registered`, `Leave`, `DeregisterSelf`, `Left`, `Crash` |
| command line | `CliRegister`, `CliDeregister`, `CliPrints` |
| `InquireEndpoint` | `InquireEndpoint`, `EndpointResolved`, with the operators of `Endpoint` |

`unsaved` (the last write has failed) and the ages of dead records are histories: nothing the
code does reads them. The secret of a service is drawn together with its id and stands for it.

### ModelRegistry

Files, cache and latest numbers are accessed without a common lock, so that a call is a
chain of steps with one access in each; `call[c].pc` tells where it stands. `infoFile`
and `dataFile` are the archive, `lru` the cache of versions, `latest` the number that
the cache keeps per model. A version is its number and the hash of its data. A file is
opened, and emptied, before it is written: until then, or for good when the write fails or the
process dies, it is `Torn`. Information that is torn has no number in it (`NumberIn`), and the
code takes it at its word. Readers of the information take its lock; the data is read without
one, so that a reader may be given a torn file.

| code | actions |
|---|---|
| gRPC methods | `CreateVersion`, `BadVersion`, `RetrieveVersion`, `RetrieveVersionInfos`, `OtherCall`, `DropCall`, `Receive`, `GiveUp` |
| `BackendPromise` | `Await`, `AwaitStuck`, `SetBackend` |
| looking a version up, in the cache and in the archive | `Resolve`, `ResolveArchive`, `ResolveCached`, `NextListed`, `Lookup`, `ReadArchive`, `ReadInfo`, `NotFound` |
| latest number | `Bump`, `SetLatest` |
| creation | `FindInfo`, `OpenInfo`, `WriteInfo`, `InfoFails`, `OpenData`, `WriteData`, `DataFails`, `AddToCache`, `MakeDir`, `WriteModelInfo` |
| deletion | `RemoveAll`, `ForgetLatest`, `ForgetVersions`, `DropInfo`, `DropData`, `DropCached`, `DropLatest` |
| listing and watching | `ListModels`, `HasModel`, `Tell`, `Sleep`, `Awake` |
| the process | `Crash`, `Restart` |

Two histories serve the properties: `created`, what clients were told that they created,
and `spoilt`, the numbers of which nothing is promised. These are the numbers that a creation took
while they were in use (of a version that was created, is being created or dropped; for a
version that is not archived, also of a file that a failed creation left behind) and those
deleted while they were being created. The code lets this happen (findings 2 and 15), and the
properties are about all the other numbers, those of the same model included.

### WebProxy

The manager of actor.go keeps per actor of a trial a status, the last event received
from the orchestrator and the last one sent to it; what it does for one actor does not
touch the others, so the model has one. `trials` has all the entries ever made and
`listed` the one in the list: a caller keeps a pointer to an entry that may have been
removed. A wait of `waitForTrial` looks again after each change, so it is a guard; the context
of the HTTP handlers never ends it (finding 17).

| code | actions |
|---|---|
| `JoinTrial` | `JoinTrial`, `Join`, `Joining`, `Joined` |
| `Act` | `Act`, `ActChecked`, `SendEvent`, `Acting`, `RemoveTrial` (with the end) |
| `LeaveTrial`, `LeaveAllTrials` | `LeaveTrial`, `LeaveAllTrials` |
| `RunTrial` and `RequestAct` | `StartTrial`, `Starting`, `Observation`, `ActRequested`, `Reward`, `EndTrial`, `Disconnect` |

## 3. The runs

| run | instance | shows |
|---|---|---|
| `response_rounds` | two timed actors, one without timeout, 3 rounds | each entry counts once (unless it answers after it was given up on), who left is not timed in a later round, each round ends |
| `turns` | an optional actor with a timeout beside a required one, 2 ticks, end by the limit, by request or by the environment | types; a late action never reaches another tick's sample; the trial ends, whichever way the three ends meet and although an actor may never answer |
| `faulty` | both actors may fail to join or to initialize, one may disconnect, the environment may fail to start and its stream may break, an end by request, a hard termination at any moment | no lost wake-up, exact count of available actors, all samples logged once and in order, the refinement of `TrialProtocol` |
| `registry` | two StartTrial calls with the same id, two watchers that may go away, a client that terminates, a collection at every second start that may find any trial stale | ids unique in the list, a trial whose start succeeded is found until it ended, a watcher is told the states of a trial in order and is up to date |
| `datastore` | trials of 2 and of 1 samples, batches of 2, a limit of 1 so that every ended trial is to be evicted, one trial that may be deleted, one reader | refinement of `SampleLog`, the size never wraps, batches are flushed, observers of an ended list finish, space is reclaimed |
| `store` | two trials that are logged or uploaded and one that is imported, a file of an older version or none, a request, an exporter and a lister, one death of the process | the file stays consistent, retrievals are in order, whole and end with their trial, pages miss nothing, filtered samples say what was logged, exports and imports are whole |
| `directory` | a process that registers, stops and crashes, one registered by hand as permanent, one client that inquires, 2 records, one failed write, one crash of the directory | the file is up to date unless its last write failed, inquiries give what was asked, absent services are forgotten, present ones are listed |
| `model_registry` | two trainers with a model each, a shared cache of one version, 2 crashes, a failed write | what was archived survives, what is read is what was created, calls end |
| `proxy` | two HTTP clients, 2 ticks, 2 rewards, the trial added to the list twice | one action for each observation, each reward once, news is new, the end reaches who acts |
| `permanent_removed` | as `directory`, without crashes and failed writes | finding 3 |
| `list_locked` | two StartTrial calls with their own ids, one trial that may be stale, a collection at every start, one watcher | finding 1 |
| `version_overwritten` | one client and a restart | finding 2 |

**Bounds.** Two actors are enough to have one that answers and one that does not,
in both orders of their timeouts and of their departure; the timer alone is
checked with three, so that an entry in the middle of the running prefix answers
first. Two decisions (`MaxSteps` = 1) let a late action or a late wake-up meet the
next tick, and with `NbBuffered` = 2, the smallest value the code admits, the second tick's sample fills the
buffer, from which the first is then balanced. No other counter is
bounded: `tick` stops at `MaxSteps`, and the environment answers each set once. In
`turns` the end is requested, if it is, in time for the set before the last one (`InTime`);
a later request changes nothing, and comes in `faulty`.

In `registry`, two calls with one id meet at both checks of the id, the second start
makes the collection run, and two watchers tell one that sees the list before a start
from one that sees it after. In `datastore`, a trial of two samples is batched full
(by the stream) or in parts (by the timer), a trial of one sample only by the timer;
with a limit of 1, one stored sample is right and two are too many, so that each
trial is evicted in some behaviour and kept in another while it is read, and the
reader attaches before, between and after all of that. Nothing else is bounded:
`triggers` stops with the flushes.

`store`, `model_registry` and `directory` choose at the start how their component is
used (`mode`, `user` in the MC modules), because everything at once is too large:
each choice keeps the calls that act on the same data together. In `store` these are:
a file of an older version that is migrated, with deaths of the process, uploads and
deletions; retrievals of two trials that are logged and deleted and made again
(`MaxIdx` = 3 positions in all); pages of one trial each; an export and an import
with a trial that goes on meanwhile; one full tick (shared observations, rewards to one, to a
class and to all, messages to an actor and to the environment) under sixteen filters. A
chunk of an upload (`ChunkSize` = 2) is full after two of the three ticks, and the third is left for
the end of the call. Logged ticks come in
the order of the orchestrator. In `directory`, two records tell a service that registers
again from its old self, a check overlaps everything but the next scan
(`CheckTime` = 0), and a second failure in a row removes (`MaxFailed` = 2); a behaviour has
a user of the command line and a crash of the directory; or a write of the file that fails, and
a crash, as services come up; or a client that resolves by id; or both users, one of whom resolves
by properties while no time passes (`user`). In `model_registry` (`mode`) a cache of one version
is filled by either trainer, so that what is not in the archive is soon evicted, also what has the
number of a creation that failed; two versions of a model tell an old latest number from the
right one; and two crashes and a failed write may meet at any step of a creation. Each model has
one client: with two, the run would say what `version_overwritten` says. In `proxy` one
client's calls race with the other's over each of two ticks, for any tick, and the list gets a
second entry once the first was removed.

**Fairness** (`FairSpec`, `MCSpec`). In `TrialTick` each thread of the process is weakly
fair: the operating system schedules it, and the thread pool has a thread for every task.
The runner's expiry is weakly fair: time passes. An actor without response timeout
is fair in answering, and an actor that is not `Absent` in joining: without that
the trial waits for ever, by design. Nothing is assumed of an actor with a timeout,
nor of breaking streams, `request_end`, the environment's decision to end, or a
termination. `TrialEnds` is checked where the environment's stream does not break:
the code has no step for a stream that breaks while nobody writes to it (the
trial stays running until its `max_inactivity`, infinite by default), and one that breaks
before its init data came is waited for without end (finding 8).

In `OrchestratorRegistry` the steps of calls and the notifications of a trial's own
threads are weakly fair; nothing is assumed of when a trial goes on, is terminated or
stale. In `MemoryDatastore` the goroutines are weakly fair, the batcher's timer fires,
and a client reads what it is sent; nothing is assumed of what is logged, so that a
trial may stay unfinished. In `BoltStore` and `StoreClients` only the goroutines of a retrieval
and its client's reading are weakly fair, for each trial of each request (`CFairness`): what goes on
with one does not stand for another, and an export that has all it counted ends. In `Directory` the handlers, the
checks (they have timeouts) and what waits for a reply are weakly fair, and the process that
supervises the directory starts it again; `Tick` is strongly fair, because a check that
lasts holds it up but ends. Nothing is assumed of services: they may
come, crash and never come back. In `ModelRegistry` handlers and receivers are weakly fair and
the backend is set in the end. In `WebProxy` the handlers are weakly fair; clients and the
orchestrator may stop calling at any time.

**Deadlock** is checked in `turns` and `response_rounds`; the action
`Finished` lets a trial that has ended, with no lock held, stand still. It is not
checked where the system may really stop: in `faulty`, with the environment lost
(above), or when a failed write holds the timer's lock (finding 6); in `registry` and
`list_locked`, where calls wait for each other (finding 1); in `datastore`, where the
reader of a trial that is never finished waits; in `directory`, `permanent_removed`, `model_registry`, `version_overwritten`, `store` and `proxy`
when all the records, versions, trials or ticks that the bounds allow were used and nobody has
anything left to ask.

**Sizes.** `faulty` has 3.2 million states, `registry` 1.1 million, `model_registry` 895 thousand,
`turns` 816 thousand, `directory` 664 thousand, `datastore` 191 thousand, `proxy` 157 thousand, `store` 148
thousand; the temporal properties take most of the time. `model_registry` takes less than four
minutes on two processors, every other run less than three.

**Mutants.** Each property of each run has one: a definition of the code changed as a plausible bug
would change it (`SetEndedUnflushed`, `WatchUnlocked`, `UnreadAgain`), beside the
definition it changes. The run then finds the property violated.

## 4. Findings

Each with a run that exhibits it:

1. *A collection and a new watcher wait for each other* (`list_locked`, `ListUsable`).
   `m_perform_trial_gc` terminates stale trials with `m_trials_mutex` held, and each
   termination waits for `m_notification_lock`, which `watch_trials` holds while it
   asks for the list. The comment at orchestrator.cpp:304 says that the list is not
   to be locked during the terminations.
2. *A creation overwrites an archived version* (`version_overwritten`, `CreatesNew`). After a
   restart or a deletion the latest number of a model is unknown, and
   `doRetrieveModelVersionInfo` (memoryCacheBackend.go:352) takes the number of whatever
   version is read first for it. When that is an old one, the next creation takes a number
   that is in use, where types.go:41 says that it creates a new version.

3. *A permanent service is removed by the check of the service it replaced* (`permanent_removed`,
   `PermanentStays`). A scan checks a record for up to 35 s and then removes the entry by its id
   (healthCheck.go:100). A registration as permanent that updates this entry meanwhile
   (directoryServer.go:137-150) is confirmed, and its service removed although it may answer.
   directory.proto:56 says that such a service "will stay in the directory until explicitly
   deregistered" and that no health checks are performed.

### Findings without a run

Behaviours of the models, or of the code read for them, that differ from a document or that
its authors may want to know. The models have these behaviours. The properties of section 3
that they concern say which case they leave out: `SettlementsCounted` a late answer,
`FileIsCurrent` a write that failed, the two of the model registry the numbers in `spoilt`,
`ResolvedAsAsked` the properties of a record that was put in another's place. Where a run's
bounds keep a case out, that is said here.

*Orchestrator*

4. A late response is counted twice: `TimeoutRunner::signal` (utils.cpp:665) calls `sig_func`
   for any id outside the running prefix, also for one whose timeout was counted;
   point 4 of the comment above it (utils.cpp:648) says that it protects from that.
5. A set of actions may lack its entries: `process_actions` reads the count of a tick,
   then the tick (trial.cpp:1199), with a wake-up left from before; the environment's thread may have
   advanced `m_tick_id` in between and not yet appended the new sample (trial.cpp:893), where
   environment.proto:57-58 promises one entry per actor, in order.
6. A failed write hangs the trial: observations are dispatched with the timer's lock held
   (utils.cpp:608); when the write to an actor fails the actor is disengaged, which takes
   the same lock in the same thread.
7. A trial that is terminated while pending opens its environment's session: the starting
   thread does not look at the state after it waited for the actors (trial.cpp:631), and
   nothing closes that session.
8. An actor that acted and then left the same tick stays in the count of those that acted
   (trial.cpp:1281), so that the tick may be decided without an engaged actor. If every actor is
   optional and none joins, a set is sent before any observation (trial.cpp:531). The finishing
   thread flushes the samples without `m_terminating_lock` (trial.cpp:893). An environment
   whose stream breaks leaves the trial running (environment.cpp:278); when it breaks before its
   init data came, nobody completes what the starting thread waits for (environment.cpp:84-137 and
   309-317, trial.cpp:631), and the trial is never freed, even after a termination. A hook that fails leaves
   a trial in the list that never starts, with its id taken (orchestrator.cpp:149), and a
   StartTrial that will be refused announces its trial under the id that is taken.

*Datastore in memory*

9. A cancelled observation does not return: the goroutine that passes samples on waits for its
   consumer and not for the context (memory.go:413), where backendTestSuite.go:774 expects the
   error of a cancelled context.
10. A reader that comes after the eviction of a trial, or retrieved it just before, waits on
   a new and empty list. A deletion of an ongoing trial ends the process at its next batch and
   requests no eviction. `ObservableList.Item` takes its read lock twice, which deadlocks with an
   `Append` in between. A page without a trial returns 0 as the next handle.

*Datastore over a file*

11. A trial deleted between two reads of a retrieval is a nil bucket, and the process panics
    (bolt.go:790), where the comment at bolt.go:789 says that it ends the observation.
    Deleted and made again, the trial is read on from the old tick.
12. A flush that fails (its trial was deleted) waits for its error to be read with the batcher
    locked; when the batch was full it is the stream's own goroutine that would read it.
13. A tick that is logged again overwrites its sample, and a tick lower than the last one given is never
    given. Import of a file that was cut reports success; a failed import leaves trials that
    keep it from being tried again; two imports at once may both pass the check. An export into an
    existing longer file leaves the rest of that file behind it. A retrieval of trials that times out
    replies the handle 0. A message to all the actors of a class is stored as one to the environment.

*Directory*

14. An inquiry selects ids by the properties asked for and collects their records later
    (directoryServer.go:229-275); a registration that updates an entry in between
    (directoryServer.go:137-150, db.go:123) may give the id to a service without them, which the
    inquiry then answers with. `ResolvedAsAsked` asks of an address that its entry had the
    properties, not that it has them. An update of a registration by hand keeps the old record's `permanent`
    (directoryServer.go:122 and 139), where directory.proto:56 says what was asked for is
    granted. A write of the file that fails is only logged (db.go:155-158, 176-179, 191-193):
    registrations are confirmed, and removals made, that a restart does not find.

*Model registry*

15. Failures of the archive. A write of a version's information that fails, or a process that dies in
    it, leaves an empty file (fileSystemBackend.go:130, 441-444), which counts as a version with
    the number 0: after a restart the next creation takes number 1 again and overwrites version 1
    (TLC finds it with `FairSpec` in the place of `OrderlySpec` in VersionOverwritten.cfg). A creation over such a file
    takes its number from it, writes the version's files elsewhere and reports version 0. When it is the
    data that fails, the information is removed and the data stays as far as it was written
    (fileSystemBackend.go:448-452); a version that is not archived and later has this number is,
    once it was evicted, answered with these leftovers (memoryCacheBackend.go:298-316). The data is
    read without a lock (fileSystemBackend.go:521): one that is read while it is written may
    be cached, cut short, over the good version. A version that is not archived hides an archived one
    whose number it took until it is evicted. After a restart, a read of an
    old version sets the latest number back also for readers: with versions 1 and 2 in the archive,
    a read of version 1 makes 1 the answer to a request for the latest. (The run has
    this; a property that excluded it would fail.) Two clients that create versions of one
    model may take the same number. No run has two clients of a model, whose files theorem
    `ArchivedStays` is about all the same.
16. A watcher may sleep through a creation: nothing holds the condition's lock between its look
    at the latest version and its wait (modelRegistryServer.go:527), where model_registry.proto:37
    promises every update. Calls that come before the backend is set wait for their own context to
    end (`BackendPromise`). The number of a version asked for from the end wraps below
    zero when it is one more than there are, and a deletion by this number deletes the last
    version's files. A crash between the directory and the information of a model makes
    `ListModels` fail; one in `DeleteModelVersion` leaves the data behind.

*Web proxy*

17. A client that joins when another one's `Act` removes the ended trial waits for good
    (actor.go:191-214, 342-347). The comment at actor.go:109 says that the given context can be used to
    cancel the waiting, but the HTTP handlers pass gin's context (httpServer.go:290, 405),
    whose `Done()` is nil in gin 1.8.1 unless `ContextWithFallback` is set: a client that goes away leaves its handler
    waiting. When the orchestrator's stream breaks the entry
    stays, and who acts or joins waits. A client that joins late may be given the final event as its
    initial observation. `GetActiveTrials` may use a closed observer
    (controller.go:146-165).

## 5. What is proved

**`TrialProofs`**, for every set of actors, every assignment of requirements,
timeouts and faults, every limit (assumptions `ActorsAssumption` and
`BoundsAssumption`: finitely many actors, at least one, with distinct ranks of their timeouts,
and names that differ from those of the service threads):

- `TypeInvariant`: `Spec => []TypeOK`. The inductive invariant is
  `TypeOK /\ VictimNamed`: a thread of the trial that is disengaging an actor has
  it in its local, else `Disengage` would put a non-actor in `disengaged`.
  `TypeStep` has one step per action, and under it one per part of `TypeOK` the
  action disturbs; `Frames` takes care of the parts it does not.
- `WakeupNotLost`: `Spec => []NoLostWakeup`. `NoLostWakeup` is inductive relative
  to the types and to `Begun`, which says that nothing but `start()` moves before
  the trial is pending (so that the counts of a trial under construction, 0 of 0,
  do not look complete) and that the environment's thread begins only when the
  starting thread is done. The argument, action by action: a step that may complete
  the count (`SignalAction`, `RemoveActor`, `RunnerExpires`) raises the signal, or
  leaves `condSig` set or entries in `running`, for which the runner will raise it;
  `EnvStarted` always sets `condSig`; only `ActWait` clears the signal, and then the
  action thread counts; `ActCount` goes back to wait only below the count, and
  `ActClaim` only for a tick that was claimed.
- `SamplesReachTheLog`: `Spec => []AllSamplesLogged`. `Locks` says who is at work when:
  the environment's thread holds the lock shared from its first look at the state to its last
  write, whoever terminates the trial holds it alone, and the finishing thread comes when the
  environment's reader is back at its stream. `Flow` says that the ticks of `log` followed by
  those of `samples` are 0, 1, ...; that their number is `tick + 1`, except between the
  advance of the tick and the new sample and while `start()` makes the first one (`Totals`);
  and that an ended trial has flushed its samples (`Flushed`). Each is needed by the other: a
  termination flushes all the samples only because it cannot come between the advance of
  the tick and the new sample.
- `ActionsInOwnSample`: `Spec => []ActionInOwnSample`. `Answers` says that an action is not
  newer than the sample that was looked up for it, and the sample not newer than the tick
  (with `LastTick`, from `Flow`). `RecordAction` finds the action's tick equal to the present
  one, so that all three are the same, although the tick may have advanced in between.
- `TrialFollowsProtocol`: `Required # {}` implies `Spec => ImplementsProtocol`, the
  refinement of `TrialProtocol`; each action is one of its steps or changes none of its
  variables (`FollowsStep`). `Turns` ties the tick to the number of observations and
  `m_last_action_tick` to that of the sets: the action thread claims a tick before each set, so
  that a set more than there are observations would be of a tick claimed twice. That none is
  sent after the end comes from `Flushed`, as the finishing thread ends the trial without
  the lock. The hypothesis is needed: if all the actors are optional and none joins, the last
  one's departure signals the action thread before the first observations (section 1). With a
  required one such a set is refused, as nobody was asked yet (`Unasked`).
- `AvailableStaysExact`: `Spec => []AvailableIsExact`. `Removals` says that who takes an actor
  off the count set its `m_disengaged` before, and that two threads never do it for the same
  actor; `Sampled`, that a trial that is not over has a sample, so that `Disengage` does not give up
  between the flag and the count. `EngagedStep` shows that all the actions but four concern none of
  this (`Kept`).

**`ResponseRoundsProofs`**, for every finite set of entries with distinct ranks (`RankAssumption`),
every set of timed ones and any number of rounds (`RoundsAssumption`):

- `CountedAlways`: `Spec => []SettlementsCounted`, with `OneExpiry` (the timer elapses
  at most once a round) and `Counted`: whoever both expired and answered is counted once more,
  so that the count is that of the entries settled when nobody did, which is all the property claims
  (finding 4).
- `GoneNeverTimed`: `Spec => GoneAreNotTimed`, with `GoneMarked`: an entry that left is
  out of the list or marked, with the list to be sorted again before its next use.

**`OrchestratorRegistryProofs`**, for every set of calls, ids, watchers and every GC
frequency (`RegistryAssumption`):

- `TypeInvariant`: `Spec => []TypeOK`, which bounds the countdown: however many calls
  count down and reset it together, it never passes the frequency.
- `IdsUnique`: `UniqueIds` is inductive relative to the types, because `Insert` checks
  the id again under the lock it inserts with; the first check, before the collection
  and the making of the trial, plays no part.
- `StartedFound`, with the invariant `InList`: from its insertion on, a trial is in the
  list or has ended, also while its own call is still at the hooks or in `start`.
- `ToldInOrderAlways`, with `Made` (only trials that were made are in the list or being
  terminated) and `ToldReached`: no watcher was told of a state that the trial has not
  reached. Each report reads the state of the moment and states only go forward, so the
  reports do.
- `WatcherCurrent`, with `Watched`: who reports the current states to a new watcher holds
  the watchers' lock, so that a notification comes before all of them or after the
  watcher is registered, and never in between.

**`MemoryDatastoreProofs`**, for every set of trials and readers, every length of the
trials, batch size and limit (`DatastoreAssumption`):

- `SamplesImplementLog`: `Spec => SamplesAsLogged`, the refinement of `SampleLog`.
  The inductive invariant says, of each trial, that its first list followed by what
  is left of the batch is 1, 2, ... up to what was logged (`Batched`, with `Follows`
  for the part of the batch), that a list has ended exactly when it is complete, that
  only a complete list was ever replaced, and that the list that replaced it stays
  empty (`Listed`): so an eviction never makes a gap, since nothing is appended after
  it. Of each reader it says that what it received is a prefix of what it passed on,
  was given and read from its list (`Piped`), and that it completes only with a list
  that had ended (`Called`). Each action has a lemma; `StepLogged` maps `AddSample` to
  `Log`, `Find` to `Open`, `Send` to `Receive`, a `Return` without error to `End`, and
  all others to no step. The eviction list, the sizes and the timers play no part.
- `SizeAlwaysCovers`: `Spec => []SizeCoversStored`, with `Sized`: the size is at least the sum, over
  the trials, of what is stored and of the sample that `AddSamples` has counted and not stored
  yet (`Weight`); the eviction list holds trials that are there, each once (`EvListOK`), so
  that an eviction or a deletion takes a trial off once and gives back the size of that trial only.
  What a sum over a set of trials is when one element changes is proved first (`SizeWithout` to
  `SizeChanges`), from the recursive function behind `MapThenSumSet`: the library's
  induction theorems take an operator, but the principle of the least number (`Least`, from
  well-foundedness as the library states it for sets) does not, and the sizes of finite sets
  are numbers.

**`BoltStoreProofs`**, for every set of trials, scripts of what is logged, files of an older
version, sizes of chunks and pages (`StoreAssumption`, `ClientsAssumption`):

- `StoreIsConsistent`: `CSpec => []StoreConsistent`, of the store with its clients. The
  invariant of the file (`FileInv`) has the shape of the buckets, the agreement of the trials
  with their positions, that every count that is there is right, and where the migration
  stands: trials without a count are among those it has still to count, and none
  is left once the schema's history says that it was done. A death of the process keeps the file,
  so that the migration that starts again finds the invariant as it was. `Streams` and `Transfers` are
  what the steps need of the batches and of the exporter's file: they bring samples and ids of
  trials. One hypothesis, `NoneIsNoBucket`, says that `None`, what the
  model has in the place of a missing bucket, is not itself a record with a bucket's fields. It is a
  hypothesis of the theorem and not an ASSUME of the module because TLC has no fields of a
  model value to compare; the model value of the run has none.
- `PagesCompleteAlways`: `CSpec => []PagesComplete`. `Paged` says that positions rise in what a
  client has and in the page that is made for it, which lies between the handle it goes on from
  and the next one; `Skipless`, that every trial it may count on has been given once
  its position is not after the handle. A trial that is created later has a later position, since
  `sequence` never goes back, not even in a crash; a deleted trial is not counted on any more.
- `RetrievedInOrderAlways`: `CSpec /\ [][InOrder]_trials => []RetrievedInOrder`. `Coming` says of
  each trial of a retrieval, as long as it is the trial that the retrieval began with, that the client has
  exactly its samples up to the last tick and that those read and not handed over are the ones
  that come next (`InTurn`). `Sampled` says that a sample lies where its tick says, in the batches, the
  buckets and the exporter's file; `Grows`, that a step keeps the samples of a trial or
  puts another trial with a new position in its place. `InOrder` is a hypothesis on what is
  logged: a tick that is new to a trial comes after those it has. Without it the property is false (a
  lower tick that is logged late is never given, finding 13); a tick that is logged again is
  allowed. The logs of the orchestrator, and those of the run, come in this order.
- `TransferWholeAlways`: `MaxExports = 1` and `CSpec /\ [][InOrder /\ Kept]_trials => []TransferWhole`.
  The invariant `TInv` follows a sample from the bucket to the file and back: `Named`, what a bucket
  has bears its trial's name; `Passed`, what the exporter was handed over is stored as it was given; `Begun`,
  a trial that is still the one that was counted has at least as many samples; `Copied`, the
  file has the first samples the exporter was given, as many as were counted less those still
  to come, and the retrieval has enough of them; `Arrived`, what the import has read is stored
  under the new name. Three hypotheses: `InOrder`, as above; `Kept`, that a sample is not written
  again with something else in it, for the file has the samples as they were when they were read;
  `MaxExports = 1`, that the file is new, since one that an earlier export left behind
  keeps the rest of it (finding 13). Deletions, trials created anew, deaths of the process and
  failures in between are all allowed.

**`DirectoryProofs`**, for every set of services, callers, and every choice of the
directory's settings (`DirectoryAssumption`, `ClientsAssumption`):

- `FileCurrent`: `Spec => []FileIsCurrent`, with writes that fail at any time. A pointer of the
  database leads to a record with the entry's id (`Pointers`), also through restarts, for which
  every record in the file, whichever write left it there, must have the id it is read back under (`OnFile`).
  `SaveFiles` says what a write leaves: the entries of the database, or, when it fails, what was there
  or nothing, and then `unsaved` is set. Each handler's write is of the database with the entry it changed, so
  that the first one that goes through makes up for those that failed. What a check writes in a
  record (its age, load and failures) is not kept in the file.
- `ResolvedAsAskedAlways`: `Spec => []ResolvedAsAsked`. `Inquiry` says of every id that an inquiry
  selected, and of every record that it collected, one by one, or put in its answer, that an entry of
  that id had the properties, and that its service has the token; `InquiryCheck` the same of the
  records its checks hold, which they hand back to it.

**`ModelRegistryProofs`**, for every set of models, clients and data, every cache size and whatever
crashes and fails; any number of clients may use a model:

- `ArchivedStays`: `Spec => []ArchivedSurvives`, with no hypothesis on the clients. No lock covers a
  creation, so the argument goes by the numbers. A creation has its number to itself (`Mine`) unless it is
  `spoilt`: when it takes it, no other creation, deletion or version has it (`Fresh`), and whoever
  takes it later finds it in use and spoils it (`Alone`). While it is its own, the files
  it has written stay as it wrote them, and in the end both hold what the client is told (`Filed`): a write that fails or a
  crash ends the creation before the client is told anything. From then on the version is in
  `created`, and only a creation of that number, which spoils it, or a deletion touches its files; a
  deletion under way is of a version that is promised no more (`Gone`). A creation that a torn file
  gave the number 0 never becomes a version (`Numbered`). `Placed` says where each method can stand.

**`WebProxyProofs`**, for every set of clients and any number of ticks, rewards and
trials:

- `ActionsAnswerAlways`: `Spec => []ActionsAnswer`. `Paired` says that only one entry ever plays
  (has a status that a stream gave it), however often a client adds
  another; that there are as many actions as events, or one less while the stream
  asks for an action; and that what a client can then send is of the tick that was asked for
  (`AskedAll`).
- `RewardsOnceAlways`: `Spec => []RewardsOnce`, with `Held`: there is a number of rewards that
  the events told have given, in their order and without a gap, and the rest of what
  was sent is what the stream holds back for its next event; none is held while it waits for an action.
- `NewsIsNewAlways`: `Spec => []NewsIsNew`. What a client is told is the last event of a trial
  that has gone past the tick it knew (`Hears`, `GotNews`), although it reads it in a step after it
  stopped waiting: trials only go on to later ticks, and one that ended is not changed.

**Only model-checked.** Three kinds of property:

- *Liveness* under fairness, out of the provers' reach: `TrialEnds`, `RoundEnds`, `BatchFlushed`,
  `ObserversFinish`, `SpaceReclaimed`, `RetrievalEnds`, `AbsentForgotten`, `PresentListed`, `CallsEnd`
  and `EveryoneHears`.
- What is *computed by a recursion over the data*: `GivenAsLogged` compares the rewards and messages
  given, which a fold over what was logged has put in the payload table, with those logged, both
  cut by `SelectSeq`. The provers know nothing of the two but their definitions, the
  library states no fact about them, and one cannot be proved of an operator parameter. (The
  samples of one trial in an exported file, `Of`, are picked out by their sorted places
  instead, of which lemmas are proved.)
- What is *false of the specification without the bounds of its run*: `ReadsWhatWasCreated`. With
  two clients of one model, a reader may be given data that is torn while it is written, or cache it over the good one
  (finding 15). The run has one client for each model, and there the property
  holds through crashes, failures and evictions.

## 6. Not modelled

- Rewards, messages, properties and the content of observations and actions in the trial:
  data that passes through and changes no control. (In the datastore they are modelled,
  as its filter tells them apart.)
- LAST / LAST_ACK / END handshakes are inside `Finalize`, which waits for them or
  times out in the code; heartbeats.
- Destructors, `set_info` (a read), metrics and logging; `m_env_last_obs`, written by the
  environment's reader and read by itself.
- In the orchestrator: the wait for the actors (`MultiWait`) is `JoinTimeout` and `StartEnv`, the
  thread pool is fair scheduling, the datalog client is `log`; hooks' contents, the C++ twin of
  directory inquiries and endpoints (the Go one is modelled), stub pools, the merging of
  parameters.
- In the datastore in memory: filters, the list of trials and its pages (those of the file are
  modelled), `Destroy`. In the file's: Version, Status, the encoding of messages.
- In the directory: the commands `inquire` and `wait`; Version and Status.
- In the model registry: the pages of listings, of which only the start and the length are kept, and
  user data.
- In the web proxy: the controller and the conversion of a trial's specification, one remote call
  per request; the contents of tokens.
- The launcher, the orchestrator's wrapper and proxy, the command line (arguments, output and one
  remote call each), the deprecated generators and templates: process control, pass-through and
  printing, with no state of their own.
