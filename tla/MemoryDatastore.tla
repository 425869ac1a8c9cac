-------------------------- MODULE MemoryDatastore --------------------------
(***************************************************************************)
(* The samples of the trial datastore with its memory backend              *)
(* (cli/services/datastore): the streams of RunTrialDatalog with their     *)
(* batchers, AddSamples, RetrieveSamples with its observation of a list    *)
(* that grows, the eviction worker, and DeleteTrials.  A sample is its     *)
(* number in its trial and has size 1; number Last[x] is ENDED.            *)
(* Not represented: the counts and states reported by RetrieveTrials.      *)
(***************************************************************************)
EXTENDS Naturals, Sequences, FiniteSets, FiniteSetsExt

CONSTANTS
  Trials,    \* each with one datalog stream
  Readers,   \* the RetrieveSamples calls
  Deletable, \* the trials somebody may delete
  Last,      \* per trial: its number of samples
  BatchSize, \* fullBatchSize
  MaxSize,   \* maxSamplesSize
  Nobody

ASSUME DatastoreAssumption ==
  /\ IsFiniteSet(Trials) /\ Nobody \notin Trials /\ Deletable \subseteq Trials
  /\ Last \in [Trials -> Nat \ {0}] /\ BatchSize \in Nat \ {0} /\ MaxSize \in Nat

VARIABLES
  down,      \* the process died of a nil dereference
  \* RunTrialDatalog and its sampleBatcher, per trial
  stream,    \* where the stream's thread stands
  logged,    \* samples received
  batch,     \* sb.batch
  timer,     \* whether sb.timer may fire
  flusher,   \* holder of sb.mu across steps
  phase,     \* where the flusher stands in AddSamples
  pos,       \* the sample of the batch it is at
  \* memoryBackend
  entry,     \* per trial: what b.trials holds
  evList,    \* trialsEvList
  size,      \* samplesSize
  stored,    \* per trial: storedSamplesSize
  gen,       \* per trial: which list storedSamples is, 1 once it was evicted
  items,     \* per trial and gen: the list's items
  ended,     \* per trial and gen: the list's ended flag
  triggers,  \* pending sends to evictionWorkerTrigger
  evictor,   \* where the eviction worker stands
  \* RetrieveSamples, per reader
  of,        \* the trial
  at,        \* where ObserveSamples stands
  seen,      \* the gen of the list it observes
  upto,      \* end of the slice read last
  final,     \* whether the list had ended when it was read
  subs,      \* the subscribed observers
  woken,     \* whether an emission to the observer is pending
  given,     \* samples the list's observer was given
  passed,    \* samples passed on to the sender
  received,  \* the samples sent to the client
  gone,      \* clients that went away: the call's context is cancelled
  failed,    \* calls whose sender returned an error
  outcome    \* how the call returned

logVars == <<stream, logged, batch, timer, flusher, phase, pos>>
listVars == <<gen, items, ended>>
storeVars == <<entry, evList, size, stored, triggers, evictor>>
readVars == <<of, at, seen, upto, final, subs, woken, given, passed, received, gone, failed,
              outcome>>
vars == <<down, logVars, listVars, storeVars, readVars>>

Init ==
  /\ down = FALSE
  /\ stream = [x \in Trials |-> "params"] /\ logged = [x \in Trials |-> 0]
  /\ batch = [x \in Trials |-> <<>>] /\ timer = [x \in Trials |-> FALSE]
  /\ flusher = [x \in Trials |-> "nobody"] /\ phase = [x \in Trials |-> "idle"]
  /\ pos = [x \in Trials |-> 1]
  /\ entry = [x \in Trials |-> "absent"] /\ evList = <<>> /\ size = 0
  /\ stored = [x \in Trials |-> 0] /\ gen = [x \in Trials |-> 0]
  /\ items = [x \in Trials |-> [g \in 0..1 |-> <<>>]]
  /\ ended = [x \in Trials |-> [g \in 0..1 |-> FALSE]]
  /\ triggers = 0 /\ evictor = "wait"
  /\ of = [r \in Readers |-> Nobody] /\ at = [r \in Readers |-> "call"]
  /\ seen = [r \in Readers |-> 0] /\ upto = [r \in Readers |-> 0]
  /\ final = [r \in Readers |-> FALSE] /\ subs = {} /\ woken = [r \in Readers |-> FALSE]
  /\ given = [r \in Readers |-> 0] /\ passed = [r \in Readers |-> 0]
  /\ received = [r \in Readers |-> <<>>] /\ gone = {} /\ failed = {}
  /\ outcome = [r \in Readers |-> "none"]

\* list.List.Remove
Without(s, x) ==
  LET i == CHOOSE j \in DOMAIN s : s[j] = x IN SubSeq(s, 1, i - 1) \o SubSeq(s, i + 1, Len(s))
InEvList(x) == \E i \in DOMAIN evList : evList[i] = x
\* retrieveTrialDatas: what is used goes to the back of the eviction list.
MoveToBack(x) == evList' = IF InEvList(x) THEN Append(Without(evList, x), x) ELSE evList

-----------------------------------------------------------------------------
(* RunTrialDatalog                                                         *)

\* The first message: CreateOrUpdateTrials.  A new trial goes to the front of
\* the eviction list; a deleted one stays deleted.
Create(x) ==
  /\ stream[x] = "params" /\ stream' = [stream EXCEPT ![x] = "receive"]
  /\ IF entry[x] = "absent"
       THEN /\ entry' = [entry EXCEPT ![x] = "present"] /\ evList' = <<x>> \o evList
       ELSE MoveToBack(x) /\ UNCHANGED entry
  /\ UNCHANGED <<down, logged, batch, timer, flusher, phase, pos, listVars, size, stored,
                 triggers, evictor, readVars>>

\* Mutant: the timer is only set the first time.
AddSampleOneTimer(x) ==
  /\ stream[x] = "receive" /\ flusher[x] = "nobody" /\ logged[x] < Last[x]
  /\ logged' = [logged EXCEPT ![x] = @ + 1]
  /\ batch' = [batch EXCEPT ![x] = Append(@, logged[x] + 1)]
  /\ timer' = [timer EXCEPT ![x] = @ \/ logged[x] = 0]
  /\ stream' = [stream EXCEPT ![x] =
                  IF Len(batch[x]) + 1 >= BatchSize THEN "full" ELSE "receive"]
  /\ UNCHANGED <<down, flusher, phase, pos, listVars, storeVars, readVars>>

\* A sample comes: sampleBatcher.AddSample.  A stream that ends or breaks just
\* brings no more samples: the batch is left to the timer.
AddSample(x) ==
  /\ stream[x] = "receive" /\ flusher[x] = "nobody" /\ logged[x] < Last[x]
  /\ logged' = [logged EXCEPT ![x] = @ + 1]
  /\ batch' = [batch EXCEPT ![x] = Append(@, logged[x] + 1)]
  /\ timer' = [timer EXCEPT ![x] = @ \/ batch[x] = <<>>]
  /\ stream' = [stream EXCEPT ![x] =
                  IF Len(batch[x]) + 1 >= BatchSize THEN "full" ELSE "receive"]
  /\ UNCHANGED <<down, flusher, phase, pos, listVars, storeVars, readVars>>

\* sampleBatcher.flush calls AddSamples, which first retrieves the trial; a
\* deleted one has no list of samples.
Flush(x, by) ==
  /\ flusher[x] = "nobody" /\ timer' = [timer EXCEPT ![x] = FALSE]
  /\ IF batch[x] = <<>>
       THEN /\ stream' = [stream EXCEPT ![x] = IF by = "stream" THEN "receive" ELSE @]
            /\ UNCHANGED <<down, flusher, phase, pos, evList>>
     ELSE IF entry[x] = "deleted"
       THEN down' = TRUE /\ UNCHANGED <<stream, flusher, phase, pos, evList>>
       ELSE /\ flusher' = [flusher EXCEPT ![x] = by] /\ phase' = [phase EXCEPT ![x] = "size"]
            /\ pos' = [pos EXCEPT ![x] = 1] /\ MoveToBack(x) /\ UNCHANGED <<down, stream>>
  /\ UNCHANGED <<logged, batch, listVars, entry, size, stored, triggers, evictor, readVars>>

FlushFull(x) == stream[x] = "full" /\ Flush(x, "stream")
FlushTimer(x) == timer[x] /\ Flush(x, "timer")

-----------------------------------------------------------------------------
(* AddSamples, sample by sample, without a lock: the size of all trials,   *)
(* the trial's own, then ObservableList.Append and its emission.           *)

Goto(x, place) == phase' = [phase EXCEPT ![x] = place]
AddSize(x) ==
  /\ phase[x] = "size" /\ size' = size + 1 /\ Goto(x, "stored")
  /\ UNCHANGED <<down, stream, logged, batch, timer, flusher, pos, listVars, entry, evList,
                 stored, triggers, evictor, readVars>>

AddStored(x) ==
  /\ phase[x] = "stored" /\ stored' = [stored EXCEPT ![x] = @ + 1] /\ Goto(x, "append")
  /\ UNCHANGED <<down, stream, logged, batch, timer, flusher, pos, listVars, entry, evList,
                 size, triggers, evictor, readVars>>

\* Mutant: an emission is dropped if the observer is not just waiting for it.
EmitDropped(x) ==
  woken' = [r \in Readers |-> woken[r] \/
              (r \in subs /\ of[r] = x /\ seen[r] = gen[x] /\ at[r] = "send"
               /\ given[r] = upto[r] /\ ~final[r])]

\* Observable.Emit: a goroutine per subscribed observer sends until it receives.
Emit(x) == woken' = [r \in Readers |-> woken[r] \/ (r \in subs /\ of[r] = x /\ seen[r] = gen[x])]

\* Append and Emit: who subscribes in between is only woken once more than needed.
AppendItem(x) ==
  /\ phase[x] = "append" /\ Emit(x)
  /\ items' = [items EXCEPT ![x][gen[x]] = Append(@, batch[x][pos[x]])]
  /\ ended' = [ended EXCEPT ![x][gen[x]] = (batch[x][pos[x]] = Last[x])]
  /\ IF pos[x] < Len(batch[x])
       THEN Goto(x, "size") /\ pos' = [pos EXCEPT ![x] = @ + 1]
       ELSE Goto(x, "trigger") /\ UNCHANGED pos
  /\ UNCHANGED <<down, stream, logged, batch, timer, flusher, gen, storeVars, of, at, seen,
                 upto, final, subs, given, passed, received, gone, failed, outcome>>

\* The eviction is requested if it is needed; the flush is over.
Trigger(x) ==
  /\ phase[x] = "trigger" /\ Goto(x, "idle")
  /\ triggers' = IF size > MaxSize THEN triggers + 1 ELSE triggers
  /\ batch' = [batch EXCEPT ![x] = <<>>] /\ flusher' = [flusher EXCEPT ![x] = "nobody"]
  /\ stream' = [stream EXCEPT ![x] = IF flusher[x] = "stream" THEN "receive" ELSE @]
  /\ UNCHANGED <<down, logged, timer, pos, listVars, entry, evList, size, stored, evictor,
                 readVars>>

-----------------------------------------------------------------------------
(* Eviction and deletion                                                   *)

\* evictLruTrials, when it is requested and after each eviction: done once the
\* size is right...
EvictCheck ==
  /\ \/ evictor = "wait" /\ triggers > 0 /\ triggers' = triggers - 1
     \/ evictor = "again" /\ UNCHANGED triggers
  /\ evictor' = IF size <= MaxSize THEN "wait" ELSE "evict"
  /\ UNCHANGED <<down, logVars, listVars, entry, evList, size, stored, readVars>>

\* Mutant: an ongoing trial is evicted too.
EvictOngoing ==
  /\ evictor = "evict"
  /\ IF evList = <<>>
       THEN evictor' = "wait" /\ UNCHANGED <<gen, evList, size, stored>>
       ELSE LET x == Head(evList) IN
            /\ size' = size - stored[x] /\ stored' = [stored EXCEPT ![x] = 0]
            /\ gen' = [gen EXCEPT ![x] = 1] /\ evList' = Without(evList, x)
            /\ evictor' = IF size' <= MaxSize THEN "wait" ELSE "again"
  /\ UNCHANGED <<down, logVars, items, ended, entry, triggers, readVars>>

\* Mutant: one trial is evicted per request.
EvictOne ==
  /\ evictor = "evict" /\ evictor' = "wait"
  /\ IF evList = <<>> \/ ~ended[Head(evList)][gen[Head(evList)]]
       THEN UNCHANGED <<gen, evList, size, stored>>
       ELSE LET x == Head(evList) IN
            /\ size' = size - stored[x] /\ stored' = [stored EXCEPT ![x] = 0]
            /\ gen' = [gen EXCEPT ![x] = 1] /\ evList' = Without(evList, x)
  /\ UNCHANGED <<down, logVars, items, ended, entry, triggers, readVars>>

\* Mutant: the size of an evicted trial is not reset.
EvictKeepsSize ==
  /\ evictor = "evict"
  /\ IF evList = <<>> \/ ~ended[Head(evList)][gen[Head(evList)]]
       THEN evictor' = "wait" /\ UNCHANGED <<gen, evList, size, stored>>
       ELSE LET x == Head(evList) IN
            /\ size' = size - stored[x] /\ UNCHANGED stored
            /\ gen' = [gen EXCEPT ![x] = 1] /\ evList' = Without(evList, x)
            /\ evictor' = IF size' <= MaxSize THEN "wait" ELSE "again"
  /\ UNCHANGED <<down, logVars, items, ended, entry, triggers, readVars>>

\* ... or the front of the list is ongoing; otherwise its samples are dropped.
Evict ==
  /\ evictor = "evict"
  /\ IF evList = <<>> \/ ~ended[Head(evList)][gen[Head(evList)]]
       THEN evictor' = "wait" /\ UNCHANGED <<gen, evList, size, stored>>
       ELSE LET x == Head(evList) IN
            /\ size' = size - stored[x] /\ stored' = [stored EXCEPT ![x] = 0]
            /\ gen' = [gen EXCEPT ![x] = 1] /\ evList' = Without(evList, x)
            /\ evictor' = IF size' <= MaxSize THEN "wait" ELSE "again"
  /\ UNCHANGED <<down, logVars, items, ended, entry, triggers, readVars>>

\* DeleteTrials
Delete(x) ==
  /\ entry[x] = "present" /\ entry' = [entry EXCEPT ![x] = "deleted"]
  /\ evList' = IF InEvList(x) THEN Without(evList, x) ELSE evList
  /\ size' = size - stored[x]
  /\ UNCHANGED <<down, logVars, listVars, stored, triggers, evictor, readVars>>

-----------------------------------------------------------------------------
(* RetrieveSamples: a goroutine observes the list and gives the samples to *)
(* one that passes them on, to one that sends them, over channels without  *)
(* a buffer.                                                               *)

Place(r, p) == at' = [at EXCEPT ![r] = p]
List(r) == items[of[r]][seen[r]]

\* ObserveSamples
Find(r) ==
  /\ at[r] = "call"
  /\ \E x \in Trials :
       \/ /\ entry[x] = "absent" /\ Place(r, "returned")
          /\ outcome' = [outcome EXCEPT ![r] = "unknown"] /\ UNCHANGED <<down, of, evList>>
       \/ /\ entry[x] = "present" /\ of' = [of EXCEPT ![r] = x] /\ Place(r, "found")
          /\ MoveToBack(x) /\ UNCHANGED <<down, outcome>>
       \/ entry[x] = "deleted" /\ down' = TRUE /\ UNCHANGED <<at, of, outcome, evList>>
  /\ UNCHANGED <<logVars, listVars, entry, size, stored, triggers, evictor, seen, upto, final,
                 subs, woken, given, passed, received, gone, failed>>

\* ObservableList.Observe: an ended list is read at once...
Attach(r) ==
  /\ at[r] = "found"
  /\ LET g == gen[of[r]] IN
     /\ seen' = [seen EXCEPT ![r] = g]
     /\ IF ended[of[r]][g]
          THEN /\ upto' = [upto EXCEPT ![r] = Len(items[of[r]][g])]
               /\ final' = [final EXCEPT ![r] = TRUE] /\ Place(r, "send")
          ELSE Place(r, "subscribe") /\ UNCHANGED <<upto, final>>
  /\ UNCHANGED <<down, logVars, listVars, storeVars, of, subs, woken, given, passed, received,
                 gone, failed, outcome>>

\* ... otherwise it subscribes before it reads what is there.
Subscribe(r) ==
  /\ at[r] = "subscribe" /\ subs' = subs \cup {r} /\ Place(r, "read")
  /\ UNCHANGED <<down, logVars, listVars, storeVars, of, seen, upto, final, woken, given,
                 passed, received, gone, failed, outcome>>

Read(r) ==
  /\ at[r] = "read" /\ Place(r, "send")
  /\ upto' = [upto EXCEPT ![r] = Len(List(r))]
  /\ final' = [final EXCEPT ![r] = ended[of[r]][seen[r]]]
  /\ UNCHANGED <<down, logVars, listVars, storeVars, of, seen, subs, woken, given, passed,
                 received, gone, failed, outcome>>

Give(r) ==
  /\ at[r] = "send" /\ given[r] < upto[r] /\ passed[r] = given[r]
  /\ given' = [given EXCEPT ![r] = @ + 1]
  /\ UNCHANGED <<down, logVars, listVars, storeVars, of, at, seen, upto, final, subs, woken,
                 passed, received, gone, failed, outcome>>

Wake(r) ==
  /\ at[r] = "send" /\ given[r] = upto[r] /\ ~final[r]
  /\ woken[r] /\ woken' = [woken EXCEPT ![r] = FALSE] /\ Place(r, "read")
  /\ UNCHANGED <<down, logVars, listVars, storeVars, of, seen, upto, final, subs, given,
                 passed, received, gone, failed, outcome>>

\* Observe returns: everything was given, or the context is cancelled.
Observed(r) ==
  /\ at[r] = "send"
  /\ IF given[r] = upto[r] /\ final[r] THEN Place(r, "complete")
     ELSE r \in gone /\ Place(r, "cancelled")
  /\ subs' = subs \ {r}
  /\ UNCHANGED <<down, logVars, listVars, storeVars, of, seen, upto, final, woken, given,
                 passed, received, gone, failed, outcome>>

\* out <- sample: it waits for the sender, not for the context.
Pass(r) ==
  /\ passed[r] < given[r] /\ passed[r] = Len(received[r]) /\ r \notin failed
  /\ passed' = [passed EXCEPT ![r] = @ + 1]
  /\ UNCHANGED <<down, logVars, listVars, storeVars, of, at, seen, upto, final, subs, woken,
                 given, received, gone, failed, outcome>>

\* resStream.Send
Send(r) ==
  /\ passed[r] > Len(received[r]) /\ r \notin failed
  /\ IF r \in gone THEN failed' = failed \cup {r} /\ UNCHANGED received
     ELSE received' = [received EXCEPT ![r] = Append(@, List(r)[passed[r]])] /\ UNCHANGED failed
  /\ UNCHANGED <<down, logVars, listVars, storeVars, of, at, seen, upto, final, subs, woken,
                 given, passed, gone, outcome>>

\* All goroutines of the call have returned.
Return(r) ==
  /\ at[r] \in {"complete", "cancelled"} /\ passed[r] = given[r]
  /\ r \in failed \/ Len(received[r]) = passed[r]
  /\ outcome' = [outcome EXCEPT ![r] =
                   IF at[r] = "complete" /\ r \notin failed THEN "done" ELSE "cancelled"]
  /\ Place(r, "returned")
  /\ UNCHANGED <<down, logVars, listVars, storeVars, of, seen, upto, final, subs, woken,
                 given, passed, received, gone, failed>>

Leave(r) ==
  /\ at[r] \notin {"call", "returned"} /\ r \notin gone /\ gone' = gone \cup {r}
  /\ UNCHANGED <<down, logVars, listVars, storeVars, of, at, seen, upto, final, subs, woken,
                 given, passed, received, failed, outcome>>

-----------------------------------------------------------------------------

Flushing(x) ==
  \/ FlushFull(x) \/ FlushTimer(x)
  \/ AddSize(x) \/ AddStored(x) \/ AppendItem(x) \/ Trigger(x)
Evicting == EvictCheck \/ Evict
Observing(r) == Attach(r) \/ Subscribe(r) \/ Read(r) \/ Give(r) \/ Wake(r) \/ Observed(r)

Next ==
  /\ ~down
  /\ \/ \E x \in Trials : Create(x) \/ AddSample(x) \/ Flushing(x)
     \/ \E x \in Deletable : Delete(x)
     \/ Evicting
     \/ \E r \in Readers :
          Find(r) \/ Observing(r) \/ Pass(r) \/ Send(r) \/ Return(r) \/ Leave(r)

Spec == Init /\ [][Next]_vars

\* The goroutines keep running, time passes for the timers, and clients read
\* what they are sent.  Nothing is assumed of what is logged, nor of clients.
FairSpec ==
  /\ Spec
  /\ \A x \in Trials : WF_vars(~down /\ Flushing(x))
  /\ WF_vars(~down /\ Evicting)
  /\ \A r \in Readers :
       /\ WF_vars(~down /\ Observing(r)) /\ WF_vars(~down /\ Pass(r))
       /\ WF_vars(~down /\ Send(r)) /\ WF_vars(~down /\ Return(r))

-----------------------------------------------------------------------------
(* Properties                                                              *)

\* The samples a reader gets, and the end of its retrieval, are those of an
\* append-only log, whatever is batched, evicted or deleted meanwhile
\* (trial_datastore.proto, RetrieveSamples).
Log == INSTANCE SampleLog WITH over <- {r \in Readers : outcome[r] = "done"}
SamplesAsLogged == Log!Spec

\* What is subtracted from the size of all samples (evictLruTrials,
\* DeleteTrials) was added to it before: it never wraps below zero.
SizeCoversStored ==
  size >= MapThenSumSet(LAMBDA x : stored[x], {x \in Trials : entry[x] = "present"})

\* The samples of a batch are stored in the end, also when the stream broke.
BatchFlushed == \A x \in Trials : batch[x] # <<>> ~> batch[x] = <<>> \/ down

\* Who observes the list of a trial that has ended gets its end: no emission is
\* lost between reading the list and waiting for the next one (Observe).
ObserversFinish ==
  \A r \in Readers :
    at[r] \in {"read", "send"} /\ ended[of[r]][seen[r]]
      ~> at[r] \in {"complete", "returned"} \/ r \in gone \/ down

\* Once only ended trials are left, the eviction worker brings their samples
\* below the limit.  (A deletion requests no eviction.)
Overfull ==
  size > MaxSize /\ evList # <<>>
  /\ \A i \in DOMAIN evList : ended[evList[i]][gen[evList[i]]]
SpaceReclaimed == Overfull ~> ~Overfull \/ down \/ \E x \in Trials : entry[x] = "deleted"

=============================================================================
