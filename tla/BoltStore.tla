----------------------------- MODULE BoltStore -----------------------------
(***************************************************************************)
(* The trial datastore over its file backend (bolt.go): the buckets of the *)
(* file, the transactions, the migration of a file of an older version,    *)
(* and the calls of the servers of datalogServer.go and                    *)
(* trialDatastoreServer.go that are in progress.  A transaction is one     *)
(* step; what a handler does between two of them interleaves with          *)
(* everything else, and the process may die in between.                    *)
(***************************************************************************)
EXTENDS StoredSamples

CONSTANTS
  Trials,    \* trial ids
  None,      \* no bucket, no count, no filter
  Scripts,   \* what may be logged: functions from Trials to sequences
  Kinds,     \* the properties a trial may have
  Filters,   \* the filters of RetrieveSamples
  Wanted,    \* the filters of RetrieveTrials: [ids, kinds], {} for all
  OldFiles,  \* the files of an older version: sequences of trials, or <<>>
  Requests,  \* calls of RetrieveSamples
  Listers,   \* clients that list trials page by page
  ChunkSize, \* addSampleChunkSize
  PageSize,  \* trials_count
  MaxIdx, MaxCrashes \* bounds of the model

ASSUME StoreAssumption ==
  /\ None \notin Nat /\ ChunkSize \in Nat \ {0} /\ PageSize \in Nat \ {0}
  /\ MaxIdx \in Nat /\ MaxCrashes \in Nat /\ \A want \in Wanted : IsFiniteSet(want.ids)
  /\ \A log \in Scripts : \A x \in Trials :
       log[x] \in Seq(Range(log[x])) /\ \A k \in DOMAIN log[x] : log[x][k].tick \in Nat
  /\ \A old \in OldFiles : old \in Seq(Trials) /\ \A m, n \in DOMAIN old : old[m] = old[n] => m = n

VARIABLES
  script,   \* what is logged in each trial; never changes
  \* The file.
  trials,   \* the bucket of each trial, or None
  index,    \* trial_idx: positions to trial ids
  sequence, \* the sequence of trial_idx
  history,  \* whether schema_history has 2.20.0
  \* The process.
  phase,    \* "down", "migrating", "open"
  pending,  \* the trials computeStoredSampleCount has still to count
  streams,  \* per trial: the stream that logs it
  request,  \* per call of RetrieveSamples: where it stands
  lister,   \* per client: where it stands
  panics,   \* why the process panicked
  crashes

file == <<trials, index, sequence, history>>
calls == <<streams, request, lister>>
vars == <<script, file, phase, pending, calls, panics, crashes>>

NoStream == [kind |-> "none", next |-> 1, chunk |-> <<>>]
\* `at` and `got` are only read by the properties: the trials' positions when
\* the call was made and the samples the client was given.
NoRequest == [is |-> "idle", filter |-> None, last |-> <<>>, queue |-> <<>>, ended |-> <<>>,
              at |-> <<>>, got |-> <<>>]
\* `got` is what the client has and `stay` the trials it may count on.
NoLister == [is |-> "idle", want |-> None, from |-> 0, timed |-> FALSE, page |-> <<>>, next |-> 0,
             got |-> <<>>, stay |-> {}]

Buckets == {x \in Trials : trials[x] # None}
Logged(x, k) == StoredSample(x, script[x][k], [i \in DOMAIN Actors |-> i])
Sorted(set) ==
  [k \in 1..Cardinality(set) |-> CHOOSE n \in set : Cardinality({m \in set : m < n}) = k - 1]

\* A file of a version before 2.20.0 has the samples but not their number.
OldSamples(x, log) ==
  [t \in {log[k].tick : k \in DOMAIN log} |->
    LET k == CHOOSE k \in DOMAIN log : log[k].tick = t
    IN StoredSample(x, log[k], [i \in DOMAIN Actors |-> i])]

Init ==
  /\ script \in Scripts
  /\ \E old \in OldFiles :
       /\ index = old /\ sequence = Len(old)
       /\ trials = [x \in Trials |->
            IF \E n \in DOMAIN old : old[n] = x
              THEN [idx |-> CHOOSE n \in DOMAIN old : old[n] = x, count |-> None,
                    kind |-> CHOOSE kind \in Kinds : TRUE, samples |-> OldSamples(x, script[x])]
              ELSE None]
  /\ history = FALSE /\ phase = "down" /\ pending = {}
  /\ streams = [x \in Trials |-> NoStream]
  /\ request = [r \in Requests |-> NoRequest] /\ lister = [l \in Listers |-> NoLister]
  /\ panics = {} /\ crashes = 0

-----------------------------------------------------------------------------
(* The transactions                                                        *)

\* getSampleCount
SampleCount(bucket) ==
  IF bucket.count = None THEN Cardinality(DOMAIN bucket.samples) ELSE bucket.count

\* CreateOrUpdateTrials: a new trial takes the next position, one that exists
\* keeps its position and its samples.
PutTrial(x, kind) ==
  IF trials[x] # None
    THEN trials' = [trials EXCEPT ![x] = [@ EXCEPT !.kind = kind]] /\ UNCHANGED <<index, sequence>>
    ELSE /\ sequence < MaxIdx /\ sequence' = sequence + 1
         /\ index' = [n \in DOMAIN index \cup {sequence + 1} |->
                       IF n = sequence + 1 THEN x ELSE index[n]]
         /\ trials' = [trials EXCEPT ![x] =
              [idx |-> sequence + 1, count |-> 0, kind |-> kind, samples |-> [t \in {} |-> None]]]

\* Mutant: a tick that is logged again is counted again.
WithSamplesCounted(bucket, batch) ==
  LET ticks == {batch[k].tick : k \in DOMAIN batch}
      lastOf(t) == CHOOSE k \in DOMAIN batch :
        batch[k].tick = t /\ \A m \in DOMAIN batch : batch[m].tick = t => m <= k
  IN [bucket EXCEPT
        !.count = SampleCount(bucket) + Len(batch),
        !.samples = [t \in DOMAIN bucket.samples \cup ticks |->
          IF t \in ticks THEN batch[lastOf(t)] ELSE bucket.samples[t]]]

\* AddSamples: a sample takes the place of one of the same tick; only a new
\* tick is counted.
WithSamples(bucket, batch) ==
  LET ticks == {batch[k].tick : k \in DOMAIN batch}
      lastOf(t) == CHOOSE k \in DOMAIN batch :
        batch[k].tick = t /\ \A m \in DOMAIN batch : batch[m].tick = t => m <= k
  IN [bucket EXCEPT
        !.count = SampleCount(bucket) + Cardinality(ticks \ DOMAIN bucket.samples),
        !.samples = [t \in DOMAIN bucket.samples \cup ticks |->
          IF t \in ticks THEN batch[lastOf(t)] ELSE bucket.samples[t]]]

AddSamples(x, batch) ==
  /\ trials' = [trials EXCEPT ![x] = WithSamples(@, batch)] /\ UNCHANGED <<index, sequence>>

\* DeleteTrials
Drop(xs) ==
  /\ trials' = [x \in Trials |-> IF x \in xs THEN None ELSE trials[x]]
  /\ index' = [n \in {n \in DOMAIN index : \A x \in xs \cap Buckets : trials[x].idx # n} |-> index[n]]
  /\ UNCHANGED sequence

Matches(want, x) == Selects(want.ids, x) /\ Selects(want.kinds, trials[x].kind)

\* RetrieveTrials: the first trials that match after the position `from`, all
\* of them when `count` is 0, and the position to go on from.
Found(want, from, count) ==
  LET all == Sorted({n \in DOMAIN index : n > from /\ Matches(want, index[n])})
  IN IF count = 0 \/ Len(all) <= count THEN all ELSE SubSeq(all, 1, count)
\* Mutant: the handle is the next position itself.
NextAfter(found, count) ==
  LET after == {n \in DOMAIN index : \A k \in DOMAIN found : n > found[k]}
  IN IF count > 0 /\ Len(found) = count /\ after # {}
       THEN CHOOSE n \in after : \A m \in after : n <= m
       ELSE sequence
NextFrom(found, count) ==
  LET after == {n \in DOMAIN index : \A k \in DOMAIN found : n > found[k]}
  IN IF count > 0 /\ Len(found) = count /\ after # {}
       THEN (CHOOSE n \in after : \A m \in after : n <= m) - 1
       ELSE sequence

-----------------------------------------------------------------------------
(* The process                                                             *)

\* Whoever calls the datastore finds it gone.
Die ==
  /\ phase' = "down" /\ pending' = {} /\ streams' = [x \in Trials |-> NoStream]
  /\ request' = [r \in Requests |->
       IF request[r].is = "open" THEN [request[r] EXCEPT !.is = "failed"] ELSE request[r]]
  /\ lister' = [l \in Listers |->
       IF lister[l].is = "idle" THEN lister[l] ELSE [lister[l] EXCEPT !.is = "failed"]]
  /\ UNCHANGED file

Panic(why) == Die /\ panics' = panics \cup {why} /\ UNCHANGED <<script, crashes>>

Crash ==
  /\ phase # "down" /\ crashes < MaxCrashes /\ crashes' = crashes + 1
  /\ Die /\ UNCHANGED <<script, panics>>

\* CreateBoltBackend: the trials to count are listed in one transaction.
Open ==
  /\ phase = "down"
  /\ IF history THEN phase' = "open" /\ UNCHANGED pending
     ELSE phase' = "migrating" /\ pending' = {index[n] : n \in DOMAIN index}
  /\ UNCHANGED <<script, file, calls, panics, crashes>>

\* computeStoredSampleCount: one transaction per trial.
MigrateTrial ==
  /\ phase = "migrating"
  /\ \E x \in pending :
       /\ \A y \in pending : trials[x].idx <= trials[y].idx
       /\ trials' = [trials EXCEPT ![x] = [@ EXCEPT !.count = SampleCount(trials[x])]]
       /\ pending' = pending \ {x}
  /\ UNCHANGED <<script, index, sequence, history, phase, calls, panics, crashes>>

\* persistSucessfulMigration
Migrated ==
  /\ phase = "migrating" /\ pending = {} /\ history' = TRUE /\ phase' = "open"
  /\ UNCHANGED <<script, trials, index, sequence, pending, calls, panics, crashes>>

-----------------------------------------------------------------------------
(* Logging: RunTrialDatalog with its batcher, and AddTrial with AddSample   *)

serving == phase = "open"
quiet == UNCHANGED <<script, history, phase, pending, panics, crashes>>

\* A client may stop counting on a trial that no longer matches.
Recount ==
  lister' = [l \in Listers |->
    [lister[l] EXCEPT !.stay = {x \in @ : /\ trials'[x] # None
                                          /\ Selects(lister[l].want.kinds, trials'[x].kind)}]]

\* The first message of RunTrialDatalog.
StartLog(x, kind) ==
  /\ serving /\ streams[x] = NoStream /\ PutTrial(x, kind)
  /\ streams' = [streams EXCEPT ![x].kind = "log"]
  /\ Recount /\ quiet /\ UNCHANGED request

AddTrial(x, kind) ==
  /\ serving /\ PutTrial(x, kind) /\ Recount /\ quiet /\ UNCHANGED <<streams, request>>

\* The call of AddSample; that its trial exists is only checked with a chunk.
StartUpload(x) ==
  /\ serving /\ streams[x] = NoStream /\ streams' = [streams EXCEPT ![x].kind = "upload"]
  /\ quiet /\ UNCHANGED <<trials, index, sequence, request, lister>>

\* A sample of RunTrialDatalog is left to the batcher; when the batcher holds
\* its lock on an error nobody takes, the stream waits for it forever.
Log(x) ==
  /\ serving /\ streams[x].kind \in {"log", "failing"} /\ streams[x].next <= Len(script[x])
  /\ streams' = IF streams[x].kind = "failing" THEN [streams EXCEPT ![x].kind = "stuck"]
                ELSE [streams EXCEPT ![x].next = @ + 1,
                                      ![x].chunk = Append(@, Logged(x, streams[x].next))]
  /\ quiet /\ UNCHANGED <<trials, index, sequence, request, lister>>

\* The batcher's flush, on its timer or when the batch is full.  Its error
\* goes to a channel that the stream, which then returns, only looks at after a
\* sample, and closes when it ends: unless it looks just then the flush waits.
Flush(x) ==
  /\ serving /\ streams[x].kind \in {"log", "ended"} /\ streams[x].chunk # <<>>
  /\ IF trials[x] # None
       THEN /\ AddSamples(x, streams[x].chunk) /\ quiet /\ UNCHANGED <<request, lister>>
            /\ streams' = IF streams[x].kind = "ended" THEN [streams EXCEPT ![x] = NoStream]
                          ELSE [streams EXCEPT ![x].chunk = <<>>]
     ELSE IF streams[x].kind = "ended" THEN Panic("late flush")
     ELSE /\ streams' \in {[streams EXCEPT ![x].kind = "failing"], [streams EXCEPT ![x] = NoStream]}
          /\ quiet /\ UNCHANGED <<trials, index, sequence, request, lister>>

\* The stream of RunTrialDatalog ends or breaks: what is batched stays so, and
\* a flush that waits to tell its error finds the channel closed.
EndLog(x) ==
  /\ serving /\ streams[x].kind \in {"log", "failing"}
  /\ IF streams[x].kind = "failing" THEN Panic("closed errors")
     ELSE /\ streams' = [streams EXCEPT ![x] =
                          IF @.chunk = <<>> THEN NoStream ELSE [@ EXCEPT !.kind = "ended"]]
          /\ quiet /\ UNCHANGED <<trials, index, sequence, request, lister>>

\* A sample of AddSample: a full chunk is stored; without its trial it fails,
\* and so does the call.
Upload(x) ==
  /\ serving /\ streams[x].kind = "upload" /\ streams[x].next <= Len(script[x])
  /\ LET chunk == Append(streams[x].chunk, Logged(x, streams[x].next))
     IN IF Len(chunk) < ChunkSize
          THEN /\ streams' = [streams EXCEPT ![x].next = @ + 1, ![x].chunk = chunk]
               /\ UNCHANGED <<trials, index, sequence>>
        ELSE IF trials[x] = None
          THEN streams' = [streams EXCEPT ![x] = NoStream] /\ UNCHANGED <<trials, index, sequence>>
        ELSE /\ AddSamples(x, chunk)
             /\ streams' = [streams EXCEPT ![x].next = @ + 1, ![x].chunk = <<>>]
  /\ quiet /\ UNCHANGED <<request, lister>>

\* The call of AddSample ends, with the last chunk, or breaks and loses it.
EndUpload(x) ==
  /\ serving /\ streams[x].kind = "upload" /\ streams' = [streams EXCEPT ![x] = NoStream]
  /\ \/ streams[x].chunk # <<>> /\ trials[x] # None /\ AddSamples(x, streams[x].chunk)
     \/ UNCHANGED <<trials, index, sequence>>
  /\ quiet /\ UNCHANGED <<request, lister>>

Delete(xs) ==
  /\ serving /\ Drop(xs) /\ Recount /\ quiet /\ UNCHANGED <<streams, request>>

-----------------------------------------------------------------------------
(* RetrieveSamples: ObserveSamples reads each trial in a goroutine of its   *)
(* own, one read transaction after another, and hands over what it found    *)
(* one sample at a time.                                                    *)

open(r) == request[r].is = "open"
Observed(r) == DOMAIN request[r].last
Finished(r, x) == x \in Observed(r) /\ request[r].ended[x] /\ request[r].queue[x] = <<>>
callOnly == quiet /\ UNCHANGED <<trials, index, sequence, streams>>

\* getTrialParams fails, and the call with it, when a trial is unknown.
Retrieve(r, xs, filter) ==
  /\ serving /\ request[r].is = "idle" /\ xs \subseteq Buckets
  /\ request' = [request EXCEPT ![r] =
       [is |-> "open", filter |-> filter, last |-> [x \in xs |-> None],
        queue |-> [x \in xs |-> <<>>], ended |-> [x \in xs |-> FALSE],
        at |-> [x \in xs |-> trials[x].idx], got |-> [x \in xs |-> <<>>]]]
  /\ callOnly /\ UNCHANGED lister

\* Mutant: the last tick is not skipped.
UnreadAgain(r, x) ==
  LET ticks == DOMAIN trials[x].samples
      last == request[r].last[x]
      sought == {t \in ticks : t >= last}
  IN IF last = None THEN ticks ELSE IF \E u \in sought : u > last THEN sought ELSE {}

\* Seek goes to the last tick that was read, or past it when it is not there,
\* and Next to the one after that.
Unread(r, x) ==
  LET ticks == DOMAIN trials[x].samples
      last == request[r].last[x]
      sought == {t \in ticks : t >= last}
  IN IF last = None THEN ticks ELSE {t \in sought : \E u \in sought : u < t}

\* A transaction of the goroutine that has handed over what it read.  The
\* bucket of a trial that was deleted is a nil pointer.
ReadRound(r, x) ==
  /\ serving /\ open(r) /\ x \in Observed(r) /\ request[r].queue[x] = <<>> /\ ~request[r].ended[x]
  /\ IF trials[x] = None THEN Panic("deleted while read")
     ELSE LET ticks == Sorted(Unread(r, x))
          IN /\ ticks # <<>>
             /\ request' = [request EXCEPT ![r].queue[x] =
                              [k \in DOMAIN ticks |-> trials[x].samples[ticks[k]]]]
             /\ callOnly /\ UNCHANGED lister

\* Mutant: the state of the sample is not looked at.
GiveOnly(r, x) ==
  /\ serving /\ open(r) /\ x \in Observed(r) /\ request[r].queue[x] # <<>>
  /\ LET q == request[r]
         s == Head(q.queue[x])
     IN request' = [request EXCEPT ![r] =
          [q EXCEPT !.queue[x] = Tail(@), !.last[x] = s.tick,
                    !.got[x] = Append(@, Filtered(s, q.filter))]]
  /\ callOnly /\ UNCHANGED lister

\* A sample goes through the filter to the client.
Give(r, x) ==
  /\ serving /\ open(r) /\ x \in Observed(r) /\ request[r].queue[x] # <<>>
  /\ LET q == request[r]
         s == Head(q.queue[x])
     IN request' = [request EXCEPT ![r] =
          [q EXCEPT !.queue[x] = Tail(@), !.last[x] = s.tick, !.ended[x] = (s.state = "ended"),
                    !.got[x] = Append(@, Filtered(s, q.filter))]]
  /\ callOnly /\ UNCHANGED lister

\* The call returns once every goroutine saw the end of its trial.
Finish(r) ==
  /\ serving /\ open(r) /\ \A x \in Observed(r) : Finished(r, x)
  /\ request' = [request EXCEPT ![r].is = "over"] /\ callOnly /\ UNCHANGED lister

\* The client goes away.
Leave(r) ==
  /\ open(r) /\ request' = [request EXCEPT ![r].is = "left"] /\ callOnly /\ UNCHANGED lister

-----------------------------------------------------------------------------
(* RetrieveTrials, called with the handle of the last reply until a page    *)
(* comes that is not full.                                                  *)

At(l, is) == serving /\ lister[l].is = is
Set(l, fields) == /\ lister' = [lister EXCEPT ![l] = [f \in DOMAIN @ |->
                                IF f \in DOMAIN fields THEN fields[f] ELSE @[f]]]
                  /\ callOnly /\ UNCHANGED request

\* The client asks for its first page, with a timeout or without.
StartList(l, want, timed) ==
  /\ At(l, "idle")
  /\ Set(l, [is |-> IF timed THEN "waiting" ELSE "asking", want |-> want, timed |-> timed,
             stay |-> {x \in Buckets : Matches(want, x)}])

Page(found) == [k \in DOMAIN found |-> <<found[k], index[found[k]]>>]

List(l) ==
  /\ At(l, "asking")
  /\ LET found == Found(lister[l].want, lister[l].from, PageSize)
     IN Set(l, [is |-> "params", page |-> Page(found), next |-> NextFrom(found, PageSize)])

\* ObserveTrials: what a poll finds is kept, until there is enough of it.
Poll(l) ==
  /\ At(l, "waiting")
  /\ LET now == lister[l]
         size == IF now.want.ids = {} \/ Cardinality(now.want.ids) >= PageSize THEN PageSize
                 ELSE Cardinality(now.want.ids)
         remaining == size - Len(now.page)
         found == Found(now.want, IF now.page = <<>> THEN now.from ELSE now.next, remaining)
     IN /\ found # <<>>
        /\ Set(l, [is |-> IF Len(found) = remaining THEN "params" ELSE "waiting",
                   page |-> now.page \o Page(found), next |-> NextFrom(found, remaining)])

\* The time is up; without a result the offset for the reply is still 0.
Timeout(l) == At(l, "waiting") /\ Set(l, [is |-> "params"])

\* GetTrialParams, another transaction, fails when a trial is gone since; the
\* client then asks again.
Reply(l) ==
  /\ At(l, "params")
  /\ LET now == lister[l]
         again == IF now.timed THEN "waiting" ELSE "asking"
     IN IF \E k \in DOMAIN now.page : trials[now.page[k][2]] = None
          THEN Set(l, [is |-> again, page |-> <<>>, next |-> 0])
          ELSE Set(l, [is |-> IF Len(now.page) < PageSize THEN "done" ELSE again, page |-> <<>>,
                       from |-> now.next, next |-> 0, got |-> now.got \o now.page])

-----------------------------------------------------------------------------
Logging(x) ==
  \/ \E kind \in Kinds : StartLog(x, kind) \/ AddTrial(x, kind)
  \/ StartUpload(x) \/ Log(x) \/ Flush(x) \/ EndLog(x) \/ Upload(x) \/ EndUpload(x)

Retrieving(r) ==
  \/ \E xs \in SUBSET Trials \ {{}}, filter \in Filters : Retrieve(r, xs, filter)
  \/ \E x \in Trials : ReadRound(r, x) \/ Give(r, x)
  \/ Finish(r) \/ Leave(r)

Listing(l) ==
  \/ \E want \in Wanted, timed \in BOOLEAN : StartList(l, want, timed)
  \/ List(l) \/ Poll(l) \/ Timeout(l) \/ Reply(l)

Next ==
  \/ Open \/ MigrateTrial \/ Migrated \/ Crash
  \/ \E x \in Trials : Logging(x)
  \/ \E xs \in SUBSET Trials \ {{}} : Delete(xs)
  \/ \E r \in Requests : Retrieving(r)
  \/ \E l \in Listers : Listing(l)

Spec == Init /\ [][Next]_vars

\* The goroutines of a call go on, and its client receives.
Fairness ==
  \A r \in Requests, x \in Trials : WF_vars(ReadRound(r, x) \/ Give(r, x))
FairSpec == Spec /\ Fairness

-----------------------------------------------------------------------------
(* Properties                                                              *)

\* The trials and their positions are the same in both buckets (bolt.go:63-68),
\* whatever is created, updated and deleted: a position leads to the trial that
\* has it, and none was given twice.
IndexMatches ==
  /\ \A n \in DOMAIN index : n \in 1..sequence /\ index[n] \in Buckets /\ trials[index[n]].idx = n
  /\ \A x \in Buckets : trials[x].idx \in DOMAIN index /\ index[trials[x].idx] = x

\* A stored sample count is the number of ticks that have a sample, also when
\* ticks are logged again or come in several chunks, and while the trials are
\* served every one has its count, however often the migration was cut short
\* (computeStoredSampleCount, AddSamples).
CountsMatch ==
  \A x \in Buckets :
    /\ trials[x].count # None => trials[x].count = Cardinality(DOMAIN trials[x].samples)
    /\ phase = "open" => trials[x].count # None

StoreConsistent == IndexMatches /\ CountsMatch

\* A retrieval gives the samples of a trial in the order of the ticks, each
\* once and without a gap, as they are added (ObserveSamples).
RetrievedInOrder ==
  \A r \in Requests : \A x \in Observed(r) \cap Buckets :
    trials[x].idx = request[r].at[x] /\ request[r].last[x] # None =>
      LET got == request[r].got[x]
      IN [k \in DOMAIN got |-> got[k].tick]
           = Sorted({t \in DOMAIN trials[x].samples : t <= request[r].last[x]})

\* A retrieval ends with its trials: once the samples with the state ENDED are
\* stored, their goroutines come to them, unless the trials are deleted.
HasEnd(x) == x \in Buckets /\ \E t \in DOMAIN trials[x].samples : trials[x].samples[t].state = "ended"
Reads(r, x) == open(r) /\ x \in Observed(r) \cap Buckets /\ trials[x].idx = request[r].at[x]
Behind(r) == \E x \in Trials : Reads(r, x) /\ HasEnd(x) /\ ~Finished(r, x)
RetrievalEnds == \A r \in Requests : Behind(r) ~> ~Behind(r)

\* A client that follows the handles (trial_datastore.proto:60-62) gets no
\* trial twice and, unless its pages may time out, every trial it could count
\* on, whatever is created and deleted between two pages.
PagesComplete ==
  \A l \in Listers :
    LET got == lister[l].got
    IN /\ \A j, k \in DOMAIN got : got[j] = got[k] => j = k
       /\ lister[l].is = "done" /\ ~lister[l].timed =>
            \A x \in lister[l].stay : \E k \in DOMAIN got : got[k] = <<trials[x].idx, x>>

\* What a client is given of a tick is what was logged for it, and no more than
\* its filter selects (datalogServer.go, trialSampleFilter.go).
GivenAsLogged ==
  \A r \in Requests : \A x \in Observed(r) : \A k \in DOMAIN request[r].got[x] :
    LET s == request[r].got[x][k]
        log == SelectSeq(script[x], LAMBDA l : l.tick = s.tick)[1]
    IN AsLogged(s, log, request[r].filter)
=============================================================================
