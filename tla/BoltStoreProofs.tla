-------------------------- MODULE BoltStoreProofs --------------------------
(***************************************************************************)
(* The file of the trial datastore is consistent, listing it page by page  *)
(* skips nothing, and, while samples are stored in order, a retrieval      *)
(* gives them in order and an export and an import pass them on whole, for *)
(* any number of trials, logs, uploads, deletions, imports, crashes and    *)
(* migrations that are cut short.                                          *)
(***************************************************************************)
EXTENDS StoreClients, FiniteSetTheorems, TLAPS

BucketFields == {"idx", "count", "kind", "samples"}
\* What a file has in the place of a bucket is not a bucket.
NoneIsNoBucket == \A b : DOMAIN b = BucketFields => b # None

IsSeq(s) == \E S : s \in Seq(S)
IsBucket(b) == DOMAIN b = BucketFields /\ IsFiniteSet(DOMAIN b.samples)

Shape ==
  /\ sequence \in Nat /\ DOMAIN trials = Trials
  /\ \A x \in Trials : trials[x] # None => IsBucket(trials[x])

\* The streams matter for what they flush.
Stream(s) == DOMAIN s = {"kind", "next", "chunk"} /\ IsSeq(s.chunk)
Streams == DOMAIN streams = Trials /\ \A x \in Trials : Stream(streams[x])

Uncounted == {x \in Trials : trials[x] # None /\ trials[x].count = None}
Counted ==
  \A x \in Trials : trials[x] # None /\ trials[x].count # None =>
    trials[x].count = Cardinality(DOMAIN trials[x].samples)

\* A migration that was cut short leaves no trace in schema_history; the next one
\* lists every trial again.
Migration ==
  /\ phase = "open" => history
  /\ history => Uncounted = {}
  /\ phase = "migrating" => Uncounted \subseteq pending /\ pending \subseteq Buckets

FileInv == Shape /\ IndexMatches /\ Counted /\ Migration

\* An import adds the trials that the header of the exported file names.
Transfers ==
  /\ DOMAIN export = {"is", "of", "left", "counted", "at", "pos"}
  /\ export.pos \in Nat /\ DOMAIN export.left \subseteq Trials
  /\ export.is = "counted" => export.pos = 0
  /\ export.is = "reading" => export.pos # 0 /\ disk # <<>>
  /\ disk # <<>> => disk[1].header \subseteq Trials
  /\ DOMAIN import = {"is", "pos", "read", "at"}
  /\ import.is = "reading" => disk # <<>>

IInv == FileInv /\ Streams /\ Transfers

-----------------------------------------------------------------------------
(* Sequences and finite sets                                               *)

LEMMA TicksAreFinite ==
  ASSUME NEW s, IsSeq(s) PROVE IsFiniteSet({s[k].tick : k \in DOMAIN s})
<1> DEFINE T == {s[k].tick : k \in DOMAIN s}
           f == [k \in DOMAIN s |-> s[k].tick]
<1>1. DOMAIN s = 1..Len(s) /\ Len(s) \in Nat
  BY DEF IsSeq
<1>2. IsFiniteSet(DOMAIN s)
  BY <1>1, FS_Interval
<1>3. f \in Surjection(DOMAIN s, T)
  BY DEF Surjection
<1> QED BY <1>2, <1>3, FS_Surjection

LEMMA AppendIsSeq == ASSUME NEW s, IsSeq(s), NEW e PROVE IsSeq(Append(s, e))
<1>1. PICK S : s \in Seq(S)
  BY DEF IsSeq
<1>2. s \in Seq(S \cup {e})
  BY <1>1
<1>3. Append(s, e) \in Seq(S \cup {e})
  BY <1>2
<1> QED BY <1>3 DEF IsSeq

LEMMA EmptyIsSeq == IsSeq(<<>>)
<1>1. <<>> \in Seq({})
  OBVIOUS
<1> QED BY <1>1 DEF IsSeq

LEMMA OneIsSeq == ASSUME NEW e PROVE IsSeq(<<e>>)
<1>1. <<e>> \in Seq({e})
  OBVIOUS
<1> QED BY <1>1 DEF IsSeq

-----------------------------------------------------------------------------
(* What happens to the file                                                *)

LEMMA FileStutters ==
  ASSUME FileInv, UNCHANGED file,
         \/ phase' = "down"
         \/ UNCHANGED <<phase, pending>>
  PROVE  FileInv'
<1>1. Shape' /\ IndexMatches' /\ Counted'
  BY DEF FileInv, Shape, IndexMatches, Counted, file, Buckets
<1>2. Migration'
  BY DEF FileInv, Migration, Uncounted, file, Buckets
<1> QED BY <1>1, <1>2 DEF FileInv

LEMMA PutKeeps ==
  ASSUME FileInv, NoneIsNoBucket, StoreAssumption, NEW x \in Trials, NEW kind, PutTrial(x, kind),
         phase = "open", UNCHANGED <<history, phase, pending>>
  PROVE  FileInv'
<1>1. CASE trials[x] # None
  <2> DEFINE b == [trials[x] EXCEPT !.kind = kind]
  <2>1. trials' = [trials EXCEPT ![x] = b] /\ UNCHANGED <<index, sequence>>
    BY <1>1 DEF PutTrial
  <2>2. IsBucket(trials[x])
    BY <1>1 DEF FileInv, Shape
  <2>3. DOMAIN b = BucketFields /\ b.idx = trials[x].idx /\ b.count = trials[x].count /\ b.samples = trials[x].samples
    BY <2>2 DEF IsBucket, BucketFields
  <2>4. IsBucket(b) /\ b # None
    BY <2>2, <2>3 DEF IsBucket, NoneIsNoBucket
  <2> HIDE DEF b
  <2>5. Shape'
    BY <2>1, <2>4 DEF FileInv, Shape
  <2>6. IndexMatches'
    BY <1>1, <2>1, <2>3, <2>4 DEF FileInv, Shape, IndexMatches, Buckets
  <2>7. Counted'
    BY <1>1, <2>1, <2>3 DEF FileInv, Shape, Counted
  <2>8. Migration'
    BY <1>1, <2>1, <2>3 DEF FileInv, Shape, Migration, Uncounted
  <2> QED BY <2>5, <2>6, <2>7, <2>8 DEF FileInv
<1>2. CASE trials[x] = None
  <2> DEFINE b == [idx |-> sequence + 1, count |-> 0, kind |-> kind, samples |-> [t \in {} |-> None]]
  <2>1. /\ sequence' = sequence + 1 /\ trials' = [trials EXCEPT ![x] = b]
        /\ index' = [n \in DOMAIN index \cup {sequence + 1} |-> IF n = sequence + 1 THEN x ELSE index[n]]
    BY <1>2 DEF PutTrial
  <2>2. DOMAIN b = BucketFields /\ b.idx = sequence + 1 /\ b.count = 0 /\ DOMAIN b.samples = {}
    BY DEF BucketFields
  <2> HIDE DEF b
  <2>3. IsFiniteSet(DOMAIN b.samples) /\ Cardinality(DOMAIN b.samples) = 0
    BY <2>2, FS_EmptySet
  <2>4. IsBucket(b) /\ b # None
    BY <2>2, <2>3 DEF IsBucket, NoneIsNoBucket
  <2>5. b.count # None
    BY <2>2 DEF StoreAssumption
  <2>6. IsBucket(b) /\ b # None /\ b.count = Cardinality(DOMAIN b.samples) /\ b.count # None
    BY <2>2, <2>3, <2>4, <2>5
  <2>7. Shape'
    BY <2>1, <2>6 DEF FileInv, Shape
  <2>8. \A n \in DOMAIN index : n \in 1..sequence /\ index[n] \in Trials /\ index[n] # x
                                /\ trials[index[n]] # None /\ trials[index[n]].idx = n
    BY <1>2 DEF FileInv, IndexMatches, Buckets
  <2>9. IndexMatches'
    <3>1. ASSUME NEW n \in DOMAIN index' PROVE (n \in 1..sequence /\ index[n] \in Buckets /\ trials[index[n]].idx = n)'
      <4>1. CASE n = sequence + 1
        BY <2>1, <2>2, <2>6, <4>1 DEF FileInv, Shape, Buckets
      <4>2. CASE n \in DOMAIN index /\ n # sequence + 1
        BY <2>1, <2>8, <4>2 DEF FileInv, Shape, Buckets
      <4> QED BY <2>1, <4>1, <4>2
    <3>2. ASSUME NEW y \in Buckets' PROVE (trials[y].idx \in DOMAIN index /\ index[trials[y].idx] = y)'
      <4>1. CASE y = x
        BY <2>1, <2>2, <4>1 DEF FileInv, Shape
      <4>2. CASE y # x
        <5>1. y \in Buckets /\ trials'[y] = trials[y]
          BY <2>1, <4>2 DEF FileInv, Shape, Buckets
        <5>2. trials[y].idx \in DOMAIN index /\ index[trials[y].idx] = y /\ trials[y].idx \in 1..sequence
          BY <5>1 DEF FileInv, IndexMatches
        <5> QED BY <2>1, <5>1, <5>2 DEF FileInv, Shape
      <4> QED BY <4>1, <4>2
    <3> QED BY <3>1, <3>2 DEF IndexMatches
  <2>10. Counted'
    BY <2>1, <2>6 DEF FileInv, Shape, Counted
  <2>11. Migration'
    BY <2>1, <2>6 DEF FileInv, Shape, Migration, Uncounted
  <2> QED BY <2>7, <2>9, <2>10, <2>11 DEF FileInv
<1> QED BY <1>1, <1>2

\* The count goes up by the ticks that are new.
LEMMA WithSamplesCounts ==
  ASSUME NEW b, IsBucket(b), NEW batch, IsSeq(batch), StoreAssumption,
         b.count # None => b.count = Cardinality(DOMAIN b.samples)
  PROVE  LET c == WithSamples(b, batch)
         IN IsBucket(c) /\ c.idx = b.idx /\ c.count # None /\ c.count = Cardinality(DOMAIN c.samples)
<1> DEFINE ticks == {batch[k].tick : k \in DOMAIN batch}
           old == DOMAIN b.samples
           c == WithSamples(b, batch)
<1>1. /\ DOMAIN c = BucketFields /\ c.idx = b.idx
      /\ c.count = SampleCount(b) + Cardinality(ticks \ old)
      /\ DOMAIN c.samples = old \cup ticks
  BY DEF WithSamples, IsBucket, BucketFields
<1>2. IsFiniteSet(old) /\ IsFiniteSet(ticks)
  BY TicksAreFinite DEF IsBucket
<1> DEFINE new == ticks \ old
<1> HIDE DEF ticks, old, c
<1>3. SampleCount(b) = Cardinality(old)
  BY DEF SampleCount, old
<1>4. IsFiniteSet(new)
  BY <1>2, FS_Difference
<1>5. old \cup new = old \cup ticks /\ old \cap new = {}
  OBVIOUS
<1>6. c.count = SampleCount(b) + Cardinality(new)
  BY <1>1
<1> HIDE DEF new
<1>7. Cardinality(old) \in Nat /\ Cardinality(new) \in Nat /\ Cardinality(old \cap new) = 0
  BY <1>2, <1>4, <1>5, FS_CardinalityType, FS_EmptySet
<1>8. c.count = Cardinality(old \cup ticks) /\ IsFiniteSet(old \cup ticks)
  <2>1. IsFiniteSet(old \cup new)
        /\ Cardinality(old \cup new) = Cardinality(old) + Cardinality(new) - Cardinality(old \cap new)
    BY <1>2, <1>4, FS_Union
  <2>2. Cardinality(old \cup new) = Cardinality(old) + Cardinality(new)
    BY <2>1, <1>7
  <2> QED BY <1>3, <1>5, <1>6, <2>1, <2>2
<1>9. c.count \in Nat
  BY <1>3, <1>6, <1>7
<1> QED BY <1>1, <1>8, <1>9 DEF IsBucket, StoreAssumption, c

LEMMA AddKeeps ==
  ASSUME FileInv, NoneIsNoBucket, StoreAssumption, NEW x \in Trials, NEW batch, AddSamples(x, batch),
         trials[x] # None, IsSeq(batch), phase = "open", UNCHANGED <<history, phase, pending>>
  PROVE  FileInv'
<1> DEFINE b == WithSamples(trials[x], batch)
<1>1. trials' = [trials EXCEPT ![x] = b] /\ UNCHANGED <<index, sequence>>
  BY DEF AddSamples
<1>2. IsBucket(trials[x]) /\ (trials[x].count # None => trials[x].count = Cardinality(DOMAIN trials[x].samples))
  BY DEF FileInv, Shape, Counted
<1>3. IsBucket(b) /\ b.idx = trials[x].idx /\ b.count # None /\ b.count = Cardinality(DOMAIN b.samples)
  BY <1>2, WithSamplesCounts
<1> HIDE DEF b
<1>4. b # None
  BY <1>3 DEF IsBucket, NoneIsNoBucket
<1>5. Shape'
  BY <1>1, <1>3 DEF FileInv, Shape
<1>6. IndexMatches'
  BY <1>1, <1>3, <1>4 DEF FileInv, Shape, IndexMatches, Buckets
<1>7. Counted'
  BY <1>1, <1>3 DEF FileInv, Shape, Counted
<1>8. Migration'
  BY <1>1, <1>3 DEF FileInv, Shape, Migration, Uncounted
<1> QED BY <1>5, <1>6, <1>7, <1>8 DEF FileInv

LEMMA DropKeeps ==
  ASSUME FileInv, NEW xs, Drop(xs), phase = "open", UNCHANGED <<history, phase, pending>>
  PROVE  FileInv'
<1> DEFINE gone == {trials[x].idx : x \in xs \cap Buckets}
<1>1. /\ trials' = [x \in Trials |-> IF x \in xs THEN None ELSE trials[x]] /\ UNCHANGED sequence
      /\ DOMAIN index' = {n \in DOMAIN index : \A x \in xs \cap Buckets : trials[x].idx # n}
      /\ \A n \in DOMAIN index' : index'[n] = index[n]
  BY DEF Drop
<1>2. Shape'
  BY <1>1 DEF FileInv, Shape
<1>3. IndexMatches'
  <2>1. ASSUME NEW n \in DOMAIN index' PROVE (n \in 1..sequence /\ index[n] \in Buckets /\ trials[index[n]].idx = n)'
    <3>1. n \in DOMAIN index /\ n \in 1..sequence /\ index[n] \in Buckets /\ trials[index[n]].idx = n
      BY <1>1 DEF FileInv, IndexMatches
    <3>2. index[n] \notin xs
      BY <1>1, <3>1
    <3> QED BY <1>1, <3>1, <3>2 DEF Buckets
  <2>2. ASSUME NEW y \in Buckets' PROVE (trials[y].idx \in DOMAIN index /\ index[trials[y].idx] = y)'
    <3>1. y \in Buckets /\ y \notin xs /\ trials'[y] = trials[y]
      BY <1>1 DEF Buckets
    <3>2. trials[y].idx \in DOMAIN index /\ index[trials[y].idx] = y
      BY <3>1 DEF FileInv, IndexMatches
    <3>3. \A x \in xs \cap Buckets : trials[x].idx # trials[y].idx
      BY <3>1, <3>2 DEF FileInv, IndexMatches
    <3> QED BY <1>1, <3>1, <3>2, <3>3
  <2> QED BY <2>1, <2>2 DEF IndexMatches
<1>4. Counted'
  BY <1>1 DEF FileInv, Shape, Counted
<1>5. Migration'
  BY <1>1 DEF FileInv, Shape, Migration, Uncounted
<1> QED BY <1>2, <1>3, <1>4, <1>5 DEF FileInv

LEMMA OpenKeeps == ASSUME FileInv, Open PROVE FileInv'
<1>1. Shape' /\ IndexMatches' /\ Counted'
  BY DEF FileInv, Shape, IndexMatches, Counted, Open, file, Buckets
<1>2. \A x \in Buckets : \E n \in DOMAIN index : index[n] = x
  BY DEF FileInv, IndexMatches
<1>3. \A n \in DOMAIN index : index[n] \in Buckets
  BY DEF FileInv, IndexMatches
<1>4. Migration'
  BY <1>2, <1>3 DEF FileInv, Migration, Uncounted, Open, file, Buckets
<1> QED BY <1>1, <1>4 DEF FileInv

LEMMA MigrateTrialKeeps ==
  ASSUME FileInv, NoneIsNoBucket, StoreAssumption, MigrateTrial PROVE FileInv'
<1>1. PICK x \in pending : /\ trials' = [trials EXCEPT ![x] = [@ EXCEPT !.count = SampleCount(trials[x])]]
                           /\ pending' = pending \ {x}
  BY DEF MigrateTrial
<1>2. phase = "migrating" /\ UNCHANGED <<index, sequence, history, phase>>
  BY DEF MigrateTrial
<1>3. x \in Trials /\ trials[x] # None /\ IsBucket(trials[x])
  BY <1>2 DEF FileInv, Shape, Migration, Buckets
<1> DEFINE b == [trials[x] EXCEPT !.count = SampleCount(trials[x])]
<1>4. DOMAIN b = BucketFields /\ b.idx = trials[x].idx /\ b.count = SampleCount(trials[x])
      /\ b.samples = trials[x].samples
  BY <1>3 DEF IsBucket, BucketFields
<1>5. trials' = [trials EXCEPT ![x] = b]
  BY <1>1
<1> HIDE DEF b
<1>6. IsBucket(b) /\ b # None
  BY <1>3, <1>4 DEF IsBucket, NoneIsNoBucket
<1>7. SampleCount(trials[x]) = Cardinality(DOMAIN trials[x].samples)
  BY <1>3 DEF SampleCount, FileInv, Counted
<1>8. Cardinality(DOMAIN trials[x].samples) \in Nat
  BY <1>3, FS_CardinalityType DEF IsBucket
<1>9. b.count = Cardinality(DOMAIN b.samples) /\ b.count # None
  BY <1>4, <1>7, <1>8 DEF StoreAssumption
<1>10. Shape'
  BY <1>2, <1>3, <1>5, <1>6 DEF FileInv, Shape
<1>11. IndexMatches'
  BY <1>2, <1>3, <1>4, <1>5, <1>6 DEF FileInv, Shape, IndexMatches, Buckets
<1>12. Counted'
  BY <1>5, <1>9 DEF FileInv, Shape, Counted
<1>13. Migration'
  <2>1. Uncounted' = Uncounted \ {x}
    BY <1>3, <1>5, <1>6, <1>9 DEF FileInv, Shape, Uncounted
  <2>2. Buckets' = Buckets
    BY <1>3, <1>5, <1>6 DEF FileInv, Shape, Buckets
  <2> QED BY <1>1, <1>2, <2>1, <2>2 DEF FileInv, Migration
<1> QED BY <1>10, <1>11, <1>12, <1>13 DEF FileInv

LEMMA MigratedKeeps == ASSUME FileInv, Migrated PROVE FileInv'
<1>1. Shape' /\ IndexMatches' /\ Counted'
  BY DEF FileInv, Shape, IndexMatches, Counted, Migrated, Buckets
<1>2. Uncounted' = Uncounted /\ Uncounted = {}
  BY DEF FileInv, Migration, Uncounted, Migrated
<1>3. Migration'
  BY <1>2 DEF Migration, Migrated
<1> QED BY <1>1, <1>3 DEF FileInv

LEMMA FileStarts ==
  ASSUME Init, StoreAssumption, NoneIsNoBucket PROVE FileInv
<1>1. PICK old \in OldFiles :
        /\ index = old /\ sequence = Len(old)
        /\ trials = [x \in Trials |->
             IF \E n \in DOMAIN old : old[n] = x
               THEN [idx |-> CHOOSE n \in DOMAIN old : old[n] = x, count |-> None,
                     kind |-> CHOOSE kind \in Kinds : TRUE, samples |-> OldSamples(x, script[x])]
               ELSE None]
  BY DEF Init
<1>2. old \in Seq(Trials) /\ \A m, n \in DOMAIN old : old[m] = old[n] => m = n
  BY DEF StoreAssumption
<1>3. ASSUME NEW x \in Trials, trials[x] # None
      PROVE  /\ IsBucket(trials[x]) /\ trials[x].count = None
             /\ trials[x].idx \in DOMAIN old /\ old[trials[x].idx] = x
  <2>1. \E n \in DOMAIN old : old[n] = x
    BY <1>1, <1>3
  <2> DEFINE i == CHOOSE n \in DOMAIN old : old[n] = x
             k == CHOOSE kind \in Kinds : TRUE
             log == OldSamples(x, script[x])
  <2>2. trials[x] = [idx |-> i, count |-> None, kind |-> k, samples |-> log]
    BY <1>1, <2>1
  <2>3. i \in DOMAIN old /\ old[i] = x
    BY <2>1
  <2>4. IsSeq(script[x])
    BY DEF Init, StoreAssumption, IsSeq
  <2>5. DOMAIN log = {script[x][m].tick : m \in DOMAIN script[x]}
    BY DEF OldSamples
  <2>6. IsFiniteSet(DOMAIN log)
    BY <2>4, <2>5, TicksAreFinite
  <2> HIDE DEF i, k, log
  <2> QED BY <2>2, <2>3, <2>6 DEF IsBucket, BucketFields
<1>4. ASSUME NEW n \in DOMAIN old PROVE old[n] \in Buckets /\ trials[old[n]].idx = n
  <2>1. old[n] \in Trials
    BY <1>2
  <2>2. trials[old[n]] # None
    <3> DEFINE i == CHOOSE m \in DOMAIN old : old[m] = old[n]
               k == CHOOSE kind \in Kinds : TRUE
               log == OldSamples(old[n], script[old[n]])
               b == [idx |-> i, count |-> None, kind |-> k, samples |-> log]
    <3>1. trials[old[n]] = b
      BY <1>1, <2>1
    <3>2. DOMAIN b = BucketFields
      BY DEF BucketFields
    <3> HIDE DEF b
    <3> QED BY <3>1, <3>2 DEF NoneIsNoBucket
  <2>3. trials[old[n]].idx \in DOMAIN old /\ old[trials[old[n]].idx] = old[n]
    BY <1>3, <2>1, <2>2
  <2> QED BY <1>2, <2>1, <2>2, <2>3 DEF Buckets
<1>5. Shape
  BY <1>1, <1>2, <1>3 DEF Shape
<1>6. IndexMatches
  <2>1. DOMAIN index = 1..sequence /\ index = old
    BY <1>1, <1>2
  <2>2. \A x \in Buckets : trials[x].idx \in DOMAIN old /\ old[trials[x].idx] = x
    BY <1>3 DEF Buckets
  <2> QED BY <2>1, <2>2, <1>4 DEF IndexMatches
<1>7. Counted /\ Migration
  BY <1>3 DEF Counted, Migration, Init
<1> QED BY <1>5, <1>6, <1>7 DEF FileInv

-----------------------------------------------------------------------------
(* The calls                                                               *)

LEMMA StreamsStart == Init => Streams
BY EmptyIsSeq DEF Init, Streams, Stream, NoStream

LEMMA StreamSet ==
  ASSUME Streams, NEW x, NEW s, Stream(s), streams' = [streams EXCEPT ![x] = s]
  PROVE  Streams'
BY DEF Streams

LEMMA KindSet ==
  ASSUME Streams, NEW x \in Trials, NEW kind, streams' = [streams EXCEPT ![x].kind = kind]
  PROVE  Streams'
<1> DEFINE s == [streams[x] EXCEPT !.kind = kind]
<1>1. Stream(s)
  BY DEF Streams, Stream
<1>2. streams' = [streams EXCEPT ![x] = s]
  OBVIOUS
<1> HIDE DEF s
<1> QED BY <1>1, <1>2, StreamSet

LEMMA ChunkSet ==
  ASSUME Streams, NEW x \in Trials, NEW chunk, IsSeq(chunk), NEW next,
         \/ streams' = [streams EXCEPT ![x].next = next, ![x].chunk = chunk]
         \/ streams' = [streams EXCEPT ![x].chunk = chunk]
  PROVE  Streams'
<1> DEFINE s == [streams[x] EXCEPT !.next = next, !.chunk = chunk]
           r == [streams[x] EXCEPT !.chunk = chunk]
<1>1. Stream(s) /\ Stream(r)
  BY DEF Streams, Stream
<1>2. streams' = [streams EXCEPT ![x] = s] \/ streams' = [streams EXCEPT ![x] = r]
  OBVIOUS
<1> HIDE DEF s, r
<1> QED BY <1>1, <1>2, StreamSet

LEMMA StreamCleared ==
  ASSUME Streams, NEW x, streams' = [streams EXCEPT ![x] = NoStream]
  PROVE  Streams'
<1>1. Stream(NoStream)
  BY EmptyIsSeq DEF Stream, NoStream
<1> QED BY <1>1, StreamSet

LEMMA DieKeeps == ASSUME FileInv, Die PROVE FileInv' /\ Streams'
<1>1. FileInv'
  BY FileStutters DEF Die
<1>2. Streams'
  BY EmptyIsSeq DEF Die, Streams, Stream, NoStream
<1> QED BY <1>1, <1>2

LEMMA QuietKeeps ==
  ASSUME FileInv, Streams, UNCHANGED <<file, phase, pending, streams>>
  PROVE  FileInv' /\ Streams'
BY FileStutters DEF Streams

LEMMA StoringKeeps ==
  ASSUME FileInv, Streams, NoneIsNoBucket, StoreAssumption, NEW x \in Trials,
         Flush(x) \/ Upload(x) \/ EndUpload(x)
  PROVE  FileInv' /\ Streams'
<1>1. IsSeq(streams[x].chunk)
  BY DEF Streams, Stream
<1>2. phase = "open"
  BY DEF Flush, Upload, EndUpload, serving
<1>3. CASE Flush(x)
  <2>1. CASE trials[x] # None
    <3>1. AddSamples(x, streams[x].chunk) /\ UNCHANGED <<history, phase, pending>>
      BY <1>3, <2>1 DEF Flush, quiet
    <3>2. \/ streams' = [streams EXCEPT ![x] = NoStream]
          \/ streams' = [streams EXCEPT ![x].chunk = <<>>]
      BY <1>3, <2>1 DEF Flush
    <3>3. FileInv'
      BY <1>1, <1>2, <2>1, <3>1, AddKeeps
    <3> QED BY <3>2, <3>3, StreamCleared, ChunkSet, EmptyIsSeq
  <2>2. CASE trials[x] = None /\ streams[x].kind = "ended"
    BY <1>3, <2>2, DieKeeps DEF Flush, Panic
  <2>3. CASE trials[x] = None /\ streams[x].kind # "ended"
    <3>1. UNCHANGED <<file, phase, pending>>
      BY <1>3, <2>3 DEF Flush, quiet, file
    <3>2. \/ streams' = [streams EXCEPT ![x].kind = "failing"]
          \/ streams' = [streams EXCEPT ![x] = NoStream]
      BY <1>3, <2>3 DEF Flush
    <3> QED BY <3>1, <3>2, FileStutters, KindSet, StreamCleared
  <2> QED BY <2>1, <2>2, <2>3
<1>4. CASE Upload(x)
  <2> DEFINE chunk == Append(streams[x].chunk, Logged(x, streams[x].next))
  <2>1. IsSeq(chunk)
    BY <1>1, AppendIsSeq
  <2>2. UNCHANGED <<history, phase, pending>>
    BY <1>4 DEF Upload, quiet
  <2>3. \/ /\ streams' = [streams EXCEPT ![x].next = @ + 1, ![x].chunk = chunk]
           /\ UNCHANGED <<trials, index, sequence>>
        \/ streams' = [streams EXCEPT ![x] = NoStream] /\ UNCHANGED <<trials, index, sequence>>
        \/ /\ trials[x] # None /\ AddSamples(x, chunk)
           /\ streams' = [streams EXCEPT ![x].next = @ + 1, ![x].chunk = <<>>]
    BY <1>4 DEF Upload
  <2>4. FileInv'
    <3> HIDE DEF chunk
    <3>1. CASE UNCHANGED <<trials, index, sequence>>
      BY <2>2, <3>1, FileStutters DEF file
    <3>2. CASE trials[x] # None /\ AddSamples(x, chunk)
      BY <1>2, <2>1, <2>2, <3>2, AddKeeps
    <3> QED BY <2>3, <3>1, <3>2
  <2>5. Streams'
    <3> HIDE DEF chunk
    <3> QED BY <2>1, <2>3, EmptyIsSeq, StreamCleared, ChunkSet
  <2> QED BY <2>4, <2>5
<1>5. CASE EndUpload(x)
  <2>1. streams' = [streams EXCEPT ![x] = NoStream] /\ UNCHANGED <<history, phase, pending>>
    BY <1>5 DEF EndUpload, quiet
  <2>2. CASE trials[x] # None /\ AddSamples(x, streams[x].chunk)
    BY <1>1, <1>2, <2>1, <2>2, AddKeeps, StreamCleared
  <2>3. CASE UNCHANGED <<trials, index, sequence>>
    BY <2>1, <2>3, FileStutters, StreamCleared DEF file
  <2> QED BY <1>5, <2>2, <2>3 DEF EndUpload
<1> QED BY <1>3, <1>4, <1>5

LEMMA LoggingKeeps ==
  ASSUME FileInv, Streams, NoneIsNoBucket, StoreAssumption, NEW x \in Trials, Logging(x)
  PROVE  FileInv' /\ Streams'
<1>1. ASSUME NEW kind, StartLog(x, kind) PROVE FileInv' /\ Streams'
  <2>1. PutTrial(x, kind) /\ phase = "open" /\ UNCHANGED <<history, phase, pending>>
        /\ streams' = [streams EXCEPT ![x].kind = "log"]
    BY <1>1 DEF StartLog, serving, quiet
  <2> QED BY <2>1, PutKeeps, KindSet
<1>2. ASSUME NEW kind, AddTrial(x, kind) PROVE FileInv' /\ Streams'
  <2>1. PutTrial(x, kind) /\ phase = "open" /\ UNCHANGED <<history, phase, pending, streams>>
    BY <1>2 DEF AddTrial, serving, quiet
  <2> QED BY <2>1, PutKeeps DEF Streams
<1>3. CASE StartUpload(x)
  <2>1. UNCHANGED <<file, phase, pending>> /\ streams' = [streams EXCEPT ![x].kind = "upload"]
    BY <1>3 DEF StartUpload, quiet, file
  <2> QED BY <2>1, FileStutters, KindSet
<1>4. CASE Log(x)
  <2> DEFINE chunk == Append(streams[x].chunk, Logged(x, streams[x].next))
  <2>1. IsSeq(chunk)
    BY AppendIsSeq DEF Streams, Stream
  <2>2. UNCHANGED <<file, phase, pending>>
    BY <1>4 DEF Log, quiet, file
  <2>3. \/ streams' = [streams EXCEPT ![x].kind = "stuck"]
        \/ streams' = [streams EXCEPT ![x].next = @ + 1, ![x].chunk = chunk]
    BY <1>4 DEF Log
  <2> HIDE DEF chunk
  <2> QED BY <2>1, <2>2, <2>3, FileStutters, KindSet, ChunkSet
<1>5. CASE EndLog(x)
  <2>1. CASE streams[x].kind = "failing"
    BY <1>5, <2>1, DieKeeps DEF EndLog, Panic
  <2>2. CASE streams[x].kind # "failing"
    <3>1. UNCHANGED <<file, phase, pending>>
      BY <1>5, <2>2 DEF EndLog, quiet, file
    <3>2. \/ streams' = [streams EXCEPT ![x] = NoStream]
          \/ streams' = [streams EXCEPT ![x].kind = "ended"]
      BY <1>5, <2>2 DEF EndLog
    <3> QED BY <3>1, <3>2, FileStutters, KindSet, StreamCleared
  <2> QED BY <2>1, <2>2
<1> QED BY <1>1, <1>2, <1>3, <1>4, <1>5, StoringKeeps DEF Logging

LEMMA RetrievingKeeps ==
  ASSUME FileInv, Streams, NEW r,
         \/ \E xs, filter : Retrieve(r, xs, filter)
         \/ \E x : ReadRound(r, x) \/ Give(r, x)
         \/ Finish(r) \/ Leave(r)
  PROVE  FileInv' /\ Streams'
<1>1. ASSUME NEW x, ReadRound(r, x), trials[x] = None PROVE FileInv' /\ Streams'
  BY <1>1, DieKeeps DEF ReadRound, Panic
<1>2. ASSUME NEW x, ReadRound(r, x), trials[x] # None PROVE callOnly
  BY <1>2 DEF ReadRound
<1>3. CASE callOnly
  BY <1>3, QuietKeeps DEF callOnly, quiet, file
<1> QED BY <1>1, <1>2, <1>3 DEF Retrieve, Give, Finish, Leave

LEMMA ListingKeeps ==
  ASSUME FileInv, Streams, NEW l, Listing(l) PROVE FileInv' /\ Streams'
<1>1. callOnly
  BY DEF Listing, StartList, List, Poll, Timeout, Reply, Set
<1> QED BY <1>1, QuietKeeps DEF callOnly, quiet, file

\* The steps of the datastore that no export or import takes part in.
LEMMA OthersKeep ==
  ASSUME FileInv, Streams, NoneIsNoBucket, StoreAssumption, Others
  PROVE  FileInv' /\ Streams'
<1>1. CASE Open \/ MigrateTrial \/ Migrated
  <2>1. UNCHANGED streams
    BY <1>1 DEF Open, MigrateTrial, Migrated, calls
  <2> QED BY <1>1, <2>1, OpenKeeps, MigrateTrialKeeps, MigratedKeeps DEF Streams
<1>2. CASE Crash
  BY <1>2, DieKeeps DEF Crash
<1>3. ASSUME NEW xs, Delete(xs) PROVE FileInv' /\ Streams'
  <2>1. Drop(xs) /\ phase = "open" /\ UNCHANGED <<history, phase, pending, streams>>
    BY <1>3 DEF Delete, serving, quiet
  <2> QED BY <2>1, DropKeeps DEF Streams
<1>4. ASSUME NEW r, Retrieving(r) PROVE FileInv' /\ Streams'
  BY <1>4, RetrievingKeeps DEF Retrieving
<1>5. ASSUME NEW x \in Trials, ReadRound(Exporter, x) PROVE FileInv' /\ Streams'
  BY <1>5, RetrievingKeeps
<1> QED BY <1>1, <1>2, <1>3, <1>4, <1>5, LoggingKeeps, ListingKeeps DEF Others

-----------------------------------------------------------------------------
(* Exports and imports                                                     *)

LEMMA TransfersStutter ==
  ASSUME Transfers, UNCHANGED clientVars PROVE Transfers'
BY DEF Transfers, clientVars

LEMMA WrittenHeader ==
  ASSUME NEW message, export.pos \in Nat, disk' = Written(message)
  PROVE  /\ disk' # <<>>
         /\ export.pos = 0 => disk'[1] = message
         /\ export.pos # 0 => disk'[1] = disk[1]
<1> DEFINE last == IF Len(disk) > export.pos THEN Len(disk) ELSE export.pos + 1
<1>1. disk' = [k \in 1..last |-> IF k = export.pos + 1 THEN message ELSE disk[k]]
  BY DEF Written
<1>2. 1 \in 1..last
  OBVIOUS
<1> HIDE DEF last
<1> QED BY <1>1, <1>2

LEMMA ImportSet ==
  ASSUME Transfers, NEW fields, ImportIs(fields), "is" \in DOMAIN fields => fields.is # "reading" \/ disk # <<>>
  PROVE  Transfers'
<1>1. DOMAIN import' = DOMAIN import
      /\ import'.is = (IF "is" \in DOMAIN fields THEN fields.is ELSE import.is)
  BY DEF ImportIs, Transfers
<1>2. UNCHANGED <<export, disk>>
  BY DEF ImportIs
<1> QED BY <1>1, <1>2 DEF Transfers

LEMMA ExportingKeeps ==
  ASSUME FileInv, Streams, Transfers,
         \/ \E xs \in SUBSET Trials : CountSamples(xs)
         \/ RefuseExport \/ AskSamples \/ EndExport
         \/ \E x \in Trials : Receive(x)
  PROVE  FileInv' /\ Streams' /\ Transfers'
<1>1. CASE \E xs \in SUBSET Trials : CountSamples(xs)
  <2>1. PICK xs \in SUBSET Trials : CountSamples(xs)
    BY <1>1
  <2>2. callOnly /\ UNCHANGED <<disk, import>>
    BY <2>1 DEF CountSamples
  <2>3. export'.is = "counted" /\ export'.pos = 0 /\ DOMAIN export'.left \subseteq xs
        /\ DOMAIN export' = {"is", "of", "left", "counted", "at", "pos"}
    BY <2>1 DEF CountSamples
  <2>4. Transfers'
    BY <2>2, <2>3 DEF Transfers
  <2> QED BY <2>2, <2>4, QuietKeeps DEF callOnly, quiet, file
<1>2. CASE RefuseExport
  <2>1. Transfers'
    BY <1>2 DEF RefuseExport, Fail, Transfers
  <2> QED BY <1>2, <2>1, QuietKeeps DEF RefuseExport, vars, calls
<1>3. CASE AskSamples
  <2>1. disk' = Written([header |-> DOMAIN export.left]) /\ export.pos = 0 /\ UNCHANGED import
    BY <1>3 DEF AskSamples, Transfers
  <2>2. disk' # <<>> /\ disk'[1].header \subseteq Trials
    BY <2>1, WrittenHeader DEF Transfers
  <2>3. \/ export' = [export EXCEPT !.is = "reading", !.pos = 1]
        \/ export' = [export EXCEPT !.is = "failed"]
    BY <1>3 DEF AskSamples
  <2>4. Transfers'
    <3>1. DOMAIN export' = DOMAIN export /\ export'.left = export.left
      BY <2>3 DEF Transfers
    <3>2. \/ export'.is = "reading" /\ export'.pos = 1
          \/ export'.is = "failed" /\ export'.pos = 0
      BY <2>1, <2>3 DEF Transfers
    <3> QED BY <2>1, <2>2, <3>1, <3>2 DEF Transfers
  <2>5. (\E r, xs, filter : Retrieve(r, xs, filter)) \/ UNCHANGED vars
    BY <1>3 DEF AskSamples
  <2> QED BY <2>4, <2>5, RetrievingKeeps, QuietKeeps DEF vars, calls
<1>4. CASE EndExport
  <2>1. UNCHANGED <<disk, import>> /\ \E is \in {"done", "failed"} : export' = [export EXCEPT !.is = is]
    BY <1>4 DEF EndExport, Fail
  <2>2. Transfers'
    BY <2>1 DEF Transfers
  <2>3. Leave(Exporter) \/ Finish(Exporter) \/ UNCHANGED vars
    BY <1>4 DEF EndExport
  <2> QED BY <2>2, <2>3, RetrievingKeeps, QuietKeeps DEF vars, calls
<1>5. ASSUME NEW x \in Trials, Receive(x) PROVE FileInv' /\ Streams' /\ Transfers'
  <2>1. FileInv' /\ Streams'
    BY <1>5, RetrievingKeeps DEF Receive
  <2>2. CASE x \notin DOMAIN export.left
    BY <1>5, <2>1, <2>2 DEF Receive, Transfers
  <2>3. CASE x \in DOMAIN export.left
    <3> DEFINE n == export.left[x] - 1
               others == DOMAIN export.left \ {x}
               rest == [y \in others |-> export.left[y]]
               less == [export.left EXCEPT ![x] = n]
    <3>1. \E message : disk' = Written(message)
      BY <1>5, <2>3 DEF Receive
    <3>2. export.is = "reading" /\ UNCHANGED import
      BY <1>5 DEF Receive
    <3>3. disk' # <<>> /\ disk'[1] = disk[1]
      BY <3>1, <3>2, WrittenHeader DEF Transfers
    <3>4. \E is \in {"reading", "closing"}, left \in {rest, less} :
            export' = [export EXCEPT !.pos = @ + 1, !.is = is, !.left = left]
      BY <1>5, <2>3, <3>2 DEF Receive
    <3>5. DOMAIN rest \subseteq Trials /\ DOMAIN less \subseteq Trials
      BY DEF Transfers
    <3> HIDE DEF rest, less
    <3>6. PICK is \in {"reading", "closing"}, left \in {rest, less} :
            export' = [export EXCEPT !.pos = @ + 1, !.is = is, !.left = left]
      BY <3>4
    <3>7. Transfers'
      BY <3>2, <3>3, <3>5, <3>6 DEF Transfers
    <3> QED BY <2>1, <3>7
  <2> QED BY <2>2, <2>3
<1> QED BY <1>1, <1>2, <1>3, <1>4, <1>5

LEMMA ImportingKeeps ==
  ASSUME FileInv, Streams, Transfers, NoneIsNoBucket, StoreAssumption, ClientsAssumption,
         CheckTrials \/ ImportSample \/ EndImport \/ \E kind \in Kinds : ImportTrial(kind)
  PROVE  FileInv' /\ Streams' /\ Transfers'
<1>1. CASE CheckTrials
  <2>1. Transfers'
    <3>1. disk # <<>> /\ (ImportIs([is |-> "failed"]) \/ ImportIs([is |-> "reading", pos |-> 1]))
      BY <1>1 DEF CheckTrials
    <3> QED BY <3>1, ImportSet
  <2> QED BY <1>1, <2>1, QuietKeeps DEF CheckTrials, vars, calls
<1>2. ASSUME NEW kind \in Kinds, ImportTrial(kind) PROVE FileInv' /\ Streams' /\ Transfers'
  <2> DEFINE x == NextSample.trial
  <2>1. CASE x \notin disk[1].header
    <3>1. ImportIs([is |-> "failed"]) /\ UNCHANGED vars
      BY <1>2, <2>1 DEF ImportTrial
    <3> QED BY <3>1, ImportSet, QuietKeeps DEF vars, calls
  <2>2. CASE x \in disk[1].header
    <3>1. x \in Trials
      BY <1>2, <2>2 DEF ImportTrial, MoreSamples, Transfers
    <3>2. Prefixed[x] \in Trials /\ AddTrial(Prefixed[x], kind)
      BY <1>2, <2>2, <3>1 DEF ImportTrial, ClientsAssumption
    <3>3. FileInv' /\ Streams'
      BY <3>2, LoggingKeeps DEF Logging
    <3>4. \E read, at : ImportIs([read |-> read, at |-> at])
      BY <1>2, <2>2 DEF ImportTrial
    <3> QED BY <3>3, <3>4, ImportSet
  <2> QED BY <2>1, <2>2
<1>3. CASE ImportSample
  <2> DEFINE to == Prefixed[NextSample.trial]
  <2>1. CASE to \notin Buckets
    <3>1. ImportIs([is |-> "failed"]) /\ UNCHANGED vars
      BY <1>3, <2>1 DEF ImportSample
    <3> QED BY <3>1, ImportSet, QuietKeeps DEF vars, calls
  <2>2. CASE to \in Buckets
    <3>1. /\ to \in Trials /\ trials[to] # None
          /\ AddSamples(to, <<[NextSample EXCEPT !.trial = to]>>)
          /\ phase = "open" /\ UNCHANGED <<history, phase, pending, streams>>
      BY <1>3, <2>2 DEF ImportSample, Buckets, serving, quiet, calls
    <3>2. FileInv'
      BY <3>1, OneIsSeq, AddKeeps
    <3>3. \E pos, read : ImportIs([pos |-> pos, read |-> read])
      BY <1>3, <2>2 DEF ImportSample
    <3> QED BY <3>1, <3>2, <3>3, ImportSet DEF Streams
  <2> QED BY <2>1, <2>2
<1>4. CASE EndImport
  <2>1. ImportIs([is |-> "done"]) \/ ImportIs([is |-> "failed"])
    BY <1>4 DEF EndImport
  <2>2. UNCHANGED vars
    BY <1>4 DEF EndImport
  <2> QED BY <2>1, <2>2, ImportSet, QuietKeeps DEF vars, calls
<1> QED BY <1>1, <1>2, <1>3, <1>4

LEMMA NextKeeps ==
  ASSUME IInv, NoneIsNoBucket, StoreAssumption, ClientsAssumption, [CNext]_allVars PROVE IInv'
<1>1. CASE Others /\ UNCHANGED clientVars
  BY <1>1, OthersKeep, TransfersStutter DEF IInv
<1>2. CASE UNCHANGED allVars
  BY <1>2, QuietKeeps, TransfersStutter DEF IInv, allVars, vars, calls
<1>3. CASE \/ \E xs \in SUBSET Trials \ {{}} : CountSamples(xs)
           \/ RefuseExport \/ AskSamples \/ EndExport
           \/ \E x \in Trials : Receive(x)
  BY <1>3, ExportingKeeps DEF IInv
<1>4. CASE CheckTrials \/ ImportSample \/ EndImport \/ \E kind \in Kinds : ImportTrial(kind)
  BY <1>4, ImportingKeeps DEF IInv
<1> QED BY <1>1, <1>2, <1>3, <1>4 DEF CNext

LEMMA InvStarts ==
  ASSUME CInit, NoneIsNoBucket, StoreAssumption PROVE IInv
<1>1. FileInv /\ Streams
  BY FileStarts, StreamsStart DEF CInit
<1>2. Transfers
  BY DEF CInit, Transfers, NoExport, NoImport
<1> QED BY <1>1, <1>2 DEF IInv

LEMMA InvSuffices == IInv => StoreConsistent
<1> SUFFICES ASSUME IInv PROVE StoreConsistent
  OBVIOUS
<1>1. CountsMatch
  BY DEF IInv, FileInv, Counted, Migration, Uncounted, CountsMatch, Buckets
<1> QED BY <1>1 DEF IInv, FileInv, StoreConsistent

\* The two buckets of the file agree on the trials and their positions, each count is
\* the number of samples, and no trial is served before it has its count, whatever is
\* logged, deleted, exported and imported, and wherever the process dies, in the
\* migration too.
THEOREM StoreIsConsistent == ASSUME NoneIsNoBucket PROVE CSpec => []StoreConsistent
<1>1. CInit => IInv
  BY InvStarts, StoreAssumption
<1>2. IInv /\ [CNext]_allVars => IInv'
  BY NextKeeps, StoreAssumption, ClientsAssumption
<1> QED BY <1>1, <1>2, InvSuffices, PTL DEF CSpec

-----------------------------------------------------------------------------
(* The positions a scan of the index comes to                              *)

Ascends(s) == \A j, k \in DOMAIN s : j < k => s[j] < s[k]

\* The elements of a finite set of integers, in their order.
LEMMA SortedFacts ==
  ASSUME NEW S, IsFiniteSet(S), S \subseteq Int
  PROVE  /\ Sorted(S) \in Seq(S) /\ Len(Sorted(S)) = Cardinality(S)
         /\ Ascends(Sorted(S))
         /\ \A n \in S : \E k \in DOMAIN Sorted(S) : Sorted(S)[k] = n
<1> DEFINE N == Cardinality(S)
           below(n) == {m \in S : m < n}
           rank(n) == Cardinality(below(n))
           f == [n \in S |-> rank(n) + 1]
<1>1. N \in Nat
  BY FS_CardinalityType
<1>2. ASSUME NEW n \in S PROVE IsFiniteSet(below(n)) /\ rank(n) \in Nat /\ rank(n) < N
  <2>1. below(n) \in SUBSET S /\ below(n) # S
    OBVIOUS
  <2>2. IsFiniteSet(below(n)) /\ rank(n) <= N /\ (N = rank(n) => S = below(n))
    BY <2>1, FS_Subset
  <2>3. rank(n) \in Nat
    BY <2>2, FS_CardinalityType
  <2> QED BY <1>1, <2>1, <2>2, <2>3
<1>3. ASSUME NEW m \in S, NEW n \in S, m < n PROVE rank(m) < rank(n)
  <2>1. below(m) \in SUBSET below(n) /\ m \in below(n) /\ m \notin below(m)
    <3>1. ASSUME NEW i \in below(m) PROVE i \in below(n)
      <4>1. i \in S /\ i < m /\ i \in Int /\ m \in Int /\ n \in Int
        OBVIOUS
      <4>2. i < n
        BY <1>3, <4>1
      <4> QED BY <4>1, <4>2
    <3>2. m \in below(n) /\ m \notin below(m)
      BY <1>3
    <3> QED BY <3>1, <3>2
  <2>2. rank(m) <= rank(n) /\ (rank(n) = rank(m) => below(n) = below(m))
    BY <1>2, <2>1, FS_Subset
  <2> QED BY <1>2, <2>1, <2>2
<1> HIDE DEF below, rank
<1>4. f \in Injection(S, 1..N)
  <2>1. f \in [S -> 1..N]
    BY <1>1, <1>2
  <2>2. ASSUME NEW m \in S, NEW n \in S, f[m] = f[n] PROVE m = n
    <3>1. rank(m) = rank(n)
      BY <1>2, <2>2
    <3>2. m \in Int /\ n \in Int
      OBVIOUS
    <3> QED BY <1>2, <1>3, <3>1, <3>2
  <2> QED BY <2>1, <2>2 DEF Injection, IsInjective
<1>5. f \in Surjection(S, 1..N)
  <2>1. IsFiniteSet(1..N) /\ Cardinality(1..N) = N
    BY <1>1, FS_Interval
  <2> QED BY <1>4, <2>1, FS_Injection
<1>6. ASSUME NEW k \in 1..N PROVE \E n \in S : rank(n) = k - 1
  <2>1. PICK n \in S : f[n] = k
    BY <1>5 DEF Surjection
  <2>2. rank(n) + 1 = k /\ rank(n) \in Nat
    BY <1>2, <2>1
  <2> QED BY <2>2
<1> DEFINE s == [k \in 1..N |-> CHOOSE n \in S : rank(n) = k - 1]
<1>7. ASSUME NEW k \in 1..N PROVE s[k] \in S /\ rank(s[k]) = k - 1
  BY <1>6
<1>8. Sorted(S) = s
  BY DEF Sorted, rank, below
<1>9. s \in Seq(S) /\ Len(s) = N /\ DOMAIN s = 1..N
  BY <1>1, <1>7
<1>10. ASSUME NEW j \in 1..N, NEW k \in 1..N, j < k PROVE s[j] < s[k]
  <2>1. s[j] \in S /\ s[k] \in S /\ rank(s[j]) = j - 1 /\ rank(s[k]) = k - 1
    BY <1>7
  <2>2. s[j] \in Int /\ s[k] \in Int
    BY <2>1
  <2> HIDE DEF s
  <2>3. ASSUME s[k] < s[j] PROVE FALSE
    <3>1. rank(s[k]) < rank(s[j])
      BY <1>3, <2>1, <2>3
    <3>2. k - 1 < j - 1
      BY <2>1, <3>1
    <3> QED BY <1>1, <1>10, <3>2
  <2>4. s[j] # s[k]
    BY <1>1, <1>10, <2>1
  <2> QED BY <2>2, <2>3, <2>4
<1>11. ASSUME NEW n \in S PROVE \E k \in 1..N : s[k] = n
  <2> DEFINE k == rank(n) + 1
  <2>1. k \in 1..N /\ rank(n) = k - 1
    BY <1>1, <1>2
  <2>2. s[k] \in S /\ rank(s[k]) = rank(n)
    BY <1>7, <2>1
  <2>3. s[k] \in Int /\ n \in Int /\ rank(n) \in Nat
    BY <1>2, <2>2
  <2>4. s[k] = n
    <3> HIDE DEF k, s
    <3> QED BY <1>3, <2>2, <2>3
  <2> QED BY <2>1, <2>4
<1> QED BY <1>8, <1>9, <1>10, <1>11 DEF Ascends

Sought(want, from) == {n \in DOMAIN index : n > from /\ Matches(want, index[n])}

LEMMA PositionsAreFinite ==
  ASSUME FileInv, NEW S \in SUBSET DOMAIN index PROVE IsFiniteSet(S) /\ S \subseteq Nat
<1>1. DOMAIN index \subseteq 1..sequence /\ sequence \in Nat
  BY DEF FileInv, Shape, IndexMatches
<1>2. IsFiniteSet(1..sequence)
  BY <1>1, FS_Interval
<1>3. S \in SUBSET (1..sequence)
  BY <1>1
<1> QED BY <1>1, <1>2, <1>3, FS_Subset

\* What a scan finds is in order and skips no trial that matches; what it does not
\* come to is behind all it found.
LEMMA FoundFacts ==
  ASSUME FileInv, NEW want, NEW from \in Nat, NEW count \in Int
  PROVE  LET found == Found(want, from, count) IN
         /\ found \in Seq(Nat) /\ Ascends(found)
         /\ \A k \in DOMAIN found : found[k] \in Sought(want, from)
         /\ \A n \in Sought(want, from) :
              \/ \E k \in DOMAIN found : found[k] = n
              \/ count # 0 /\ ~(Len(found) < count) /\ \A k \in DOMAIN found : n > found[k]
         /\ count > 0 => Len(found) <= count
<1> DEFINE S == Sought(want, from)
           all == Sorted(S)
           found == Found(want, from, count)
<1>1. IsFiniteSet(S) /\ S \subseteq Nat
  BY PositionsAreFinite DEF Sought
<1>2. /\ all \in Seq(S) /\ Ascends(all)
      /\ \A n \in S : \E k \in DOMAIN all : all[k] = n
  BY <1>1, SortedFacts
<1>3. found = IF count = 0 \/ Len(all) <= count THEN all ELSE SubSeq(all, 1, count)
  BY DEF Found, Sought
<1> HIDE DEF S, all, found
<1>4. Len(all) \in Nat /\ DOMAIN all = 1..Len(all) /\ all \in Seq(Nat) /\ \A k \in DOMAIN all : all[k] \in S
  <2>1. Len(all) \in Nat /\ DOMAIN all = 1..Len(all) /\ \A k \in 1..Len(all) : all[k] \in S
    BY <1>2
  <2>2. all \in [1..Len(all) -> S]
    BY <1>2
  <2>3. all \in [1..Len(all) -> Nat]
    BY <1>1, <2>2
  <2>4. all \in Seq(Nat)
    BY <2>1, <2>3
  <2> QED BY <2>1, <2>4
<1>5. CASE count = 0 \/ Len(all) <= count
  BY <1>2, <1>3, <1>4, <1>5 DEF found, S
<1>6. CASE count # 0 /\ ~(Len(all) <= count)
  <2>1. found = SubSeq(all, 1, count)
    BY <1>3, <1>6
  <2>2. CASE count > 0
    <3>1. /\ found \in Seq(Nat) /\ Len(found) = count /\ DOMAIN found = 1..count
          /\ \A k \in 1..count : k \in DOMAIN all /\ found[k] = all[k]
      BY <1>4, <1>6, <2>1, <2>2
    <3>2. Ascends(found)
      BY <1>2, <3>1 DEF Ascends
    <3>3. ASSUME NEW n \in S
          PROVE  (\E k \in DOMAIN found : found[k] = n) \/ \A k \in DOMAIN found : n > found[k]
      <4>1. PICK m \in DOMAIN all : all[m] = n
        BY <1>2
      <4>2. CASE m \in 1..count
        BY <3>1, <4>1, <4>2
      <4>3. CASE m \notin 1..count
        <5>1. \A k \in 1..count : k < m
          BY <1>4, <4>1, <4>3
        <5>2. \A k \in 1..count : all[k] < n
          BY <1>2, <3>1, <4>1, <5>1 DEF Ascends
        <5> QED BY <1>4, <3>1, <4>1, <5>2
      <4> QED BY <4>2, <4>3
    <3> QED BY <1>4, <1>6, <3>1, <3>2, <3>3 DEF found, S
  <2>3. CASE count < 0
    <3>1. found = <<>> /\ Len(found) = 0 /\ DOMAIN found = {}
      BY <2>1, <2>3
    <3>2. Ascends(found) /\ found \in Seq(Nat)
      BY <3>1 DEF Ascends
    <3> QED BY <2>3, <3>1, <3>2 DEF found, S
  <2> QED BY <1>6, <2>2, <2>3
<1> QED BY <1>4, <1>5, <1>6

\* The handle of a full page skips nothing that is behind the page.
LEMMA NextFacts ==
  ASSUME FileInv, NEW found \in Seq(Nat), Ascends(found), NEW count \in Int,
         \A k \in DOMAIN found : found[k] \in DOMAIN index,
         count > 0 => Len(found) <= count
  PROVE  LET next == NextFrom(found, count) IN
         /\ next \in Nat /\ \A k \in DOMAIN found : found[k] <= next
         /\ count > 0 /\ ~(Len(found) < count) =>
              \A n \in DOMAIN index : (\A k \in DOMAIN found : n > found[k]) => next < n
<1> DEFINE after == {n \in DOMAIN index : \A k \in DOMAIN found : n > found[k]}
           least == CHOOSE n \in after : \A m \in after : n <= m
           next == NextFrom(found, count)
           full == count > 0 /\ Len(found) = count /\ after # {}
<1>1. next = IF full THEN least - 1 ELSE sequence
  BY DEF NextFrom
<1>2. sequence \in Nat /\ \A n \in DOMAIN index : n \in 1..sequence
  BY DEF FileInv, Shape, IndexMatches
<1>3. CASE full
  <2>1. IsFiniteSet(after) /\ after \subseteq Nat
    BY PositionsAreFinite
  <2>2. \E n \in after : \A m \in after : n <= m
    <3> DEFINE s == Sorted(after)
    <3>1. after # {}
      BY <1>3
    <3> HIDE DEF after
    <3>2. s \in Seq(after) /\ Ascends(s) /\ \A n \in after : \E k \in DOMAIN s : s[k] = n
      <4>1. after \subseteq Int
        BY <2>1
      <4> QED BY <2>1, <4>1, SortedFacts
    <3> HIDE DEF s
    <3>3. DOMAIN s = 1..Len(s) /\ Len(s) \in Nat /\ Len(s) # 0
      BY <3>1, <3>2
    <3>4. 1 \in DOMAIN s /\ s[1] \in after
      BY <3>2, <3>3
    <3>5. ASSUME NEW m \in after PROVE s[1] <= m
      <4>1. PICK k \in DOMAIN s : s[k] = m
        BY <3>2
      <4>2. s[1] \in Nat /\ m \in Nat
        BY <2>1, <3>4
      <4>3. k = 1 \/ s[1] < s[k]
        BY <3>2, <3>3, <3>4 DEF Ascends
      <4> QED BY <4>1, <4>2, <4>3
    <3> QED BY <3>4, <3>5
  <2>3. least \in after /\ \A m \in after : least <= m
    BY <2>2
  <2> HIDE DEF least
  <2>4. least \in 1..sequence /\ \A k \in DOMAIN found : found[k] \in Nat /\ least > found[k]
    BY <1>2, <2>3
  <2>5. next = least - 1
    BY <1>1, <1>3
  <2>6. next \in Nat /\ \A k \in DOMAIN found : found[k] <= next
    BY <1>2, <2>4, <2>5
  <2>7. \A n \in after : next < n
    BY <1>2, <2>1, <2>3, <2>4, <2>5
  <2> QED BY <2>6, <2>7
<1>4. CASE ~full
  <2>1. next = sequence
    BY <1>1, <1>4
  <2>2. \A k \in DOMAIN found : found[k] <= next
    BY <1>2, <2>1
  <2>3. count > 0 /\ ~(Len(found) < count) => after = {}
    <3>1. Len(found) \in Nat
      OBVIOUS
    <3> HIDE DEF after
    <3> QED BY <1>4, <3>1
  <2> QED BY <1>2, <2>1, <2>2, <2>3
<1> QED BY <1>3, <1>4

-----------------------------------------------------------------------------
(* Pages                                                                   *)

ListerFields == {"is", "want", "from", "timed", "page", "next", "got", "stay"}
Rising(s) ==
  /\ IsSeq(s) /\ \A k \in DOMAIN s : s[k][1] \in Nat
  /\ \A j, k \in DOMAIN s : j < k => s[j][1] < s[k][1]
Has(s, x) == \E k \in DOMAIN s : s[k] = <<trials[x].idx, x>>

\* What a client has is behind the handle it goes on from, and the page that is made
\* for it lies between that handle and the next one.
Paged(l) ==
  LET now == lister[l] IN
  /\ DOMAIN now = ListerFields /\ now.from \in Nat /\ now.next \in Nat
  /\ Rising(now.got) /\ Rising(now.page)
  /\ now.is = "idle" => now.got = <<>> /\ now.page = <<>> /\ now.from = 0
  /\ now.is = "waiting" => now.timed
  /\ now.is \in {"asking", "waiting", "params"} =>
       now.want \in Wanted /\ \A k \in DOMAIN now.got : now.got[k][1] <= now.from
  /\ now.is \in {"waiting", "params"} =>
       \A k \in DOMAIN now.page : now.from < now.page[k][1] /\ now.page[k][1] <= now.next

\* The trials it may count on and that the handle is past are among what it has.
Skipless(l) ==
  LET now == lister[l] IN
  /\ \A x \in now.stay : x \in Buckets /\ Matches(now.want, x)
  /\ ~now.timed =>
       /\ now.is \in {"asking", "params"} =>
            \A x \in now.stay : trials[x].idx <= now.from => Has(now.got, x)
       /\ now.is = "params" =>
            \A x \in now.stay : trials[x].idx <= now.next \/ Len(now.page) < PageSize =>
              Has(now.got, x) \/ Has(now.page, x)
       /\ now.is = "done" => \A x \in now.stay : Has(now.got, x)

LInv == DOMAIN lister = Listers /\ \A l \in Listers : Paged(l) /\ Skipless(l)

LEMMA ConcatFacts ==
  ASSUME NEW s, IsSeq(s), NEW t, IsSeq(t)
  PROVE  /\ IsSeq(s \o t) /\ Len(s \o t) = Len(s) + Len(t)
         /\ DOMAIN (s \o t) = 1..(Len(s) + Len(t))
         /\ DOMAIN s = 1..Len(s) /\ DOMAIN t = 1..Len(t) /\ Len(s) \in Nat /\ Len(t) \in Nat
         /\ \A k \in 1..Len(s) : (s \o t)[k] = s[k]
         /\ \A k \in 1..Len(t) : (s \o t)[Len(s) + k] = t[k]
<1>1. PICK S : s \in Seq(S)
  BY DEF IsSeq
<1>2. PICK T : t \in Seq(T)
  BY DEF IsSeq
<1>3. s \in Seq(S \cup T) /\ t \in Seq(S \cup T)
  BY <1>1, <1>2
<1>4. s \o t \in Seq(S \cup T)
  BY <1>3
<1>5. IsSeq(s \o t)
  BY <1>4 DEF IsSeq
<1>6. /\ Len(s \o t) = Len(s) + Len(t) /\ DOMAIN (s \o t) = 1..(Len(s) + Len(t))
      /\ DOMAIN s = 1..Len(s) /\ DOMAIN t = 1..Len(t) /\ Len(s) \in Nat /\ Len(t) \in Nat
  BY <1>3
<1>7. /\ \A k \in 1..Len(s) : (s \o t)[k] = s[k]
      /\ \A k \in 1..Len(t) : (s \o t)[Len(s) + k] = t[k]
  BY <1>3
<1> QED BY <1>5, <1>6, <1>7

LEMMA RisingConcat ==
  ASSUME NEW s, Rising(s), NEW t, Rising(t),
         \A j \in DOMAIN s, k \in DOMAIN t : s[j][1] < t[k][1]
  PROVE  /\ Rising(s \o t)
         /\ \A i \in DOMAIN (s \o t) : \/ \E j \in DOMAIN s : (s \o t)[i] = s[j]
                                       \/ \E k \in DOMAIN t : (s \o t)[i] = t[k]
         /\ \A x : Has(s, x) \/ Has(t, x) => Has(s \o t, x)
<1> DEFINE c == s \o t
           m == Len(s)
           n == Len(t)
<1>1. /\ IsSeq(c) /\ DOMAIN c = 1..(m + n) /\ DOMAIN s = 1..m /\ DOMAIN t = 1..n
      /\ m \in Nat /\ n \in Nat
      /\ \A k \in 1..m : c[k] = s[k]
      /\ \A k \in 1..n : c[m + k] = t[k]
  BY ConcatFacts DEF Rising
<1> HIDE DEF c, m, n
<1>2. ASSUME NEW i \in DOMAIN c
      PROVE  \/ i \in DOMAIN s /\ c[i] = s[i]
             \/ i - m \in DOMAIN t /\ m < i /\ c[i] = t[i - m]
  <2>1. CASE i <= m
    BY <1>1, <2>1
  <2>2. CASE i > m
    <3>1. i - m \in 1..n /\ m + (i - m) = i
      BY <1>1, <2>2
    <3> QED BY <1>1, <2>2, <3>1
  <2> QED BY <1>1, <2>1, <2>2
<1>3. \A k \in DOMAIN s : k \in DOMAIN c /\ c[k] = s[k]
  BY <1>1
<1>4. \A k \in DOMAIN t : m + k \in DOMAIN c /\ c[m + k] = t[k]
  BY <1>1
<1>5. \A i \in DOMAIN c : c[i][1] \in Nat
  BY <1>2 DEF Rising
<1>6. ASSUME NEW i \in DOMAIN c, NEW j \in DOMAIN c, i < j PROVE c[i][1] < c[j][1]
  <2>1. CASE i \in DOMAIN s /\ c[i] = s[i] /\ j \in DOMAIN s /\ c[j] = s[j]
    BY <1>6, <2>1 DEF Rising
  <2>2. CASE i \in DOMAIN s /\ c[i] = s[i] /\ j - m \in DOMAIN t /\ c[j] = t[j - m]
    BY <2>2
  <2>3. CASE i - m \in DOMAIN t /\ c[i] = t[i - m] /\ j - m \in DOMAIN t /\ c[j] = t[j - m]
    <3>1. i - m < j - m
      BY <1>1, <1>6
    <3> QED BY <2>3, <3>1 DEF Rising
  <2>4. CASE m < i /\ j \in DOMAIN s
    BY <1>1, <1>6, <2>4
  <2> QED BY <1>2, <2>1, <2>2, <2>3, <2>4
<1>7. Rising(c)
  BY <1>1, <1>5, <1>6 DEF Rising
<1>8. \A x : Has(s, x) \/ Has(t, x) => Has(c, x)
  BY <1>3, <1>4 DEF Has
<1> QED BY <1>2, <1>7, <1>8 DEF c

LEMMA EmptyRises == Rising(<<>>)
BY EmptyIsSeq DEF Rising

LEMMA PageFacts ==
  ASSUME NEW found \in Seq(Nat), Ascends(found)
  PROVE  /\ Rising(Page(found)) /\ Len(Page(found)) = Len(found) /\ DOMAIN Page(found) = DOMAIN found
         /\ \A k \in DOMAIN found : Page(found)[k] = <<found[k], index[found[k]]>> /\ Page(found)[k][1] = found[k]
<1> DEFINE P == Page(found)
           R == {<<found[k], index[found[k]]>> : k \in DOMAIN found}
<1>1. DOMAIN found = 1..Len(found) /\ Len(found) \in Nat /\ \A k \in DOMAIN found : found[k] \in Nat
  OBVIOUS
<1>2. DOMAIN P = DOMAIN found /\ \A k \in DOMAIN found : P[k] = <<found[k], index[found[k]]>> /\ P[k][1] = found[k]
  BY DEF Page
<1>3. P \in [1..Len(found) -> R]
  BY <1>1 DEF Page
<1>4. P \in Seq(R) /\ Len(P) = Len(found)
  <2> HIDE DEF P, R
  <2> QED BY <1>1, <1>3
<1>5. Rising(P)
  <2>1. IsSeq(P)
    BY <1>4 DEF IsSeq
  <2> HIDE DEF P
  <2> QED BY <1>1, <1>2, <2>1 DEF Rising, Ascends
<1> QED BY <1>2, <1>4, <1>5

\* Trials are created, updated, filled and deleted; a client stops counting on those
\* that are gone or match no more.
LEMMA ShrinkKeeps ==
  ASSUME NEW l, Paged(l), Skipless(l), DOMAIN lister'[l] = ListerFields,
         \A f \in ListerFields \ {"stay"} : lister'[l][f] = lister[l][f],
         NEW stay, stay \subseteq lister[l].stay, lister'[l].stay = stay,
         \A x \in stay : /\ trials'[x] # None /\ trials'[x].idx = trials[x].idx
                         /\ Selects(lister[l].want.kinds, trials'[x].kind)
  PROVE  Paged(l)' /\ Skipless(l)'
<1> DEFINE now == lister[l]
           then == lister'[l]
<1>1. /\ DOMAIN then = ListerFields /\ then.stay = stay /\ then.is = now.is /\ then.want = now.want
      /\ then.from = now.from /\ then.timed = now.timed /\ then.page = now.page /\ then.next = now.next
      /\ then.got = now.got
  BY DEF Paged, ListerFields
<1>2. Paged(l)'
  BY <1>1 DEF Paged
<1>3. ASSUME NEW x \in stay PROVE (x \in Buckets /\ Matches(now.want, x))'
  BY <1>1, <1>3 DEF Skipless, Buckets, Matches
<1>4. ASSUME NEW x \in stay
      PROVE  /\ x \in now.stay /\ trials'[x].idx = trials[x].idx
             /\ Has(now.got, x)' <=> Has(now.got, x)
             /\ Has(now.page, x)' <=> Has(now.page, x)
  BY <1>1 DEF Has
<1>5. ASSUME ~now.timed
      PROVE  /\ now.is \in {"asking", "params"} =>
                  \A x \in stay : trials'[x].idx <= now.from => Has(now.got, x)'
             /\ now.is = "params" =>
                  \A x \in stay : trials'[x].idx <= now.next \/ Len(now.page) < PageSize =>
                    Has(now.got, x)' \/ Has(now.page, x)'
             /\ now.is = "done" => \A x \in stay : Has(now.got, x)'
  BY <1>4, <1>5 DEF Skipless
<1>6. Skipless(l)'
  BY <1>1, <1>3, <1>5 DEF Skipless
<1> QED BY <1>2, <1>6

LEMMA SetFacts ==
  ASSUME NEW l, l \in DOMAIN lister, DOMAIN lister[l] = ListerFields, NEW fields, Set(l, fields)
  PROVE  /\ DOMAIN lister' = DOMAIN lister /\ \A m \in DOMAIN lister : m # l => lister'[m] = lister[m]
         /\ DOMAIN lister'[l] = ListerFields
         /\ \A f \in ListerFields : lister'[l][f] = IF f \in DOMAIN fields THEN fields[f] ELSE lister[l][f]
         /\ UNCHANGED <<file, phase, pending, streams>>
<1> DEFINE e == [f \in ListerFields |-> IF f \in DOMAIN fields THEN fields[f] ELSE lister[l][f]]
<1>1. lister' = [lister EXCEPT ![l] = e]
  BY DEF Set
<1>2. UNCHANGED <<file, phase, pending, streams>>
  BY DEF Set, callOnly, quiet, file
<1>3. DOMAIN e = ListerFields /\ \A f \in ListerFields : e[f] = IF f \in DOMAIN fields THEN fields[f] ELSE lister[l][f]
  OBVIOUS
<1> HIDE DEF e
<1> QED BY <1>1, <1>2, <1>3

\* A client's step leaves the others and the trials alone.
LEMMA OneLister ==
  ASSUME LInv, NEW l \in Listers, UNCHANGED trials,
         DOMAIN lister' = DOMAIN lister, \A m \in DOMAIN lister : m # l => lister'[m] = lister[m],
         Paged(l)', Skipless(l)'
  PROVE  LInv'
<1>1. ASSUME NEW m \in Listers, m # l PROVE Paged(m)' /\ Skipless(m)'
  <2>1. Paged(m) /\ Skipless(m) /\ lister'[m] = lister[m]
    BY <1>1 DEF LInv
  <2>2. DOMAIN lister'[m] = ListerFields /\ \A f \in ListerFields \ {"stay"} : lister'[m][f] = lister[m][f]
    BY <2>1 DEF Paged
  <2>3. \A x \in lister[m].stay : /\ trials'[x] # None /\ trials'[x].idx = trials[x].idx
                                  /\ Selects(lister[m].want.kinds, trials'[x].kind)
    BY <2>1 DEF Skipless, Buckets, Matches
  <2> QED BY <2>1, <2>2, <2>3, ShrinkKeeps
<1> QED BY <1>1 DEF LInv

LEMMA StartListKeeps ==
  ASSUME FileInv, LInv, NEW l \in Listers, NEW want \in Wanted, NEW timed \in BOOLEAN, StartList(l, want, timed)
  PROVE  LInv'
<1> DEFINE now == lister[l]
           then == lister'[l]
           is == IF timed THEN "waiting" ELSE "asking"
           stay == {x \in Buckets : Matches(want, x)}
<1>1. now.is = "idle" /\ Set(l, [is |-> is, want |-> want, timed |-> timed, stay |-> stay])
  BY DEF StartList, At
<1>2. Paged(l)
  BY DEF LInv
<1>3. /\ now.from = 0 /\ now.next \in Nat /\ now.page = <<>> /\ now.got = <<>>
  BY <1>1, <1>2 DEF Paged
<1> HIDE DEF is, stay
<1>4. /\ DOMAIN lister' = DOMAIN lister /\ \A m \in DOMAIN lister : m # l => lister'[m] = lister[m]
      /\ DOMAIN then = ListerFields /\ UNCHANGED file
      /\ then.is = is /\ then.want = want /\ then.timed = timed /\ then.stay = stay
      /\ then.from = now.from /\ then.next = now.next /\ then.page = now.page /\ then.got = now.got
  BY <1>1, <1>2, SetFacts DEF LInv, Paged, ListerFields
<1>5. UNCHANGED trials
  BY <1>4 DEF file
<1>6. is \in {"waiting", "asking"} /\ (is = "waiting" => timed)
  BY DEF is
<1>7. Paged(l)'
  <2> HIDE DEF now, then
  <2> QED BY <1>3, <1>4, <1>6, EmptyRises DEF Paged, then
<1>8. Skipless(l)'
  <2>1. ASSUME NEW x \in stay PROVE (x \in Buckets /\ Matches(want, x))' /\ trials'[x].idx > 0 /\ trials'[x].idx \in Nat
    BY <1>5, <2>1 DEF stay, Buckets, Matches, FileInv, Shape, IndexMatches
  <2>2. ASSUME NEW x \in stay PROVE ~(trials'[x].idx <= then.from)
    BY <1>3, <1>4, <2>1
  <2> QED BY <1>4, <1>6, <2>1, <2>2 DEF Skipless
<1> QED BY <1>4, <1>5, <1>7, <1>8, OneLister

\* The page that is made from a scan.
LEMMA ListKeeps ==
  ASSUME FileInv, LInv, StoreAssumption, NEW l \in Listers, List(l)
  PROVE  LInv'
<1> DEFINE now == lister[l]
           then == lister'[l]
           found == Found(now.want, now.from, PageSize)
           next == NextFrom(found, PageSize)
<1>1. now.is = "asking" /\ Set(l, [is |-> "params", page |-> Page(found), next |-> next])
  BY DEF List, At
<1>2. Paged(l) /\ Skipless(l)
  BY DEF LInv
<1>3. /\ now.from \in Nat /\ Rising(now.got) /\ now.want \in Wanted /\ \A k \in DOMAIN now.got : now.got[k][1] <= now.from
  BY <1>1, <1>2 DEF Paged
<1>4. PageSize \in Int /\ PageSize > 0
  BY DEF StoreAssumption
<1>5. /\ found \in Seq(Nat) /\ Ascends(found)
      /\ \A k \in DOMAIN found : found[k] \in Sought(now.want, now.from)
      /\ \A n \in Sought(now.want, now.from) :
           \/ \E k \in DOMAIN found : found[k] = n
           \/ PageSize # 0 /\ ~(Len(found) < PageSize) /\ \A k \in DOMAIN found : n > found[k]
      /\ PageSize > 0 => Len(found) <= PageSize
  BY <1>3, <1>4, FoundFacts
<1> HIDE DEF found
<1>6. \A k \in DOMAIN found : found[k] \in DOMAIN index /\ found[k] > now.from
  BY <1>5 DEF Sought
<1>7. /\ next \in Nat /\ \A k \in DOMAIN found : found[k] <= next
      /\ ~(Len(found) < PageSize) =>
           \A n \in DOMAIN index : (\A k \in DOMAIN found : n > found[k]) => next < n
  BY <1>4, <1>5, <1>6, NextFacts
<1> HIDE DEF next
<1>8. /\ DOMAIN lister' = DOMAIN lister /\ \A m \in DOMAIN lister : m # l => lister'[m] = lister[m]
      /\ DOMAIN then = ListerFields /\ UNCHANGED file
      /\ then.is = "params" /\ then.page = Page(found) /\ then.next = next
      /\ then.want = now.want /\ then.timed = now.timed /\ then.stay = now.stay
      /\ then.from = now.from /\ then.got = now.got
  BY <1>1, <1>2, SetFacts DEF LInv, Paged, ListerFields
<1>9. UNCHANGED <<trials, index>>
  BY <1>8 DEF file
<1>10. /\ Rising(Page(found)) /\ Len(Page(found)) = Len(found) /\ DOMAIN Page(found) = DOMAIN found
       /\ \A k \in DOMAIN found : Page(found)[k] = <<found[k], index[found[k]]>> /\ Page(found)[k][1] = found[k]
  BY <1>5, PageFacts
<1> DEFINE page == Page(found)
<1>11. /\ Rising(page) /\ Len(page) = Len(found)
       /\ \A k \in DOMAIN page : now.from < page[k][1] /\ page[k][1] <= next
  BY <1>3, <1>5, <1>6, <1>7, <1>10
<1>12. Paged(l)'
  <2> HIDE DEF now, then, page
  <2>1. then.page = page
    BY <1>8 DEF page
  <2> QED BY <1>3, <1>7, <1>8, <1>11, <2>1 DEF Paged, then
<1>13. ASSUME ~now.timed, NEW x \in now.stay
       PROVE  /\ trials[x].idx <= now.from => Has(now.got, x)
              /\ trials[x].idx <= next \/ Len(page) < PageSize => Has(now.got, x) \/ Has(page, x)
  <2> DEFINE n == trials[x].idx
  <2>1. x \in Buckets /\ Matches(now.want, x)
    BY <1>2 DEF Skipless
  <2>2. n <= now.from => Has(now.got, x)
    BY <1>1, <1>2, <1>13 DEF Skipless
  <2>3. n \in DOMAIN index /\ index[n] = x /\ n \in Nat
    BY <2>1 DEF FileInv, Shape, IndexMatches
  <2>4. CASE n > now.from
    <3>1. n \in Sought(now.want, now.from)
      BY <2>1, <2>3, <2>4 DEF Sought
    <3>2. CASE \E k \in DOMAIN found : found[k] = n
      <4>1. PICK k \in DOMAIN found : found[k] = n
        BY <3>2
      <4>2. k \in DOMAIN page /\ page[k] = <<n, x>>
        BY <1>10, <2>3, <4>1
      <4> QED BY <2>2, <4>2 DEF Has
    <3>3. CASE ~(Len(found) < PageSize) /\ \A k \in DOMAIN found : n > found[k]
      <4>1. next < n
        BY <1>7, <2>3, <3>3
      <4> QED BY <1>3, <1>7, <1>11, <2>2, <2>3, <3>3, <4>1
    <3> QED BY <1>5, <2>2, <3>1, <3>2, <3>3
  <2> QED BY <1>3, <2>2, <2>3, <2>4
<1>14. Skipless(l)'
  <2>1. \A x \in now.stay : (x \in Buckets /\ Matches(now.want, x))'
    BY <1>2, <1>8, <1>9 DEF Skipless, Buckets, Matches
  <2>2. ASSUME ~now.timed, NEW x \in now.stay
        PROVE  /\ trials'[x].idx <= then.from => Has(now.got, x)'
               /\ trials'[x].idx <= then.next \/ Len(then.page) < PageSize =>
                    Has(now.got, x)' \/ Has(now.page, x)'
    <3>1. (Has(now.got, x)' <=> Has(now.got, x)) /\ (Has(now.page, x)' <=> Has(page, x))
      BY <1>8, <1>9 DEF Has
    <3> QED BY <1>8, <1>9, <1>13, <2>2, <3>1
  <2> QED BY <1>8, <2>1, <2>2 DEF Skipless
<1> QED BY <1>8, <1>9, <1>12, <1>14, OneLister

\* A poll goes on where the last one stopped.
LEMMA PollKeeps ==
  ASSUME FileInv, LInv, StoreAssumption, NEW l \in Listers, Poll(l)
  PROVE  LInv'
<1> DEFINE now == lister[l]
           then == lister'[l]
           size == IF now.want.ids = {} \/ Cardinality(now.want.ids) >= PageSize THEN PageSize
                   ELSE Cardinality(now.want.ids)
           remaining == size - Len(now.page)
           from == IF now.page = <<>> THEN now.from ELSE now.next
           found == Found(now.want, from, remaining)
           next == NextFrom(found, remaining)
           is == IF Len(found) = remaining THEN "params" ELSE "waiting"
           page == Page(found)
           whole == now.page \o page
<1>1. now.is = "waiting" /\ Set(l, [is |-> is, page |-> whole, next |-> next])
  BY DEF Poll, At
<1>2. Paged(l) /\ Skipless(l)
  BY DEF LInv
<1>3. /\ now.from \in Nat /\ now.next \in Nat /\ Rising(now.got) /\ Rising(now.page)
      /\ now.timed /\ now.want \in Wanted
      /\ \A k \in DOMAIN now.got : now.got[k][1] <= now.from
      /\ \A k \in DOMAIN now.page : now.from < now.page[k][1] /\ now.page[k][1] <= now.next
  BY <1>1, <1>2 DEF Paged
<1>4. remaining \in Int
  <2>1. Cardinality(now.want.ids) \in Nat
    BY <1>3, FS_CardinalityType DEF StoreAssumption
  <2>2. Len(now.page) \in Nat
    BY <1>3 DEF Rising, IsSeq
  <2> QED BY <2>1, <2>2 DEF StoreAssumption
<1>5. /\ from \in Nat /\ now.from <= from
      /\ \A k \in DOMAIN now.page : now.page[k][1] <= from
  <2>1. CASE now.page = <<>>
    BY <1>3, <2>1
  <2>2. CASE now.page # <<>>
    <3>1. 1 \in DOMAIN now.page /\ now.page[1][1] \in Nat
      BY <1>3, <2>2 DEF Rising, IsSeq
    <3> QED BY <1>3, <2>2, <3>1
  <2> QED BY <2>1, <2>2
<1> HIDE DEF remaining, from, whole
<1>6. /\ found \in Seq(Nat) /\ Ascends(found)
      /\ \A k \in DOMAIN found : found[k] \in Sought(now.want, from)
      /\ remaining > 0 => Len(found) <= remaining
  BY <1>4, <1>5, FoundFacts
<1> HIDE DEF found
<1>7. \A k \in DOMAIN found : found[k] \in DOMAIN index /\ found[k] > from /\ found[k] \in Nat
  BY <1>6 DEF Sought
<1>8. next \in Nat /\ \A k \in DOMAIN found : found[k] <= next
  BY <1>4, <1>6, <1>7, NextFacts
<1>9. found # <<>>
  BY DEF Poll, found, remaining, size, from
<1>10. from < next
  <2>1. 1 \in DOMAIN found
    BY <1>6, <1>9
  <2> QED BY <1>5, <1>7, <1>8, <2>1
<1> HIDE DEF next, is
<1>11. /\ Rising(page) /\ DOMAIN page = DOMAIN found
       /\ \A k \in DOMAIN found : page[k][1] = found[k]
  BY <1>6, PageFacts
<1> HIDE DEF page
<1>12. /\ Rising(whole)
       /\ \A i \in DOMAIN whole : \/ \E j \in DOMAIN now.page : whole[i] = now.page[j]
                                  \/ \E k \in DOMAIN page : whole[i] = page[k]
  <2>1. ASSUME NEW j \in DOMAIN now.page, NEW k \in DOMAIN page PROVE now.page[j][1] < page[k][1]
    <3>1. now.page[j][1] \in Nat /\ now.page[j][1] <= from
      BY <1>3, <1>5 DEF Rising
    <3>2. page[k][1] \in Nat /\ page[k][1] > from
      BY <1>7, <1>11
    <3> QED BY <1>5, <3>1, <3>2
  <2> DEFINE s == now.page
  <2>2. Rising(s) /\ Rising(page)
    BY <1>3, <1>11
  <2> HIDE DEF s
  <2>3. \A j \in DOMAIN s, k \in DOMAIN page : s[j][1] < page[k][1]
    BY <2>1 DEF s
  <2>4. whole = s \o page
    BY DEF whole, s
  <2> HIDE DEF now
  <2>5. Rising(whole)
    BY <2>2, <2>3, <2>4, RisingConcat
  <2>6. \A i \in DOMAIN whole : \/ \E j \in DOMAIN s : whole[i] = s[j]
                                \/ \E k \in DOMAIN page : whole[i] = page[k]
    BY <2>2, <2>3, <2>4, RisingConcat
  <2> QED BY <2>5, <2>6 DEF s
<1>13. \A i \in DOMAIN whole : now.from < whole[i][1] /\ whole[i][1] <= next
  <2>1. \A j \in DOMAIN now.page : now.from < now.page[j][1] /\ now.page[j][1] <= next
    <3>1. \A j \in DOMAIN now.page : now.page[j][1] \in Nat
      BY <1>3 DEF Rising
    <3> QED BY <1>3, <1>5, <1>8, <1>10, <3>1
  <2>2. \A k \in DOMAIN page : now.from < page[k][1] /\ page[k][1] <= next
    BY <1>3, <1>5, <1>7, <1>8, <1>11
  <2> QED BY <1>12, <2>1, <2>2
<1>14. /\ DOMAIN lister' = DOMAIN lister /\ \A m \in DOMAIN lister : m # l => lister'[m] = lister[m]
       /\ DOMAIN then = ListerFields /\ UNCHANGED file
       /\ then.is = is /\ then.page = whole /\ then.next = next
       /\ then.want = now.want /\ then.timed = now.timed /\ then.stay = now.stay
       /\ then.from = now.from /\ then.got = now.got
  <2> DEFINE fields == [is |-> is, page |-> whole, next |-> next]
  <2>1. l \in DOMAIN lister /\ DOMAIN lister[l] = ListerFields /\ Set(l, fields)
    BY <1>1, <1>2 DEF LInv, Paged
  <2>2. /\ DOMAIN fields = {"is", "page", "next"}
        /\ fields["is"] = is /\ fields["page"] = whole /\ fields["next"] = next
    OBVIOUS
  <2> HIDE DEF fields
  <2>3. /\ DOMAIN lister' = DOMAIN lister /\ \A m \in DOMAIN lister : m # l => lister'[m] = lister[m]
        /\ DOMAIN then = ListerFields /\ UNCHANGED file
        /\ \A f \in ListerFields : then[f] = IF f \in DOMAIN fields THEN fields[f] ELSE now[f]
    BY <2>1, SetFacts
  <2> QED BY <2>2, <2>3 DEF ListerFields
<1>15. UNCHANGED trials
  BY <1>14 DEF file
<1>16. is \in {"params", "waiting"}
  BY DEF is
<1>17. Paged(l)'
  <2> HIDE DEF now, then
  <2> QED BY <1>3, <1>8, <1>12, <1>13, <1>14, <1>16 DEF Paged, then
<1>18. Skipless(l)'
  <2>1. \A x \in now.stay : (x \in Buckets /\ Matches(now.want, x))'
    BY <1>2, <1>14, <1>15 DEF Skipless, Buckets, Matches
  <2> QED BY <1>3, <1>14, <2>1 DEF Skipless
<1> QED BY <1>14, <1>15, <1>17, <1>18, OneLister

LEMMA TimeoutKeeps ==
  ASSUME FileInv, LInv, NEW l \in Listers, Timeout(l)
  PROVE  LInv'
<1> DEFINE now == lister[l]
           then == lister'[l]
<1>1. now.is = "waiting" /\ Set(l, [is |-> "params"])
  BY DEF Timeout, At
<1>2. Paged(l) /\ Skipless(l)
  BY DEF LInv
<1>3. /\ DOMAIN lister' = DOMAIN lister /\ \A m \in DOMAIN lister : m # l => lister'[m] = lister[m]
      /\ DOMAIN then = ListerFields /\ UNCHANGED file
      /\ then.is = "params" /\ then.page = now.page /\ then.next = now.next
      /\ then.want = now.want /\ then.timed = now.timed /\ then.stay = now.stay
      /\ then.from = now.from /\ then.got = now.got
  BY <1>1, <1>2, SetFacts DEF LInv, Paged, ListerFields
<1>4. UNCHANGED trials
  BY <1>3 DEF file
<1>5. Paged(l)'
  BY <1>1, <1>2, <1>3 DEF Paged
<1>6. Skipless(l)'
  <2>1. \A x \in now.stay : (x \in Buckets /\ Matches(now.want, x))'
    BY <1>2, <1>3, <1>4 DEF Skipless, Buckets, Matches
  <2>2. now.timed
    BY <1>1, <1>2 DEF Paged
  <2> QED BY <1>3, <2>1, <2>2 DEF Skipless
<1> QED BY <1>3, <1>4, <1>5, <1>6, OneLister

\* The reply moves the handle, or the client has to ask for the page again.
LEMMA ReplyKeeps ==
  ASSUME FileInv, LInv, StoreAssumption, NEW l \in Listers, Reply(l)
  PROVE  LInv'
<1> DEFINE now == lister[l]
           then == lister'[l]
           again == IF now.timed THEN "waiting" ELSE "asking"
           gone == \E k \in DOMAIN now.page : trials[now.page[k][2]] = None
           got == now.got \o now.page
           is == IF Len(now.page) < PageSize THEN "done" ELSE again
<1>1. now.is = "params"
  BY DEF Reply, At
<1>2. \/ gone /\ Set(l, [is |-> again, page |-> <<>>, next |-> 0])
      \/ ~gone /\ Set(l, [is |-> is, page |-> <<>>, from |-> now.next, next |-> 0, got |-> got])
  BY DEF Reply
<1>3. Paged(l) /\ Skipless(l)
  BY DEF LInv
<1>4. /\ now.from \in Nat /\ now.next \in Nat /\ Rising(now.got) /\ Rising(now.page)
      /\ \A k \in DOMAIN now.got : now.got[k][1] <= now.from
      /\ \A k \in DOMAIN now.page : now.from < now.page[k][1] /\ now.page[k][1] <= now.next
  BY <1>1, <1>3 DEF Paged
<1> HIDE DEF gone, is, got
<1>5. again \in {"waiting", "asking"} /\ (again = "waiting" => now.timed)
  OBVIOUS
<1>6. Len(now.page) < PageSize \/ is = again
  BY DEF is
<1>7. is \in {"done", "waiting", "asking"} /\ (is = "waiting" => now.timed)
      /\ (is = "done" => Len(now.page) < PageSize)
  BY <1>5 DEF is
<1> HIDE DEF again
<1>8. CASE Set(l, [is |-> again, page |-> <<>>, next |-> 0])
  <2>1. /\ DOMAIN lister' = DOMAIN lister /\ \A m \in DOMAIN lister : m # l => lister'[m] = lister[m]
        /\ DOMAIN then = ListerFields /\ UNCHANGED file
        /\ then.is = again /\ then.page = <<>> /\ then.next = 0
        /\ then.want = now.want /\ then.timed = now.timed /\ then.stay = now.stay
        /\ then.from = now.from /\ then.got = now.got
    BY <1>3, <1>8, SetFacts DEF LInv, Paged, ListerFields
  <2>2. UNCHANGED trials
    BY <2>1 DEF file
  <2>3. Paged(l)'
    <3> HIDE DEF now, then
    <3>1. now.want \in Wanted
      BY <1>1, <1>3 DEF Paged, now
    <3> QED BY <1>4, <1>5, <2>1, <3>1, EmptyRises DEF Paged, then
  <2>4. Skipless(l)'
    <3>1. \A x \in now.stay : (x \in Buckets /\ Matches(now.want, x))'
      BY <1>3, <2>1, <2>2 DEF Skipless, Buckets, Matches
    <3>2. ASSUME ~now.timed, NEW x \in now.stay PROVE trials'[x].idx <= then.from => Has(now.got, x)'
      BY <1>1, <1>3, <2>1, <2>2, <3>2 DEF Skipless, Has
    <3> QED BY <1>5, <2>1, <3>1, <3>2 DEF Skipless
  <2> QED BY <2>1, <2>2, <2>3, <2>4, OneLister
<1>9. CASE Set(l, [is |-> is, page |-> <<>>, from |-> now.next, next |-> 0, got |-> got])
  <2>1. /\ DOMAIN lister' = DOMAIN lister /\ \A m \in DOMAIN lister : m # l => lister'[m] = lister[m]
        /\ DOMAIN then = ListerFields /\ UNCHANGED file
        /\ then.is = is /\ then.page = <<>> /\ then.next = 0
        /\ then.want = now.want /\ then.timed = now.timed /\ then.stay = now.stay
        /\ then.from = now.next /\ then.got = got
    BY <1>3, <1>9, SetFacts DEF LInv, Paged, ListerFields
  <2>2. UNCHANGED trials
    BY <2>1 DEF file
  <2>3. /\ Rising(got)
        /\ \A i \in DOMAIN got : \/ \E j \in DOMAIN now.got : got[i] = now.got[j]
                                \/ \E k \in DOMAIN now.page : got[i] = now.page[k]
        /\ \A x : Has(now.got, x) \/ Has(now.page, x) => Has(got, x)
    <3>1. ASSUME NEW j \in DOMAIN now.got, NEW k \in DOMAIN now.page PROVE now.got[j][1] < now.page[k][1]
      <4>1. now.got[j][1] \in Nat /\ now.page[k][1] \in Nat
        BY <1>4 DEF Rising
      <4> QED BY <1>4, <4>1
    <3> QED BY <1>4, <3>1, RisingConcat DEF got
  <2>4. ASSUME is # "done" PROVE \A i \in DOMAIN got : got[i][1] <= now.next
    <3>1. now.page # <<>>
      <4>1. Len(now.page) # 0
        BY <1>6, <1>7, <2>4 DEF StoreAssumption, is
      <4> QED BY <4>1
    <3>2. 1 \in DOMAIN now.page /\ now.page[1][1] \in Nat
      BY <1>4, <3>1 DEF Rising, IsSeq
    <3>3. now.from < now.next
      BY <1>4, <3>2
    <3>4. \A j \in DOMAIN now.got : now.got[j][1] \in Nat
      BY <1>4 DEF Rising
    <3> QED BY <1>4, <2>3, <3>3, <3>4
  <2>5. Paged(l)'
    <3> HIDE DEF now, then
    <3>1. now.want \in Wanted
      BY <1>1, <1>3 DEF Paged, now
    <3> QED BY <1>4, <1>7, <2>1, <2>3, <2>4, <3>1, EmptyRises DEF Paged, then
  <2>6. ASSUME ~now.timed, NEW x \in now.stay
        PROVE  /\ trials[x].idx <= now.next => Has(got, x)
               /\ is = "done" => Has(got, x)
    BY <1>1, <1>3, <1>7, <2>3, <2>6 DEF Skipless
  <2>7. Skipless(l)'
    <3>1. \A x \in now.stay : (x \in Buckets /\ Matches(now.want, x))'
      BY <1>3, <2>1, <2>2 DEF Skipless, Buckets, Matches
    <3>2. ASSUME ~now.timed, NEW x \in now.stay
          PROVE  /\ trials'[x].idx <= then.from => Has(now.got, x)'
                 /\ then.is = "done" => Has(now.got, x)'
      <4>1. Has(now.got, x)' <=> Has(got, x)
        BY <2>1, <2>2 DEF Has
      <4> QED BY <2>1, <2>2, <2>6, <3>2, <4>1
    <3> QED BY <1>7, <2>1, <3>1, <3>2 DEF Skipless
  <2> QED BY <2>1, <2>2, <2>5, <2>7, OneLister
<1> QED BY <1>2, <1>8, <1>9

LEMMA RecountKeeps ==
  ASSUME LInv, Recount, \A x \in Buckets : trials'[x] # None => trials'[x].idx = trials[x].idx
  PROVE  LInv'
<1>1. DOMAIN lister' = Listers /\ DOMAIN lister = Listers
  BY DEF LInv, Recount
<1>2. ASSUME NEW l \in Listers PROVE Paged(l)' /\ Skipless(l)'
  <2> DEFINE stay == {x \in lister[l].stay : /\ trials'[x] # None
                                             /\ Selects(lister[l].want.kinds, trials'[x].kind)}
  <2>1. Paged(l) /\ Skipless(l)
    BY DEF LInv
  <2>2. lister'[l] = [lister[l] EXCEPT !.stay = stay]
    BY DEF Recount
  <2>3. stay \subseteq lister[l].stay
    OBVIOUS
  <2>4. \A x \in stay : /\ trials'[x] # None /\ trials'[x].idx = trials[x].idx
                        /\ Selects(lister[l].want.kinds, trials'[x].kind)
    BY <2>1 DEF Skipless
  <2> HIDE DEF stay
  <2>5. /\ DOMAIN lister'[l] = ListerFields /\ lister'[l].stay = stay
        /\ \A f \in ListerFields \ {"stay"} : lister'[l][f] = lister[l][f]
    BY <2>1, <2>2 DEF Paged, ListerFields
  <2> QED BY <2>1, <2>3, <2>4, <2>5, ShrinkKeeps
<1> QED BY <1>1, <1>2 DEF LInv

\* The lister is left alone and every trial keeps its position and its kind.
SameTrials ==
  \A x \in Buckets : trials'[x] # None /\ trials'[x].idx = trials[x].idx /\ trials'[x].kind = trials[x].kind

LEMMA ListersStay ==
  ASSUME LInv, UNCHANGED lister, SameTrials PROVE LInv'
<1>1. ASSUME NEW l \in Listers PROVE Paged(l)' /\ Skipless(l)'
  <2>1. Paged(l) /\ Skipless(l)
    BY DEF LInv
  <2>2. DOMAIN lister'[l] = ListerFields /\ \A f \in ListerFields \ {"stay"} : lister'[l][f] = lister[l][f]
    BY <2>1 DEF Paged
  <2>3. \A x \in lister[l].stay : /\ trials'[x] # None /\ trials'[x].idx = trials[x].idx
                                  /\ Selects(lister[l].want.kinds, trials'[x].kind)
    BY <2>1 DEF Skipless, SameTrials, Matches
  <2> QED BY <2>1, <2>2, <2>3, ShrinkKeeps
<1> QED BY <1>1 DEF LInv

LEMMA TrialsStay == UNCHANGED trials => SameTrials
BY DEF SameTrials, Buckets

LEMMA AddSame ==
  ASSUME FileInv, NoneIsNoBucket, NEW x \in Trials, trials[x] # None, NEW batch, AddSamples(x, batch)
  PROVE  SameTrials
<1> DEFINE b == WithSamples(trials[x], batch)
<1>1. trials' = [trials EXCEPT ![x] = b]
  BY DEF AddSamples
<1>2. IsBucket(trials[x])
  BY DEF FileInv, Shape
<1>3. DOMAIN b = BucketFields /\ b.idx = trials[x].idx /\ b.kind = trials[x].kind
  BY <1>2 DEF WithSamples, IsBucket, BucketFields
<1> HIDE DEF b
<1>4. trials'[x] = b /\ \A y \in Trials : y # x => trials'[y] = trials[y]
  BY <1>1 DEF FileInv, Shape
<1>5. b # None
  BY <1>3 DEF NoneIsNoBucket
<1> QED BY <1>3, <1>4, <1>5 DEF SameTrials, Buckets

LEMMA MigrateSame ==
  ASSUME FileInv, NoneIsNoBucket, MigrateTrial PROVE SameTrials
<1>1. PICK x \in pending : trials' = [trials EXCEPT ![x] = [@ EXCEPT !.count = SampleCount(trials[x])]]
  BY DEF MigrateTrial
<1> DEFINE b == [trials[x] EXCEPT !.count = SampleCount(trials[x])]
<1>2. x \in Trials /\ trials[x] # None /\ IsBucket(trials[x])
  BY DEF MigrateTrial, FileInv, Shape, Migration, Buckets
<1>3. DOMAIN b = BucketFields /\ b.idx = trials[x].idx /\ b.kind = trials[x].kind
  BY <1>2 DEF IsBucket, BucketFields
<1>4. trials' = [trials EXCEPT ![x] = b]
  BY <1>1
<1> HIDE DEF b
<1>5. trials'[x] = b /\ \A y \in Trials : y # x => trials'[y] = trials[y]
  BY <1>2, <1>4 DEF FileInv, Shape
<1>6. b # None
  BY <1>3 DEF NoneIsNoBucket
<1> QED BY <1>3, <1>5, <1>6 DEF SameTrials, Buckets

LEMMA PutPlaces ==
  ASSUME FileInv, NEW x \in Trials, NEW kind, PutTrial(x, kind)
  PROVE  \A y \in Buckets : trials'[y] # None => trials'[y].idx = trials[y].idx
<1>1. CASE trials[x] # None
  <2> DEFINE b == [trials[x] EXCEPT !.kind = kind]
  <2>1. trials' = [trials EXCEPT ![x] = b]
    BY <1>1 DEF PutTrial
  <2>2. b.idx = trials[x].idx
    BY <1>1 DEF FileInv, Shape, IsBucket, BucketFields
  <2> HIDE DEF b
  <2> QED BY <2>1, <2>2 DEF FileInv, Shape, Buckets
<1>2. CASE trials[x] = None
  <2> DEFINE b == [idx |-> sequence + 1, count |-> 0, kind |-> kind, samples |-> [t \in {} |-> None]]
  <2>1. trials' = [trials EXCEPT ![x] = b]
    BY <1>2 DEF PutTrial
  <2> HIDE DEF b
  <2> QED BY <1>2, <2>1 DEF FileInv, Shape, Buckets
<1> QED BY <1>1, <1>2

LEMMA DropPlaces ==
  ASSUME NEW xs, Drop(xs)
  PROVE  \A y \in Buckets : trials'[y] # None => trials'[y].idx = trials[y].idx
BY DEF Drop, Buckets

LEMMA DieLists == ASSUME LInv, Die PROVE LInv'
<1>1. DOMAIN lister' = Listers /\ UNCHANGED trials
  BY DEF Die, file
<1>2. ASSUME NEW l \in Listers PROVE Paged(l)' /\ Skipless(l)'
  <2> DEFINE now == lister[l]
             then == lister'[l]
  <2>1. Paged(l) /\ Skipless(l)
    BY DEF LInv
  <2>2. then = IF now.is = "idle" THEN now ELSE [now EXCEPT !.is = "failed"]
    BY DEF Die
  <2>3. \A x \in now.stay : (x \in Buckets /\ Matches(now.want, x)) /\ trials'[x] = trials[x]
    BY <1>1, <2>1 DEF Skipless
  <2>4. /\ DOMAIN then = ListerFields /\ then.want = now.want /\ then.stay = now.stay
        /\ then.from = now.from /\ then.next = now.next /\ then.page = now.page /\ then.got = now.got
        /\ (then.is = "idle" /\ now.is = "idle") \/ then.is = "failed"
    BY <2>1, <2>2 DEF Paged, ListerFields
  <2>5. Paged(l)'
    BY <2>1, <2>4 DEF Paged
  <2>6. Skipless(l)'
    BY <1>1, <2>3, <2>4 DEF Skipless, Buckets, Matches
  <2> QED BY <2>5, <2>6
<1> QED BY <1>1, <1>2 DEF LInv

LEMMA LoggingLists ==
  ASSUME FileInv, LInv, NoneIsNoBucket, NEW x \in Trials, Logging(x) PROVE LInv'
<1>1. ASSUME NEW kind, StartLog(x, kind) \/ AddTrial(x, kind) PROVE LInv'
  <2>1. PutTrial(x, kind) /\ Recount
    BY <1>1 DEF StartLog, AddTrial
  <2> QED BY <2>1, PutPlaces, RecountKeeps
<1>2. CASE StartUpload(x) \/ Log(x)
  BY <1>2, ListersStay, TrialsStay DEF StartUpload, Log
<1>3. CASE Flush(x)
  <2>1. CASE trials[x] # None
    <3>1. AddSamples(x, streams[x].chunk) /\ UNCHANGED lister
      BY <1>3, <2>1 DEF Flush
    <3> QED BY <2>1, <3>1, AddSame, ListersStay
  <2>2. CASE trials[x] = None /\ streams[x].kind = "ended"
    BY <1>3, <2>2, DieLists DEF Flush, Panic
  <2>3. CASE trials[x] = None /\ streams[x].kind # "ended"
    BY <1>3, <2>3, ListersStay, TrialsStay DEF Flush
  <2> QED BY <2>1, <2>2, <2>3
<1>4. CASE EndLog(x)
  <2>1. CASE streams[x].kind = "failing"
    BY <1>4, <2>1, DieLists DEF EndLog, Panic
  <2>2. CASE streams[x].kind # "failing"
    BY <1>4, <2>2, ListersStay, TrialsStay DEF EndLog
  <2> QED BY <2>1, <2>2
<1>5. CASE Upload(x) \/ EndUpload(x)
  <2>1. UNCHANGED lister
    BY <1>5 DEF Upload, EndUpload
  <2>2. UNCHANGED trials \/ (trials[x] # None /\ \E batch : AddSamples(x, batch))
    BY <1>5 DEF Upload, EndUpload
  <2>3. SameTrials
    BY <2>2, TrialsStay, AddSame
  <2> QED BY <2>1, <2>3, ListersStay
<1> QED BY <1>1, <1>2, <1>3, <1>4, <1>5 DEF Logging

LEMMA RetrievingLists ==
  ASSUME LInv, NEW r,
         \/ \E xs, filter : Retrieve(r, xs, filter)
         \/ \E x : ReadRound(r, x) \/ Give(r, x)
         \/ Finish(r) \/ Leave(r)
  PROVE  LInv'
<1>1. ASSUME NEW x, ReadRound(r, x), trials[x] = None PROVE LInv'
  BY <1>1, DieLists DEF ReadRound, Panic
<1>2. ASSUME NEW x, ReadRound(r, x), trials[x] # None PROVE callOnly /\ UNCHANGED lister
  BY <1>2 DEF ReadRound
<1>3. CASE callOnly /\ UNCHANGED lister
  BY <1>3, ListersStay, TrialsStay DEF callOnly
<1> QED BY <1>1, <1>2, <1>3 DEF Retrieve, Give, Finish, Leave

LEMMA ListingLists ==
  ASSUME FileInv, LInv, StoreAssumption, NEW l \in Listers, Listing(l) PROVE LInv'
BY StartListKeeps, ListKeeps, PollKeeps, TimeoutKeeps, ReplyKeeps DEF Listing

LEMMA NextLists ==
  ASSUME IInv, LInv, NoneIsNoBucket, StoreAssumption, ClientsAssumption, [CNext]_allVars PROVE LInv'
<1>1. FileInv /\ Streams /\ Transfers
  BY DEF IInv
<1>2. CASE Open \/ MigrateTrial \/ Migrated
  <2>1. UNCHANGED lister
    BY <1>2 DEF Open, MigrateTrial, Migrated, calls
  <2>2. SameTrials
    BY <1>1, <1>2, MigrateSame, TrialsStay DEF Open, Migrated, file
  <2> QED BY <2>1, <2>2, ListersStay
<1>3. CASE Crash
  BY <1>3, DieLists DEF Crash
<1>4. ASSUME NEW xs, Delete(xs) PROVE LInv'
  BY <1>4, DropPlaces, RecountKeeps DEF Delete
<1>5. ASSUME NEW r, Retrieving(r) PROVE LInv'
  BY <1>5, RetrievingLists DEF Retrieving
<1>6. ASSUME NEW x, ReadRound(Exporter, x) \/ Give(Exporter, x) PROVE LInv'
  BY <1>6, RetrievingLists
<1>7. ASSUME NEW l \in Listers, Listing(l) PROVE LInv'
  BY <1>1, <1>7, ListingLists
<1>8. ASSUME NEW x \in Trials, Logging(x) PROVE LInv'
  BY <1>1, <1>8, LoggingLists
<1>9. CASE Others
  BY <1>2, <1>3, <1>4, <1>5, <1>6, <1>7, <1>8, <1>9 DEF Others
<1>10. CASE UNCHANGED vars
  BY <1>10, ListersStay, TrialsStay DEF vars, calls, file
<1>11. ASSUME NEW xs, CountSamples(xs) PROVE LInv'
  BY <1>11, ListersStay, TrialsStay DEF CountSamples, callOnly
<1>12. CASE AskSamples \/ EndExport
  <2>1. \/ \E xs, filter : Retrieve(Exporter, xs, filter)
        \/ Finish(Exporter) \/ Leave(Exporter) \/ UNCHANGED vars
    BY <1>12 DEF AskSamples, EndExport
  <2> QED BY <1>10, <2>1, RetrievingLists
<1>13. CASE CheckTrials \/ RefuseExport \/ EndImport
  BY <1>10, <1>13 DEF CheckTrials, RefuseExport, EndImport
<1>14. ASSUME NEW kind \in Kinds, ImportTrial(kind) PROVE LInv'
  <2> DEFINE x == NextSample.trial
  <2>1. CASE x \notin disk[1].header
    BY <1>10, <1>14, <2>1 DEF ImportTrial
  <2>2. CASE x \in disk[1].header
    <3>1. Prefixed[x] \in Trials /\ AddTrial(Prefixed[x], kind)
      BY <1>1, <1>14, <2>2 DEF ImportTrial, MoreSamples, Transfers, ClientsAssumption
    <3> QED BY <1>8, <3>1 DEF Logging
  <2> QED BY <2>1, <2>2
<1>15. CASE ImportSample
  <2> DEFINE to == Prefixed[NextSample.trial]
  <2>1. CASE to \notin Buckets
    BY <1>10, <1>15, <2>1 DEF ImportSample
  <2>2. CASE to \in Buckets
    <3>1. /\ to \in Trials /\ trials[to] # None /\ UNCHANGED lister
          /\ AddSamples(to, <<[NextSample EXCEPT !.trial = to]>>)
      BY <1>15, <2>2 DEF ImportSample, Buckets, calls
    <3> QED BY <1>1, <3>1, AddSame, ListersStay
  <2> QED BY <2>1, <2>2
<1>16. ASSUME NEW x, Receive(x) PROVE LInv'
  BY <1>6, <1>16 DEF Receive
<1>17. CASE UNCHANGED allVars
  BY <1>10, <1>17 DEF allVars
<1> QED BY <1>9, <1>11, <1>12, <1>13, <1>14, <1>15, <1>16, <1>17 DEF CNext

LEMMA ListsStart == CInit => LInv
<1> SUFFICES ASSUME CInit PROVE LInv
  OBVIOUS
<1>1. lister = [l \in Listers |-> NoLister]
  BY DEF CInit, Init
<1>2. ASSUME NEW l \in Listers PROVE Paged(l) /\ Skipless(l)
  BY <1>1, EmptyRises DEF Paged, Skipless, NoLister, ListerFields
<1> QED BY <1>1, <1>2 DEF LInv

LEMMA ListsSuffice == LInv => PagesComplete
<1> SUFFICES ASSUME LInv, NEW l \in Listers
             PROVE  LET got == lister[l].got
                    IN /\ \A j, k \in DOMAIN got : got[j] = got[k] => j = k
                       /\ lister[l].is = "done" /\ ~lister[l].timed =>
                            \A x \in lister[l].stay : \E k \in DOMAIN got : got[k] = <<trials[x].idx, x>>
  BY DEF PagesComplete
<1> DEFINE got == lister[l].got
<1>1. Rising(got) /\ Skipless(l)
  BY DEF LInv, Paged
<1>2. ASSUME NEW j \in DOMAIN got, NEW k \in DOMAIN got, got[j] = got[k] PROVE j = k
  <2>1. j \in Nat /\ k \in Nat /\ got[j][1] \in Nat
    BY <1>1 DEF Rising, IsSeq
  <2>2. ~(j < k) /\ ~(k < j)
    BY <1>1, <1>2, <2>1 DEF Rising
  <2> QED BY <2>1, <2>2
<1>3. lister[l].is = "done" /\ ~lister[l].timed =>
        \A x \in lister[l].stay : \E k \in DOMAIN got : got[k] = <<trials[x].idx, x>>
  BY <1>1 DEF Skipless, Has
<1> QED BY <1>2, <1>3

\* A client that lists trials page by page is given no trial twice and, when its pages do
\* not time out, all it could count on from its first call to its last, for any pages,
\* filters and number of clients, whatever is created, updated, logged and deleted between
\* two pages or between a page and its parameters, and wherever the process dies.
THEOREM PagesCompleteAlways == ASSUME NoneIsNoBucket PROVE CSpec => []PagesComplete
<1>1. CInit => IInv /\ LInv
  BY InvStarts, ListsStart, StoreAssumption
<1>2. IInv /\ LInv /\ [CNext]_allVars => IInv' /\ LInv'
  BY NextKeeps, NextLists, StoreAssumption, ClientsAssumption
<1> QED BY <1>1, <1>2, ListsSuffice, PTL DEF CSpec

-----------------------------------------------------------------------------
(* The rounds of a retrieval                                               *)

\* A sequence that rises is the sorted sequence of its elements.
LEMMA SortedIs ==
  ASSUME NEW S, S \subseteq Int, NEW s \in Seq(S), Ascends(s), \A e \in S : \E k \in DOMAIN s : s[k] = e
  PROVE  s = Sorted(S)
<1> DEFINE n == Len(s)
           rank(e) == Cardinality({m \in S : m < e})
<1>1. n \in Nat /\ s \in [1..n -> S] /\ DOMAIN s = 1..n
  OBVIOUS
<1> USE <1>1
<1> HIDE DEF n
<1>2. \A j, k \in 1..n : j < k => s[j] < s[k] /\ s[j] \in Int /\ s[k] \in Int
  BY <1>1 DEF Ascends
<1>3. \A j, k \in 1..n : s[j] = s[k] => j = k
  <2> SUFFICES ASSUME NEW j \in 1..n, NEW k \in 1..n, s[j] = s[k] PROVE j = k
    OBVIOUS
  <2>1. ~(j < k) /\ ~(k < j)
    BY <1>2
  <2> QED BY <2>1
<1>4. Cardinality(S) = n
  <2>1. s \in Bijection(1..n, S)
    BY <1>3 DEF Bijection, Injection, IsInjective, Surjection
  <2> QED BY <2>1, FS_CountingElements DEF ExistsBijection
<1>5. ASSUME NEW k \in 1..n PROVE rank(s[k]) = k - 1
  <2> DEFINE B == {m \in S : m < s[k]}
             g == [j \in 1..(k - 1) |-> s[j]]
  <2>1. k - 1 \in Nat /\ 1..(k - 1) \subseteq 1..n
    OBVIOUS
  <2>2. \A j \in 1..(k - 1) : g[j] \in B
    BY <1>2, <2>1
  <2>3. \A e \in B : \E j \in 1..(k - 1) : g[j] = e
    <3> SUFFICES ASSUME NEW e \in B PROVE \E j \in 1..(k - 1) : g[j] = e
      OBVIOUS
    <3>1. PICK j \in 1..n : s[j] = e
      OBVIOUS
    <3>2. j < k
      <4>1. CASE j = k
        BY <3>1, <4>1
      <4>2. CASE k < j
        BY <1>2, <3>1, <4>2
      <4> QED BY <4>1, <4>2
    <3> QED BY <3>1, <3>2
  <2>4. g \in Bijection(1..(k - 1), B)
    BY <1>3, <2>1, <2>2, <2>3 DEF Bijection, Injection, IsInjective, Surjection
  <2> HIDE DEF g, B
  <2>5. Cardinality(B) = k - 1
    BY <2>1, <2>4, FS_CountingElements DEF ExistsBijection
  <2> QED BY <2>5 DEF B
<1> HIDE DEF rank
<1>6. ASSUME NEW k \in 1..n PROVE (CHOOSE e \in S : rank(e) = k - 1) = s[k]
  <2>1. \E e \in S : rank(e) = k - 1
    BY <1>5
  <2> DEFINE e == CHOOSE e \in S : rank(e) = k - 1
  <2>2. e \in S /\ rank(e) = k - 1
    BY <2>1
  <2> HIDE DEF e
  <2>3. PICK j \in 1..n : s[j] = e
    BY <2>2
  <2>4. j - 1 = k - 1
    BY <1>5, <2>2, <2>3
  <2>5. j = k
    BY <2>4
  <2> QED BY <2>3, <2>5 DEF e
<1>7. Sorted(S) = [k \in 1..n |-> CHOOSE e \in S : rank(e) = k - 1]
  BY <1>4 DEF Sorted, rank
<1> QED BY <1>6, <1>7

\* A sample has a tick, whatever is in it.
SampleFields == {"trial", "tick", "state", "payloads", "actors"}
IsSample(s) == DOMAIN s = SampleFields /\ s.tick \in Nat
Samples(q) == IsSeq(q) /\ \A k \in DOMAIN q : IsSample(q[k])
Ticks(q) == {q[k].tick : k \in DOMAIN q}
Rise(q) == \A j, k \in DOMAIN q : j < k => q[j].tick < q[k].tick

\* The streams, the file's buckets and an exported file have samples, each where its
\* tick says.
StreamSamples ==
  script \in Scripts /\ \A x \in Trials : streams[x].next \in Nat \ {0} /\ Samples(streams[x].chunk)
StoredTicks ==
  \A x \in Trials : trials[x] # None =>
    \A t \in DOMAIN trials[x].samples : IsSample(trials[x].samples[t]) /\ trials[x].samples[t].tick = t
DiskSamples ==
  /\ IsSeq(disk) /\ \A k \in DOMAIN disk : k # 1 => IsSample(disk[k])
  /\ export.is = "reading" => export.pos \in DOMAIN disk
  /\ import.pos \in Nat /\ (import.is = "reading" => import.pos # 0)
Stored == StreamSamples /\ StoredTicks
Sampled == Stored /\ DiskSamples

LEMMA StoredIsSample ==
  ASSUME NEW x, NEW log, log.tick \in Nat, NEW order
  PROVE  IsSample(StoredSample(x, log, order)) /\ StoredSample(x, log, order).tick = log.tick
BY DEF StoredSample, EmptySample, IsSample, SampleFields

LEMMA FilteredIsSample ==
  ASSUME NEW s, IsSample(s), NEW filter
  PROVE  IsSample(Filtered(s, filter)) /\ Filtered(s, filter).tick = s.tick
BY DEF Filtered, IsSample, SampleFields

RequestFields == {"is", "filter", "last", "queue", "ended", "at", "got"}
Observing(r) ==
  LET q == request[r] IN
  /\ DOMAIN q = RequestFields /\ DOMAIN q.last \subseteq Trials
  /\ DOMAIN q.queue = DOMAIN q.last /\ DOMAIN q.at = DOMAIN q.last /\ DOMAIN q.got = DOMAIN q.last
  /\ \A x \in DOMAIN q.last : q.at[x] \in 1..sequence /\ Samples(q.queue[x]) /\ Samples(q.got[x])

\* What the client has are the samples up to the last tick; what is read and not
\* handed over yet are those that come next.
Later(T, last) == {t \in T : last = None \/ t > last}
InTurn(T, last, got, queue) ==
  /\ Rise(got) /\ Rise(queue)
  /\ last # None => last \in T
  /\ Ticks(got) = T \ Later(T, last)
  /\ Ticks(queue) \subseteq Later(T, last)
  /\ \A k \in DOMAIN queue : \A t \in Later(T, last) : t <= queue[k].tick => t \in Ticks(queue)
Coming(r, x) ==
  InTurn(DOMAIN trials[x].samples, request[r].last[x], request[r].got[x], request[r].queue[x])

RInv ==
  /\ DOMAIN request = Requests
  /\ \A r \in Requests :
       /\ Observing(r)
       /\ \A x \in Observed(r) : trials[x] # None /\ trials[x].idx = request[r].at[x] => Coming(r, x)

\* The samples of a trial are stored in the order of their ticks.
InOrder ==
  \A x \in Trials : trials[x] # None /\ trials'[x] # None /\ trials'[x].idx = trials[x].idx =>
    \A t \in DOMAIN trials'[x].samples \ DOMAIN trials[x].samples, u \in DOMAIN trials[x].samples : u < t

\* A trial keeps its samples, or it is another trial of the name.
Grows ==
  /\ sequence <= sequence' /\ sequence' \in Nat
  /\ \A x \in Trials : trials'[x] # None =>
       \/ trials'[x].idx > sequence
       \/ /\ trials[x] # None /\ trials'[x].idx = trials[x].idx
          /\ DOMAIN trials[x].samples \subseteq DOMAIN trials'[x].samples

LEMMA TicksAreNumbers ==
  ASSUME Sampled, NEW x \in Trials, trials[x] # None PROVE DOMAIN trials[x].samples \subseteq Nat
BY DEF Sampled, Stored, StoredTicks, IsSample

LEMMA RequestsStay ==
  ASSUME FileInv, Sampled, Sampled', RInv, Grows, InOrder, StoreAssumption, DOMAIN request' = Requests,
         \A r \in Requests : /\ DOMAIN request'[r] = RequestFields
                             /\ \A f \in RequestFields \ {"is"} : request'[r][f] = request[r][f]
  PROVE  RInv'
<1>1. sequence \in Nat
  BY DEF FileInv, Shape
<1>2. ASSUME NEW r \in Requests
      PROVE  /\ Observing(r)'
             /\ \A x \in Observed(r)' : (trials[x] # None /\ trials[x].idx = request[r].at[x] => Coming(r, x))'
  <2> DEFINE q == request[r]
             p == request'[r]
  <2>1. Observing(r) /\ DOMAIN p = RequestFields
        /\ p.last = q.last /\ p.queue = q.queue /\ p.at = q.at /\ p.got = q.got
    BY DEF RInv, RequestFields
  <2>2. \A x \in DOMAIN q.last : q.at[x] \in 1..sequence'
    BY <1>1, <2>1 DEF Observing, Grows
  <2>3. Observing(r)'
    BY <2>1, <2>2 DEF Observing
  <2>4. ASSUME NEW x \in DOMAIN q.last, trials'[x] # None, trials'[x].idx = q.at[x] PROVE Coming(r, x)'
    <3> DEFINE T == DOMAIN trials[x].samples
               U == DOMAIN trials'[x].samples
               last == q.last[x]
               got == q.got[x]
               queue == q.queue[x]
    <3>1. x \in Trials /\ q.at[x] \in 1..sequence
      BY <2>1 DEF Observing
    <3>2. trials[x] # None /\ trials'[x].idx = trials[x].idx /\ T \subseteq U
      BY <1>1, <2>4, <3>1 DEF Grows
    <3>3. T \subseteq Nat /\ U \subseteq Nat
      <4>1. T \subseteq Nat
        BY <3>1, <3>2, TicksAreNumbers
      <4>2. \A t \in U : trials'[x].samples[t].tick = t /\ IsSample(trials'[x].samples[t])
        BY <2>4, <3>1 DEF Sampled, Stored, StoredTicks
      <4>3. U \subseteq Nat
        BY <4>2 DEF IsSample
      <4> QED BY <4>1, <4>3
    <3>4. \A t \in U \ T, u \in T : u < t
      BY <2>4, <3>1, <3>2 DEF InOrder
    <3>5. Coming(r, x)
      BY <2>4, <3>1, <3>2 DEF RInv, Observed
    <3>6. /\ Rise(got) /\ Rise(queue)
          /\ last # None => last \in T
          /\ Ticks(got) = T \ Later(T, last)
          /\ Ticks(queue) \subseteq Later(T, last)
          /\ \A k \in DOMAIN queue : \A t \in Later(T, last) : t <= queue[k].tick => t \in Ticks(queue)
      BY <3>5 DEF Coming, InTurn
    <3> HIDE DEF T, U, last, got, queue, p, q
    <3>7. Later(T, last) \subseteq Later(U, last) /\ U \ Later(U, last) = T \ Later(T, last)
      BY <3>2, <3>3, <3>4, <3>6 DEF Later
    <3>8. ASSUME NEW k \in DOMAIN queue, NEW t \in Later(U, last), t <= queue[k].tick
          PROVE  t \in Ticks(queue)
      <4>1. queue[k].tick \in T
        BY <3>6 DEF Ticks, Later
      <4>2. t \in U /\ t \in Nat /\ queue[k].tick \in Nat
        BY <3>3, <4>1 DEF Later
      <4>3. t \in T
        BY <3>4, <3>8, <4>1, <4>2
      <4>4. t \in Later(T, last)
        BY <4>3 DEF Later
      <4> QED BY <3>6, <3>8, <4>4
    <3>9. InTurn(U, last, got, queue)
      BY <3>2, <3>6, <3>7, <3>8 DEF InTurn
    <3> QED BY <2>1, <3>9 DEF Coming, U, last, got, queue, p, q
  <2> QED BY <2>1, <2>3, <2>4 DEF Observed
<1> QED BY <1>2 DEF RInv

LEMMA OneRequest ==
  ASSUME RInv, NEW r \in Requests, UNCHANGED <<trials, sequence>>,
         NEW q, DOMAIN q = RequestFields, request' = [request EXCEPT ![r] = q],
         DOMAIN q.last \subseteq Trials,
         DOMAIN q.queue = DOMAIN q.last, DOMAIN q.at = DOMAIN q.last, DOMAIN q.got = DOMAIN q.last,
         \A x \in DOMAIN q.last :
           /\ q.at[x] \in 1..sequence /\ Samples(q.queue[x]) /\ Samples(q.got[x])
           /\ trials[x] # None /\ trials[x].idx = q.at[x] =>
                InTurn(DOMAIN trials[x].samples, q.last[x], q.got[x], q.queue[x])
  PROVE  RInv'
<1>1. /\ DOMAIN request' = Requests /\ request'[r] = q
      /\ \A s \in Requests : s # r => request'[s] = request[s]
  BY DEF RInv
<1>2. Observing(r)' /\ \A x \in Observed(r)' : (trials[x] # None /\ trials[x].idx = request[r].at[x] => Coming(r, x))'
  <2>1. Observing(r)'
    BY <1>1 DEF Observing
  <2>2. ASSUME NEW x \in DOMAIN q.last, trials[x] # None, trials[x].idx = q.at[x] PROVE Coming(r, x)'
    BY <1>1, <2>2 DEF Coming
  <2> QED BY <1>1, <2>1, <2>2 DEF Observed
<1>3. ASSUME NEW s \in Requests, s # r
      PROVE  Observing(s)' /\ \A x \in Observed(s)' : (trials[x] # None /\ trials[x].idx = request[s].at[x] => Coming(s, x))'
  <2>1. Observing(s) /\ \A x \in Observed(s) : trials[x] # None /\ trials[x].idx = request[s].at[x] => Coming(s, x)
    BY DEF RInv
  <2>2. request'[s] = request[s]
    BY <1>1, <1>3
  <2> QED BY <2>1, <2>2 DEF Observing, Observed, Coming
<1> QED BY <1>1, <1>2, <1>3 DEF RInv

LEMMA EmptySamples == Samples(<<>>) /\ Rise(<<>>) /\ Ticks(<<>>) = {} /\ DOMAIN <<>> = {}
BY EmptyIsSeq DEF Samples, Rise, Ticks

LEMMA RetrieveKeeps ==
  ASSUME FileInv, Sampled, RInv, NEW r \in Requests, NEW xs, NEW filter, Retrieve(r, xs, filter)
  PROVE  RInv'
<1> DEFINE q == [is |-> "open", filter |-> filter, last |-> [x \in xs |-> None],
                 queue |-> [x \in xs |-> <<>>], ended |-> [x \in xs |-> FALSE],
                 at |-> [x \in xs |-> trials[x].idx], got |-> [x \in xs |-> <<>>]]
<1>1. xs \subseteq Buckets /\ request' = [request EXCEPT ![r] = q] /\ UNCHANGED <<trials, sequence>>
  BY DEF Retrieve, callOnly
<1>2. /\ DOMAIN q = RequestFields /\ DOMAIN q.last = xs
      /\ DOMAIN q.queue = xs /\ DOMAIN q.at = xs /\ DOMAIN q.got = xs
      /\ \A x \in xs : q.last[x] = None /\ q.queue[x] = <<>> /\ q.got[x] = <<>> /\ q.at[x] = trials[x].idx
  BY DEF RequestFields
<1> HIDE DEF q
<1>3. \A x \in xs : x \in Trials /\ trials[x].idx \in 1..sequence
  BY <1>1 DEF FileInv, IndexMatches, Buckets
<1>4. \A T : Later(T, None) = T
  BY DEF Later
<1>5. ASSUME NEW x \in DOMAIN q.last
      PROVE  /\ q.at[x] \in 1..sequence /\ Samples(q.queue[x]) /\ Samples(q.got[x])
             /\ trials[x] # None /\ trials[x].idx = q.at[x] =>
                  InTurn(DOMAIN trials[x].samples, q.last[x], q.got[x], q.queue[x])
  <2> DEFINE T == DOMAIN trials[x].samples
  <2>1. q.last[x] = None /\ q.queue[x] = <<>> /\ q.got[x] = <<>> /\ q.at[x] \in 1..sequence
    BY <1>2, <1>3
  <2>2. Later(T, q.last[x]) = T
    BY <1>4, <2>1
  <2>3. T \ Later(T, q.last[x]) = {}
    BY <2>2
  <2> HIDE DEF T
  <2> QED BY <2>1, <2>3, EmptySamples DEF T, InTurn
<1>6. DOMAIN q.last \subseteq Trials
  BY <1>2, <1>3
<1> QED BY <1>1, <1>2, <1>5, <1>6, OneRequest

LEMMA CountKeeps ==
  ASSUME RInv, NEW r \in Requests, request' = [request EXCEPT ![r] = NoRequest], UNCHANGED <<trials, sequence>>
  PROVE  RInv'
<1>1. /\ DOMAIN NoRequest = RequestFields /\ DOMAIN NoRequest.last = {} /\ DOMAIN NoRequest.queue = {}
      /\ DOMAIN NoRequest.at = {} /\ DOMAIN NoRequest.got = {}
  BY DEF NoRequest, RequestFields
<1> QED BY <1>1, OneRequest

\* What is read is what comes after the last tick.
LEMMA ReadKeeps ==
  ASSUME FileInv, Sampled, RInv, StoreAssumption, NEW r \in Requests, NEW x, ReadRound(r, x), trials[x] # None
  PROVE  RInv'
<1> DEFINE q == request[r]
           U == Unread(r, x)
           ticks == Sorted(U)
           read == [k \in DOMAIN ticks |-> trials[x].samples[ticks[k]]]
           T == DOMAIN trials[x].samples
           last == q.last[x]
           p == [q EXCEPT !.queue = [@ EXCEPT ![x] = read]]
<1>1. /\ x \in DOMAIN q.last /\ q.queue[x] = <<>>
      /\ request' = [request EXCEPT ![r] = p] /\ UNCHANGED <<trials, sequence>>
  BY DEF ReadRound, Observed, callOnly
<1>2. /\ DOMAIN q = RequestFields /\ DOMAIN q.last \subseteq Trials
      /\ DOMAIN q.queue = DOMAIN q.last /\ DOMAIN q.at = DOMAIN q.last /\ DOMAIN q.got = DOMAIN q.last
      /\ \A y \in DOMAIN q.last : q.at[y] \in 1..sequence /\ Samples(q.queue[y]) /\ Samples(q.got[y])
  BY DEF RInv, Observing
<1>3. IsFiniteSet(T) /\ T \subseteq Nat /\ x \in Trials
  BY <1>1, <1>2, TicksAreNumbers DEF FileInv, Shape, IsBucket
<1>4. U \in SUBSET T
  BY DEF Unread
<1>5. IsFiniteSet(U) /\ U \subseteq Int
  BY <1>3, <1>4, FS_Subset
<1>6. /\ ticks \in Seq(U) /\ Ascends(ticks)
      /\ \A n \in U : \E k \in DOMAIN ticks : ticks[k] = n
  BY <1>5, SortedFacts
<1>7. \A t \in T : IsSample(trials[x].samples[t]) /\ trials[x].samples[t].tick = t
  BY <1>3 DEF Sampled, Stored, StoredTicks
<1>8. DOMAIN ticks = 1..Len(ticks) /\ Len(ticks) \in Nat /\ \A k \in DOMAIN ticks : ticks[k] \in U
  BY <1>6
<1>9. /\ DOMAIN read = DOMAIN ticks
      /\ \A k \in DOMAIN ticks : IsSample(read[k]) /\ read[k].tick = ticks[k]
  BY <1>4, <1>7, <1>8
<1>10. Samples(read)
  <2> DEFINE S == {trials[x].samples[t] : t \in T}
  <2>1. read \in [1..Len(ticks) -> S]
    BY <1>4, <1>8
  <2>2. read \in Seq(S)
    <3> HIDE DEF read, ticks, S
    <3> QED BY <1>8, <2>1
  <2> HIDE DEF read, ticks
  <2> QED BY <1>9, <2>2 DEF Samples, IsSeq
<1> HIDE DEF read, ticks, U
<1>11. Rise(read)
  BY <1>6, <1>9 DEF Rise, Ascends
<1>12. Ticks(read) = U
  BY <1>6, <1>8, <1>9 DEF Ticks
<1>13. ASSUME trials[x].idx = q.at[x] PROVE Coming(r, x) /\ U = Later(T, last)
  <2>1. Coming(r, x)
    BY <1>1, <1>13 DEF RInv, Observed
  <2>2. last # None => last \in T
    BY <2>1 DEF Coming, InTurn
  <2>3. CASE last = None
    <3>1. U = T
      BY <2>3 DEF U, Unread
    <3>2. Later(T, last) = T
      BY <2>3 DEF Later
    <3> QED BY <2>1, <3>1, <3>2
  <2>4. CASE last # None
    <3>1. \A t \in T : t \in U <=> t >= last /\ \E u \in T : u >= last /\ u < t
      BY <2>4 DEF U, Unread
    <3>2. \A t \in T : t \in U <=> t > last
      BY <1>3, <2>2, <2>4, <3>1
    <3>3. \A t : t \in Later(T, last) <=> t \in T /\ t > last
      BY <2>4 DEF Later
    <3>4. U = Later(T, last)
      <4> HIDE DEF U, T, last
      <4> QED BY <1>4, <3>2, <3>3
    <3> QED BY <2>1, <3>4
  <2> QED BY <2>1, <2>3, <2>4
<1>14. /\ DOMAIN p = RequestFields /\ p.last = q.last /\ p.at = q.at /\ p.got = q.got
       /\ DOMAIN p.queue = DOMAIN q.last /\ p.queue[x] = read
       /\ \A y \in DOMAIN q.last : y # x => p.queue[y] = q.queue[y]
  BY <1>1, <1>2 DEF RequestFields
<1>15. ASSUME NEW y \in DOMAIN q.last, trials[y] # None, trials[y].idx = q.at[y] PROVE Coming(r, y)
  BY <1>15 DEF RInv, Observed
<1> HIDE DEF p
<1>16. ASSUME NEW y \in DOMAIN p.last
       PROVE  /\ p.at[y] \in 1..sequence /\ Samples(p.queue[y]) /\ Samples(p.got[y])
              /\ trials[y] # None /\ trials[y].idx = p.at[y] =>
                   InTurn(DOMAIN trials[y].samples, p.last[y], p.got[y], p.queue[y])
  <2>1. CASE y = x
    BY <1>2, <1>10, <1>11, <1>12, <1>13, <1>14, <2>1 DEF Coming, InTurn
  <2>2. CASE y # x
    BY <1>2, <1>14, <1>15, <2>2 DEF Coming
  <2> QED BY <2>1, <2>2
<1> QED BY <1>1, <1>2, <1>14, <1>16, OneRequest

LEMMA TailIsSeq == ASSUME NEW s, IsSeq(s), s # <<>>
  PROVE  /\ IsSeq(Tail(s)) /\ Len(s) \in Nat \ {0} /\ DOMAIN s = 1..Len(s) /\ Head(s) = s[1]
         /\ DOMAIN Tail(s) = 1..(Len(s) - 1) /\ \A k \in 1..(Len(s) - 1) : Tail(s)[k] = s[k + 1]
<1>1. PICK S : s \in Seq(S)
  BY DEF IsSeq
<1>2. Tail(s) \in Seq(S)
  BY <1>1
<1> QED BY <1>1, <1>2 DEF IsSeq

LEMMA SamplesAppend ==
  ASSUME NEW q, Samples(q), NEW f, IsSample(f)
  PROVE  /\ Samples(Append(q, f)) /\ Ticks(Append(q, f)) = Ticks(q) \cup {f.tick}
         /\ (Rise(q) /\ (\A t \in Ticks(q) : t < f.tick) => Rise(Append(q, f)))
<1>1. PICK S : q \in Seq(S)
  BY DEF Samples, IsSeq
<1> DEFINE a == Append(q, f)
<1>2. /\ Len(q) \in Nat /\ DOMAIN q = 1..Len(q) /\ DOMAIN a = 1..(Len(q) + 1)
      /\ a[Len(q) + 1] = f /\ \A k \in 1..Len(q) : a[k] = q[k]
  BY <1>1
<1>3. IsSeq(a)
  BY AppendIsSeq DEF Samples
<1> HIDE DEF a
<1>4. DOMAIN a = DOMAIN q \cup {Len(q) + 1}
  BY <1>2
<1>5. Samples(a)
  BY <1>2, <1>3, <1>4 DEF Samples
<1>6. Ticks(a) = Ticks(q) \cup {f.tick}
  BY <1>2, <1>4 DEF Ticks
<1>7. ASSUME Rise(q), \A t \in Ticks(q) : t < f.tick PROVE Rise(a)
  <2> SUFFICES ASSUME NEW j \in DOMAIN a, NEW k \in DOMAIN a, j < k PROVE a[j].tick < a[k].tick
    BY DEF Rise
  <2>1. j \in DOMAIN q
    BY <1>2
  <2>2. CASE k \in DOMAIN q
    BY <1>2, <1>7, <2>1, <2>2 DEF Rise
  <2>3. CASE k = Len(q) + 1
    BY <1>2, <1>7, <2>1, <2>3 DEF Ticks
  <2> QED BY <1>4, <2>2, <2>3
<1> QED BY <1>5, <1>6, <1>7 DEF a

\* The first of the samples that come next is handed over.
LEMMA HandedOver ==
  ASSUME NEW T, T \subseteq Nat, None \notin Nat, NEW last, NEW got, NEW queue, NEW f,
         Samples(got), Samples(queue), queue # <<>>, IsSample(f), f.tick = Head(queue).tick,
         InTurn(T, last, got, queue)
  PROVE  InTurn(T, f.tick, Append(got, f), Tail(queue))
<1> DEFINE h == f.tick
           more == Append(got, f)
           rest == Tail(queue)
           n == Len(queue)
<1>1. /\ Rise(got) /\ Rise(queue) /\ (last # None => last \in T)
      /\ Ticks(got) = T \ Later(T, last) /\ Ticks(queue) \subseteq Later(T, last)
      /\ \A k \in DOMAIN queue : \A t \in Later(T, last) : t <= queue[k].tick => t \in Ticks(queue)
  BY DEF InTurn
<1>2. /\ IsSeq(rest) /\ n \in Nat \ {0} /\ DOMAIN queue = 1..n /\ h = queue[1].tick
      /\ DOMAIN rest = 1..(n - 1) /\ \A k \in 1..(n - 1) : rest[k] = queue[k + 1]
  BY TailIsSeq DEF Samples
<1>3. Samples(more) /\ Ticks(more) = Ticks(got) \cup {h}
      /\ (Rise(got) /\ (\A t \in Ticks(got) : t < h) => Rise(more))
  BY SamplesAppend
<1> HIDE DEF h, more, rest, n
<1>4. 1 \in DOMAIN queue /\ \A k \in 1..(n - 1) : k + 1 \in DOMAIN queue
  BY <1>2
<1>5. \A k \in DOMAIN queue : queue[k].tick \in Ticks(queue) /\ queue[k].tick \in T /\ queue[k].tick \in Nat
  BY <1>1 DEF Ticks, Later
<1>6. h \in Later(T, last) /\ h \in T /\ h \in Nat /\ h # None
  BY <1>1, <1>2, <1>4, <1>5
<1>7. \A t : t \in Later(T, last) <=> t \in T /\ (last = None \/ t > last)
  BY DEF Later
<1>8. \A t : t \in Later(T, h) <=> t \in T /\ t > h
  BY <1>6 DEF Later
<1>9. \A t \in Ticks(got) : t < h
  <2> TAKE t \in Ticks(got)
  <2>1. t \in T /\ t \in Nat /\ t \notin Later(T, last)
    BY <1>1
  <2>2. last # None /\ last \in Nat /\ ~(t > last) /\ h > last
    BY <1>1, <1>6, <1>7, <2>1
  <2> QED BY <1>6, <2>1, <2>2
<1>10. Rise(more)
  BY <1>1, <1>3, <1>9
<1>11. Rise(rest)
  <2> SUFFICES ASSUME NEW j \in 1..(n - 1), NEW k \in 1..(n - 1), j < k PROVE rest[j].tick < rest[k].tick
    BY <1>2 DEF Rise
  <2>1. j + 1 \in DOMAIN queue /\ k + 1 \in DOMAIN queue /\ j + 1 < k + 1
    BY <1>4
  <2>2. queue[j + 1].tick < queue[k + 1].tick
    BY <1>1, <2>1 DEF Rise
  <2> QED BY <1>2, <2>2
<1>12. \A k \in 1..(n - 1) : rest[k].tick > h /\ rest[k].tick \in T /\ rest[k].tick \in Ticks(queue)
  <2> TAKE k \in 1..(n - 1)
  <2>1. k + 1 \in DOMAIN queue /\ 1 < k + 1
    BY <1>2, <1>4
  <2>2. queue[1].tick < queue[k + 1].tick
    BY <1>1, <1>4, <2>1 DEF Rise
  <2> QED BY <1>2, <1>4, <1>5, <1>6, <2>1, <2>2
<1>13. Ticks(rest) \subseteq Later(T, h)
  BY <1>2, <1>8, <1>12 DEF Ticks
<1>14. \A t \in Ticks(queue) : t = h \/ t \in Ticks(rest)
  <2> SUFFICES ASSUME NEW k \in DOMAIN queue, queue[k].tick # h PROVE queue[k].tick \in Ticks(rest)
    BY DEF Ticks
  <2>1. k # 1
    BY <1>2
  <2>2. k - 1 \in 1..(n - 1) /\ (k - 1) + 1 = k
    BY <1>2, <2>1
  <2>3. rest[k - 1] = queue[k]
    BY <1>2, <2>2
  <2> QED BY <1>2, <2>2, <2>3 DEF Ticks
<1>15. Ticks(more) = T \ Later(T, h)
  <2>1. ASSUME NEW t \in Ticks(more) PROVE t \in T \ Later(T, h)
    <3>1. CASE t = h
      BY <1>6, <1>8, <3>1
    <3>2. CASE t \in Ticks(got)
      <4>1. t \in T /\ t \in Nat /\ t < h
        BY <1>1, <1>9, <3>2
      <4> QED BY <1>6, <1>8, <4>1
    <3> QED BY <1>3, <2>1, <3>1, <3>2
  <2>2. ASSUME NEW t \in T, t \notin Later(T, h) PROVE t \in Ticks(more)
    <3>1. t \in Nat /\ t <= h
      BY <1>6, <1>8, <2>2
    <3>2. CASE t \in Later(T, last)
      <4>1. t \in Ticks(queue)
        BY <1>1, <1>2, <1>4, <3>1, <3>2
      <4>2. t \notin Ticks(rest)
        BY <1>13, <2>2
      <4> QED BY <1>3, <1>14, <4>1, <4>2
    <3>3. CASE t \notin Later(T, last)
      BY <1>1, <1>3, <2>2, <3>3
    <3> QED BY <3>2, <3>3
  <2> QED BY <2>1, <2>2
<1>16. ASSUME NEW k \in DOMAIN rest, NEW t \in Later(T, h), t <= rest[k].tick PROVE t \in Ticks(rest)
  <2>1. k + 1 \in DOMAIN queue /\ t <= queue[k + 1].tick
    BY <1>2, <1>4, <1>16
  <2>2. t \in Later(T, last)
    <3>1. t \in T /\ t \in Nat /\ t > h
      BY <1>8
    <3>2. last = None \/ (last \in Nat /\ h > last)
      BY <1>1, <1>6, <1>7
    <3> QED BY <1>6, <1>7, <3>1, <3>2
  <2>3. t \in Ticks(queue) /\ t # h
    BY <1>1, <1>6, <1>8, <2>1, <2>2
  <2> QED BY <1>14, <2>3
<1> QED BY <1>6, <1>10, <1>11, <1>13, <1>15, <1>16 DEF InTurn, h, more, rest

LEMMA GiveKeeps ==
  ASSUME FileInv, Sampled, RInv, StoreAssumption, NEW r \in Requests, NEW x, Give(r, x)
  PROVE  RInv' /\ Samples(request'[r].got[x]) /\ DOMAIN request'[r].got[x] # {}
<1> DEFINE q == request[r]
           s == Head(q.queue[x])
           f == Filtered(s, q.filter)
           p == [q EXCEPT !.queue[x] = Tail(@), !.last[x] = s.tick, !.ended[x] = (s.state = "ended"),
                          !.got[x] = Append(@, f)]
<1>1. /\ x \in DOMAIN q.last /\ q.queue[x] # <<>>
      /\ request' = [request EXCEPT ![r] = p] /\ UNCHANGED <<trials, sequence>>
  BY DEF Give, Observed, callOnly
<1>2. /\ DOMAIN q = RequestFields /\ DOMAIN q.last \subseteq Trials
      /\ DOMAIN q.queue = DOMAIN q.last /\ DOMAIN q.at = DOMAIN q.last /\ DOMAIN q.got = DOMAIN q.last
      /\ \A y \in DOMAIN q.last : q.at[y] \in 1..sequence /\ Samples(q.queue[y]) /\ Samples(q.got[y])
  BY DEF RInv, Observing
<1>3. Samples(q.queue[x]) /\ Samples(q.got[x]) /\ x \in Trials
  BY <1>1, <1>2
<1>4. IsSample(f) /\ f.tick = s.tick
  <2>1. IsSample(s)
    <3>1. Head(q.queue[x]) = q.queue[x][1] /\ 1 \in DOMAIN q.queue[x]
      BY <1>1, <1>3, TailIsSeq DEF Samples
    <3> QED BY <1>3, <3>1 DEF Samples
  <2> QED BY <2>1, FilteredIsSample
<1>5. /\ DOMAIN p = RequestFields /\ p.at = q.at /\ DOMAIN p.last = DOMAIN q.last
      /\ DOMAIN p.queue = DOMAIN q.last /\ DOMAIN p.got = DOMAIN q.last
      /\ p.queue[x] = Tail(q.queue[x]) /\ p.last[x] = s.tick /\ p.got[x] = Append(q.got[x], f)
      /\ \A y \in DOMAIN q.last : y # x =>
           p.queue[y] = q.queue[y] /\ p.last[y] = q.last[y] /\ p.got[y] = q.got[y]
  BY <1>1, <1>2 DEF RequestFields
<1>6. ASSUME NEW y \in DOMAIN q.last, trials[y] # None, trials[y].idx = q.at[y] PROVE Coming(r, y)
  BY <1>6 DEF RInv, Observed
<1> HIDE DEF p, s, f
<1>7. Samples(p.queue[x]) /\ Samples(p.got[x])
  <2>1. IsSeq(Tail(q.queue[x])) /\ \A k \in DOMAIN Tail(q.queue[x]) : IsSample(Tail(q.queue[x])[k])
    <3> DEFINE n == Len(q.queue[x])
    <3>1. /\ IsSeq(Tail(q.queue[x])) /\ n \in Nat \ {0} /\ DOMAIN q.queue[x] = 1..n
          /\ DOMAIN Tail(q.queue[x]) = 1..(n - 1)
          /\ \A k \in 1..(n - 1) : Tail(q.queue[x])[k] = q.queue[x][k + 1]
      BY <1>1, <1>3, TailIsSeq DEF Samples
    <3> HIDE DEF n
    <3>2. \A k \in 1..(n - 1) : k + 1 \in 1..n
      BY <3>1
    <3> QED BY <1>3, <3>1, <3>2 DEF Samples
  <2>2. Samples(Append(q.got[x], f))
    BY <1>3, <1>4, SamplesAppend
  <2> QED BY <1>5, <2>1, <2>2 DEF Samples
<1>8. ASSUME trials[x] # None, trials[x].idx = q.at[x]
      PROVE  InTurn(DOMAIN trials[x].samples, p.last[x], p.got[x], p.queue[x])
  <2> DEFINE T == DOMAIN trials[x].samples
             got == q.got[x]
             queue == q.queue[x]
  <2>1. T \subseteq Nat
    BY <1>3, <1>8, TicksAreNumbers
  <2>2. InTurn(T, q.last[x], got, queue)
    BY <1>1, <1>6, <1>8 DEF Coming
  <2>3. queue # <<>> /\ Samples(got) /\ Samples(queue) /\ f.tick = Head(queue).tick /\ None \notin Nat
    BY <1>1, <1>3, <1>4 DEF s, StoreAssumption
  <2>4. p.queue[x] = Tail(queue) /\ p.last[x] = f.tick /\ p.got[x] = Append(got, f)
    BY <1>4, <1>5
  <2> HIDE DEF T, got, queue, q
  <2> QED BY <1>4, <2>1, <2>2, <2>3, <2>4, HandedOver DEF T
<1>9. ASSUME NEW y \in DOMAIN p.last
      PROVE  /\ p.at[y] \in 1..sequence /\ Samples(p.queue[y]) /\ Samples(p.got[y])
             /\ trials[y] # None /\ trials[y].idx = p.at[y] =>
                  InTurn(DOMAIN trials[y].samples, p.last[y], p.got[y], p.queue[y])
  <2>1. CASE y = x
    BY <1>1, <1>2, <1>5, <1>7, <1>8, <2>1
  <2>2. CASE y # x
    BY <1>2, <1>5, <1>6, <2>2 DEF Coming
  <2> QED BY <2>1, <2>2
<1>10. RInv'
  <2>1. /\ DOMAIN p.last \subseteq Trials /\ DOMAIN p.queue = DOMAIN p.last
        /\ DOMAIN p.at = DOMAIN p.last /\ DOMAIN p.got = DOMAIN p.last
    BY <1>2, <1>5
  <2> HIDE DEF q
  <2> QED BY <1>1, <1>5, <1>9, <2>1, OneRequest
<1>11. request'[r] = p
  BY <1>1 DEF RInv
<1>12. DOMAIN p.got[x] # {}
  <2>1. PICK S : q.got[x] \in Seq(S)
    BY <1>3 DEF Samples, IsSeq
  <2>2. 1 \in DOMAIN Append(q.got[x], f)
    BY <2>1
  <2> QED BY <1>5, <2>2
<1> QED BY <1>7, <1>10, <1>11, <1>12

-----------------------------------------------------------------------------
(* What happens to the samples                                             *)

LEMMA LastOf ==
  ASSUME NEW K, IsFiniteSet(K), K \subseteq Nat, K # {} PROVE \E k \in K : \A m \in K : m <= k
<1> DEFINE s == Sorted(K)
           n == Len(s)
<1>1. s \in Seq(K) /\ Ascends(s) /\ \A e \in K : \E k \in DOMAIN s : s[k] = e
  <2>1. K \subseteq Int
    OBVIOUS
  <2> QED BY <2>1, SortedFacts
<1> HIDE DEF s
<1>2. DOMAIN s = 1..n /\ n \in Nat /\ n # 0
  <2>1. PICK e \in K : TRUE
    OBVIOUS
  <2>2. DOMAIN s # {}
    BY <1>1, <2>1
  <2> QED BY <1>1, <2>2
<1>3. n \in DOMAIN s /\ s[n] \in K
  BY <1>1, <1>2
<1> HIDE DEF n
<1>4. ASSUME NEW m \in K PROVE m <= s[n]
  <2>1. PICK k \in DOMAIN s : s[k] = m
    BY <1>1
  <2>2. s[n] \in Nat /\ m \in Nat
    BY <1>3
  <2>3. k = n \/ (k < n /\ k \in Nat)
    BY <1>2
  <2>4. k = n \/ s[k] < s[n]
    BY <1>1, <1>3, <2>3 DEF Ascends
  <2> QED BY <2>1, <2>2, <2>4
<1> QED BY <1>3, <1>4

\* A batch takes its places by its ticks.
LEMMA WithSamplesStores ==
  ASSUME NEW b, IsBucket(b), \A t \in DOMAIN b.samples : IsSample(b.samples[t]) /\ b.samples[t].tick = t,
         NEW batch, Samples(batch)
  PROVE  LET c == WithSamples(b, batch)
         IN /\ DOMAIN b.samples \subseteq DOMAIN c.samples /\ c.idx = b.idx /\ DOMAIN c = BucketFields
            /\ \A t \in DOMAIN c.samples : IsSample(c.samples[t]) /\ c.samples[t].tick = t
<1> DEFINE ticks == {batch[k].tick : k \in DOMAIN batch}
           lastOf(t) == CHOOSE k \in DOMAIN batch :
             batch[k].tick = t /\ \A m \in DOMAIN batch : batch[m].tick = t => m <= k
           c == WithSamples(b, batch)
           stored == [t \in DOMAIN b.samples \cup ticks |->
                       IF t \in ticks THEN batch[lastOf(t)] ELSE b.samples[t]]
<1>1. DOMAIN c = BucketFields /\ c.idx = b.idx /\ c.samples = stored
  BY DEF WithSamples, IsBucket, BucketFields
<1>2. ASSUME NEW t \in ticks PROVE IsSample(batch[lastOf(t)]) /\ batch[lastOf(t)].tick = t
  <2> DEFINE K == {k \in DOMAIN batch : batch[k].tick = t}
  <2>1. DOMAIN batch = 1..Len(batch) /\ Len(batch) \in Nat
    BY DEF Samples, IsSeq
  <2>2. IsFiniteSet(DOMAIN batch)
    BY <2>1, FS_Interval
  <2>3. IsFiniteSet(K) /\ K \subseteq Nat /\ K # {}
    <3>1. K \in SUBSET DOMAIN batch
      OBVIOUS
    <3>2. IsFiniteSet(K)
      BY <2>2, <3>1, FS_Subset
    <3>3. K \subseteq Nat /\ K # {}
      BY <2>1
    <3> QED BY <3>2, <3>3
  <2>4. \E k \in K : \A m \in K : m <= k
    BY <2>3, LastOf
  <2>5. \E k \in DOMAIN batch : batch[k].tick = t /\ \A m \in DOMAIN batch : batch[m].tick = t => m <= k
    BY <2>4
  <2>6. lastOf(t) \in DOMAIN batch /\ batch[lastOf(t)].tick = t
    BY <2>5
  <2> HIDE DEF lastOf
  <2> QED BY <2>6 DEF Samples
<1> HIDE DEF lastOf, ticks, c
<1>3. DOMAIN stored = DOMAIN b.samples \cup ticks
  OBVIOUS
<1>4. ASSUME NEW t \in DOMAIN stored PROVE IsSample(stored[t]) /\ stored[t].tick = t
  BY <1>2
<1> QED BY <1>1, <1>3, <1>4 DEF c

LEMMA SameGrow ==
  ASSUME FileInv, StoredTicks, UNCHANGED <<trials, sequence>> PROVE Grows /\ StoredTicks'
<1>1. StoredTicks'
  BY DEF StoredTicks
<1>2. Grows
  BY DEF FileInv, Shape, Grows
<1> QED BY <1>1, <1>2

\* One trial gets the bucket b.
LEMMA OneGrows ==
  ASSUME FileInv, StoredTicks, NEW x \in Trials, NEW b, trials' = [trials EXCEPT ![x] = b],
         sequence' \in Nat, sequence <= sequence',
         \A t \in DOMAIN b.samples : IsSample(b.samples[t]) /\ b.samples[t].tick = t,
         \/ b.idx > sequence
         \/ trials[x] # None /\ b.idx = trials[x].idx /\ DOMAIN trials[x].samples \subseteq DOMAIN b.samples
  PROVE  Grows /\ StoredTicks'
<1>1. trials'[x] = b /\ \A y \in Trials : y # x => trials'[y] = trials[y]
  BY DEF FileInv, Shape
<1>2. StoredTicks'
  BY <1>1 DEF StoredTicks
<1>3. Grows
  BY <1>1 DEF Grows
<1> QED BY <1>2, <1>3

LEMMA PutGrows ==
  ASSUME FileInv, StoredTicks, NEW x \in Trials, NEW kind, PutTrial(x, kind)
  PROVE  Grows /\ StoredTicks'
<1>1. sequence \in Nat
  BY DEF FileInv, Shape
<1>2. CASE trials[x] # None
  <2> DEFINE b == [trials[x] EXCEPT !.kind = kind]
  <2>1. trials' = [trials EXCEPT ![x] = b] /\ UNCHANGED sequence
    BY <1>2 DEF PutTrial
  <2>2. b.idx = trials[x].idx /\ b.samples = trials[x].samples
    BY <1>2 DEF FileInv, Shape, IsBucket, BucketFields
  <2>3. \A t \in DOMAIN trials[x].samples : IsSample(trials[x].samples[t]) /\ trials[x].samples[t].tick = t
    BY <1>2 DEF StoredTicks
  <2> HIDE DEF b
  <2>4. \A t \in DOMAIN b.samples : IsSample(b.samples[t]) /\ b.samples[t].tick = t
    BY <2>2, <2>3
  <2>5. sequence' \in Nat /\ sequence <= sequence'
    BY <1>1, <2>1
  <2> QED BY <1>2, <2>1, <2>2, <2>4, <2>5, OneGrows
<1>3. CASE trials[x] = None
  <2> DEFINE b == [idx |-> sequence + 1, count |-> 0, kind |-> kind, samples |-> [t \in {} |-> None]]
  <2>1. trials' = [trials EXCEPT ![x] = b] /\ sequence' = sequence + 1
    BY <1>3 DEF PutTrial
  <2>2. b.idx > sequence /\ DOMAIN b.samples = {}
    BY <1>1
  <2> HIDE DEF b
  <2>3. \A t \in DOMAIN b.samples : IsSample(b.samples[t]) /\ b.samples[t].tick = t
    BY <2>2
  <2>4. sequence' \in Nat /\ sequence <= sequence'
    BY <1>1, <2>1
  <2> QED BY <2>1, <2>2, <2>3, <2>4, OneGrows
<1> QED BY <1>2, <1>3

LEMMA AddGrows ==
  ASSUME FileInv, StoredTicks, NEW x \in Trials, trials[x] # None, NEW batch, Samples(batch), AddSamples(x, batch)
  PROVE  Grows /\ StoredTicks'
<1> DEFINE b == WithSamples(trials[x], batch)
<1>1. trials' = [trials EXCEPT ![x] = b] /\ UNCHANGED sequence
  BY DEF AddSamples
<1>2. IsBucket(trials[x]) /\ sequence \in Nat
  BY DEF FileInv, Shape
<1>3. \A t \in DOMAIN trials[x].samples : IsSample(trials[x].samples[t]) /\ trials[x].samples[t].tick = t
  BY DEF StoredTicks
<1>4. /\ DOMAIN trials[x].samples \subseteq DOMAIN b.samples /\ b.idx = trials[x].idx
      /\ \A t \in DOMAIN b.samples : IsSample(b.samples[t]) /\ b.samples[t].tick = t
  BY <1>2, <1>3, WithSamplesStores
<1> HIDE DEF b
<1>5. sequence' \in Nat /\ sequence <= sequence'
  BY <1>1, <1>2
<1> QED BY <1>1, <1>4, <1>5, OneGrows

LEMMA DropGrows ==
  ASSUME FileInv, StoredTicks, NEW xs, Drop(xs) PROVE Grows /\ StoredTicks'
<1>1. UNCHANGED sequence /\ \A x \in Trials : trials'[x] = IF x \in xs THEN None ELSE trials[x]
  BY DEF Drop
<1>2. Grows
  BY <1>1 DEF Grows, FileInv, Shape
<1>3. StoredTicks'
  BY <1>1 DEF StoredTicks
<1> QED BY <1>2, <1>3

LEMMA MigrateGrows ==
  ASSUME FileInv, StoredTicks, MigrateTrial PROVE Grows /\ StoredTicks'
<1>1. PICK x \in pending : trials' = [trials EXCEPT ![x] = [@ EXCEPT !.count = SampleCount(trials[x])]]
  BY DEF MigrateTrial
<1> DEFINE b == [trials[x] EXCEPT !.count = SampleCount(trials[x])]
<1>2. x \in Trials /\ trials[x] # None /\ IsBucket(trials[x]) /\ UNCHANGED sequence /\ sequence \in Nat
  BY DEF MigrateTrial, FileInv, Shape, Migration, Buckets
<1>3. b.idx = trials[x].idx /\ b.samples = trials[x].samples
  BY <1>2 DEF IsBucket, BucketFields
<1>4. trials' = [trials EXCEPT ![x] = b]
  BY <1>1
<1> HIDE DEF b
<1>5. \A t \in DOMAIN b.samples : IsSample(b.samples[t]) /\ b.samples[t].tick = t
  BY <1>2, <1>3 DEF StoredTicks
<1>6. sequence' \in Nat /\ sequence <= sequence'
  BY <1>2
<1> QED BY <1>2, <1>3, <1>4, <1>5, <1>6, OneGrows

LEMMA NextIsSample ==
  ASSUME StreamSamples, StoreAssumption, NEW x \in Trials, streams[x].next <= Len(script[x])
  PROVE  IsSample(Logged(x, streams[x].next))
<1> DEFINE k == streams[x].next
<1>1. script[x] \in Seq(Range(script[x])) /\ \A j \in DOMAIN script[x] : script[x][j].tick \in Nat
  BY DEF StreamSamples, StoreAssumption
<1>2. k \in Nat \ {0}
  BY DEF StreamSamples
<1> HIDE DEF k
<1>3. k <= Len(script[x])
  BY DEF k
<1>4. k \in DOMAIN script[x]
  BY <1>1, <1>2, <1>3
<1>5. script[x][k].tick \in Nat
  BY <1>1, <1>4
<1> QED BY <1>5, StoredIsSample DEF Logged, k

LEMMA NoneSampled == Samples(<<>>) /\ Samples(NoStream.chunk) /\ NoStream.next \in Nat \ {0}
BY EmptyIsSeq DEF Samples, NoStream

LEMMA OneStream ==
  ASSUME Streams, StreamSamples, UNCHANGED script, NEW x, NEW s, streams' = [streams EXCEPT ![x] = s],
         x \in Trials => s.next \in Nat \ {0} /\ Samples(s.chunk)
  PROVE  StreamSamples'
<1>1. ASSUME NEW y \in Trials PROVE streams'[y].next \in Nat \ {0} /\ Samples(streams'[y].chunk)
  BY DEF Streams, StreamSamples
<1> QED BY <1>1 DEF StreamSamples

LEMMA KindOnly ==
  ASSUME Streams, StreamSamples, UNCHANGED script, NEW x \in Trials, NEW kind,
         streams' = [streams EXCEPT ![x].kind = kind]
  PROVE  StreamSamples'
<1> DEFINE s == [streams[x] EXCEPT !.kind = kind]
<1>1. s.next \in Nat \ {0} /\ Samples(s.chunk)
  BY DEF Streams, Stream, StreamSamples
<1>2. streams' = [streams EXCEPT ![x] = s]
  OBVIOUS
<1> HIDE DEF s
<1> QED BY <1>1, <1>2, OneStream

LEMMA NewChunk ==
  ASSUME Streams, StreamSamples, UNCHANGED script, NEW x \in Trials, NEW chunk, Samples(chunk),
         \/ streams' = [streams EXCEPT ![x].next = @ + 1, ![x].chunk = chunk]
         \/ streams' = [streams EXCEPT ![x].chunk = chunk]
  PROVE  StreamSamples'
<1> DEFINE s == [streams[x] EXCEPT !.next = @ + 1, !.chunk = chunk]
           r == [streams[x] EXCEPT !.chunk = chunk]
<1>1. s.next \in Nat \ {0} /\ Samples(s.chunk) /\ r.next \in Nat \ {0} /\ Samples(r.chunk)
  BY DEF Streams, Stream, StreamSamples
<1>2. streams' = [streams EXCEPT ![x] = s] \/ streams' = [streams EXCEPT ![x] = r]
  OBVIOUS
<1> HIDE DEF s, r
<1> QED BY <1>1, <1>2, OneStream

LEMMA NoMore ==
  ASSUME Streams, StreamSamples, UNCHANGED script, NEW x, streams' = [streams EXCEPT ![x] = NoStream]
  PROVE  StreamSamples'
BY NoneSampled, OneStream

LEMMA DieStores ==
  ASSUME FileInv, Stored, Die, UNCHANGED script PROVE Stored' /\ Grows
<1>1. UNCHANGED <<trials, sequence>> /\ streams' = [x \in Trials |-> NoStream]
  BY DEF Die, file
<1>2. StreamSamples'
  BY <1>1, NoneSampled DEF Stored, StreamSamples
<1> QED BY <1>1, <1>2, SameGrow DEF Stored

LEMMA QuietStores ==
  ASSUME FileInv, Stored, UNCHANGED <<script, trials, sequence, streams>> PROVE Stored' /\ Grows
<1>1. StreamSamples'
  BY DEF Stored, StreamSamples
<1> QED BY <1>1, SameGrow DEF Stored

LEMMA StoringStores ==
  ASSUME FileInv, Streams, Stored, StoreAssumption, NEW x \in Trials,
         Flush(x) \/ Upload(x) \/ EndUpload(x)
  PROVE  Stored' /\ Grows
<1>1. Samples(streams[x].chunk) /\ StreamSamples /\ StoredTicks
  BY DEF Stored, StreamSamples
<1>2. CASE Flush(x)
  <2>1. CASE trials[x] # None
    <3>1. AddSamples(x, streams[x].chunk) /\ UNCHANGED script
      BY <1>2, <2>1 DEF Flush, quiet
    <3>2. \/ streams' = [streams EXCEPT ![x] = NoStream]
          \/ streams' = [streams EXCEPT ![x].chunk = <<>>]
      BY <1>2, <2>1 DEF Flush
    <3>3. Grows /\ StoredTicks'
      BY <1>1, <2>1, <3>1, AddGrows
    <3>4. StreamSamples'
      BY <1>1, <3>1, <3>2, NoMore, NewChunk, NoneSampled
    <3> QED BY <3>3, <3>4 DEF Stored
  <2>2. CASE trials[x] = None /\ streams[x].kind = "ended"
    BY <1>2, <2>2, DieStores DEF Flush, Panic
  <2>3. CASE trials[x] = None /\ streams[x].kind # "ended"
    <3>1. UNCHANGED <<script, trials, sequence>>
      BY <1>2, <2>3 DEF Flush, quiet
    <3>2. \/ streams' = [streams EXCEPT ![x].kind = "failing"]
          \/ streams' = [streams EXCEPT ![x] = NoStream]
      BY <1>2, <2>3 DEF Flush
    <3>3. StreamSamples'
      BY <1>1, <3>1, <3>2, NoMore, KindOnly
    <3> QED BY <1>1, <3>1, <3>3, SameGrow DEF Stored
  <2> QED BY <2>1, <2>2, <2>3
<1>3. CASE Upload(x)
  <2> DEFINE chunk == Append(streams[x].chunk, Logged(x, streams[x].next))
  <2>1. Samples(chunk) /\ UNCHANGED script
    <3>1. IsSample(Logged(x, streams[x].next))
      BY <1>1, <1>3, NextIsSample DEF Upload
    <3> QED BY <1>1, <1>3, <3>1, SamplesAppend DEF Upload, quiet
  <2>2. \/ /\ streams' = [streams EXCEPT ![x].next = @ + 1, ![x].chunk = chunk]
           /\ UNCHANGED <<trials, index, sequence>>
        \/ streams' = [streams EXCEPT ![x] = NoStream] /\ UNCHANGED <<trials, index, sequence>>
        \/ /\ trials[x] # None /\ AddSamples(x, chunk)
           /\ streams' = [streams EXCEPT ![x].next = @ + 1, ![x].chunk = <<>>]
    BY <1>3 DEF Upload
  <2> HIDE DEF chunk
  <2>3. StreamSamples'
    BY <1>1, <2>1, <2>2, NoMore, NewChunk, NoneSampled
  <2>4. UNCHANGED <<trials, sequence>> \/ (trials[x] # None /\ AddSamples(x, chunk))
    BY <2>2
  <2> QED BY <1>1, <2>1, <2>3, <2>4, SameGrow, AddGrows DEF Stored
<1>4. CASE EndUpload(x)
  <2>1. streams' = [streams EXCEPT ![x] = NoStream] /\ UNCHANGED script
    BY <1>4 DEF EndUpload, quiet
  <2>2. UNCHANGED <<trials, sequence>> \/ (trials[x] # None /\ AddSamples(x, streams[x].chunk))
    BY <1>4 DEF EndUpload
  <2>3. StreamSamples'
    BY <1>1, <2>1, NoMore
  <2> QED BY <1>1, <2>2, <2>3, SameGrow, AddGrows DEF Stored
<1> QED BY <1>2, <1>3, <1>4

LEMMA LoggingStores ==
  ASSUME FileInv, Streams, Stored, StoreAssumption, NEW x \in Trials, Logging(x) PROVE Stored' /\ Grows
<1>1. StreamSamples /\ StoredTicks /\ Samples(streams[x].chunk)
  BY DEF Stored, StreamSamples
<1>2. ASSUME NEW kind, StartLog(x, kind) PROVE Stored' /\ Grows
  <2>1. PutTrial(x, kind) /\ UNCHANGED script /\ streams' = [streams EXCEPT ![x].kind = "log"]
    BY <1>2 DEF StartLog, quiet
  <2> QED BY <1>1, <2>1, PutGrows, KindOnly DEF Stored
<1>3. ASSUME NEW kind, AddTrial(x, kind) PROVE Stored' /\ Grows
  <2>1. PutTrial(x, kind) /\ UNCHANGED <<script, streams>>
    BY <1>3 DEF AddTrial, quiet
  <2> QED BY <1>1, <2>1, PutGrows DEF Stored, StreamSamples
<1>4. CASE StartUpload(x)
  <2>1. UNCHANGED <<script, trials, sequence>> /\ streams' = [streams EXCEPT ![x].kind = "upload"]
    BY <1>4 DEF StartUpload, quiet
  <2> QED BY <1>1, <2>1, SameGrow, KindOnly DEF Stored
<1>5. CASE Log(x)
  <2> DEFINE chunk == Append(streams[x].chunk, Logged(x, streams[x].next))
  <2>1. Samples(chunk)
    <3>1. IsSample(Logged(x, streams[x].next))
      BY <1>1, <1>5, NextIsSample DEF Log
    <3> QED BY <1>1, <3>1, SamplesAppend
  <2>2. UNCHANGED <<script, trials, sequence>>
    BY <1>5 DEF Log, quiet
  <2>3. \/ streams' = [streams EXCEPT ![x].kind = "stuck"]
        \/ streams' = [streams EXCEPT ![x].next = @ + 1, ![x].chunk = chunk]
    BY <1>5 DEF Log
  <2> HIDE DEF chunk
  <2>4. StreamSamples'
    BY <1>1, <2>1, <2>2, <2>3, KindOnly, NewChunk
  <2> QED BY <1>1, <2>2, <2>4, SameGrow DEF Stored
<1>6. CASE EndLog(x)
  <2>1. CASE streams[x].kind = "failing"
    BY <1>6, <2>1, DieStores DEF EndLog, Panic
  <2>2. CASE streams[x].kind # "failing"
    <3>1. UNCHANGED <<script, trials, sequence>>
      BY <1>6, <2>2 DEF EndLog, quiet
    <3>2. \/ streams' = [streams EXCEPT ![x] = NoStream]
          \/ streams' = [streams EXCEPT ![x].kind = "ended"]
      BY <1>6, <2>2 DEF EndLog
    <3>3. StreamSamples'
      BY <1>1, <3>1, <3>2, NoMore, KindOnly
    <3> QED BY <1>1, <3>1, <3>3, SameGrow DEF Stored
  <2> QED BY <2>1, <2>2
<1> QED BY <1>2, <1>3, <1>4, <1>5, <1>6, StoringStores DEF Logging

LEMMA RetrievingStores ==
  ASSUME FileInv, Stored, NEW r,
         \/ \E xs, filter : Retrieve(r, xs, filter)
         \/ \E x : ReadRound(r, x) \/ Give(r, x)
         \/ Finish(r) \/ Leave(r)
  PROVE  Stored' /\ Grows
<1>1. ASSUME NEW x, ReadRound(r, x), trials[x] = None PROVE Stored' /\ Grows
  BY <1>1, DieStores DEF ReadRound, Panic
<1>2. ASSUME NEW x, ReadRound(r, x), trials[x] # None PROVE callOnly
  BY <1>2 DEF ReadRound
<1>3. CASE callOnly
  BY <1>3, QuietStores DEF callOnly, quiet
<1> QED BY <1>1, <1>2, <1>3 DEF Retrieve, Give, Finish, Leave

LEMMA OthersStore ==
  ASSUME FileInv, Streams, Stored, StoreAssumption, Others PROVE Stored' /\ Grows
<1>1. CASE Open \/ Migrated
  BY <1>1, QuietStores DEF Open, Migrated, file, calls
<1>2. CASE MigrateTrial
  <2>1. UNCHANGED <<script, streams>>
    BY <1>2 DEF MigrateTrial, calls
  <2>2. StreamSamples'
    BY <2>1 DEF Stored, StreamSamples
  <2> QED BY <1>2, <2>2, MigrateGrows DEF Stored
<1>3. CASE Crash
  BY <1>3, DieStores DEF Crash
<1>4. ASSUME NEW xs, Delete(xs) PROVE Stored' /\ Grows
  <2>1. Drop(xs) /\ UNCHANGED <<script, streams>>
    BY <1>4 DEF Delete, quiet
  <2>2. StreamSamples'
    BY <2>1 DEF Stored, StreamSamples
  <2> QED BY <2>1, <2>2, DropGrows DEF Stored
<1>5. ASSUME NEW r, Retrieving(r) PROVE Stored' /\ Grows
  BY <1>5, RetrievingStores DEF Retrieving
<1>6. ASSUME NEW x, ReadRound(Exporter, x) PROVE Stored' /\ Grows
  BY <1>6, RetrievingStores
<1>7. ASSUME NEW l, Listing(l) PROVE Stored' /\ Grows
  <2>1. callOnly
    BY <1>7 DEF Listing, StartList, List, Poll, Timeout, Reply, Set
  <2> QED BY <2>1, QuietStores DEF callOnly, quiet
<1> QED BY <1>1, <1>2, <1>3, <1>4, <1>5, <1>6, <1>7, LoggingStores DEF Others

LEMMA WrittenSamples ==
  ASSUME NEW message, IsSeq(disk), \A k \in DOMAIN disk : k # 1 => IsSample(disk[k]),
         export.pos \in Nat, disk' = Written(message),
         export.pos = 0 \/ (export.pos \in DOMAIN disk /\ IsSample(message))
  PROVE  /\ IsSeq(disk') /\ \A k \in DOMAIN disk' : k # 1 => IsSample(disk'[k])
         /\ export.pos + 1 \in DOMAIN disk'
<1> DEFINE last == IF Len(disk) > export.pos THEN Len(disk) ELSE export.pos + 1
<1>1. disk' = [k \in 1..last |-> IF k = export.pos + 1 THEN message ELSE disk[k]]
  BY DEF Written
<1>2. PICK S : disk \in Seq(S)
  BY DEF IsSeq
<1>3. DOMAIN disk = 1..Len(disk) /\ Len(disk) \in Nat
  BY <1>2
<1>4. last \in Nat /\ export.pos + 1 \in 1..last
  BY <1>3
<1> HIDE DEF last
<1>5. \A k \in 1..last : disk'[k] = IF k = export.pos + 1 THEN message ELSE disk[k]
  BY <1>1
<1>6. IsSeq(disk')
  <2> DEFINE R == {disk'[k] : k \in 1..last}
  <2>1. disk' = [k \in 1..last |-> disk'[k]]
    BY <1>1
  <2>2. \A k \in 1..last : disk'[k] \in R
    OBVIOUS
  <2> HIDE DEF R
  <2>3. disk' \in [1..last -> R]
    BY <2>1, <2>2
  <2>4. disk' \in Seq(R)
    BY <1>4, <2>3
  <2> QED BY <2>4 DEF IsSeq
<1>7. \A k \in 1..last : k = export.pos + 1 \/ k \in DOMAIN disk
  <2>1. CASE Len(disk) > export.pos
    BY <1>3, <2>1 DEF last
  <2>2. CASE ~(Len(disk) > export.pos)
    BY <1>3, <2>2 DEF last
  <2> QED BY <2>1, <2>2
<1> QED BY <1>1, <1>4, <1>5, <1>6, <1>7

LEMMA ExportingStores ==
  ASSUME FileInv, Transfers, Sampled, RInv, StoreAssumption, ClientsAssumption,
         \/ \E xs \in SUBSET Trials : CountSamples(xs)
         \/ RefuseExport \/ AskSamples \/ EndExport
         \/ \E x \in Trials : Receive(x)
  PROVE  Sampled' /\ Grows
<1>1. Stored /\ DiskSamples
  BY DEF Sampled
<1>2. CASE \E xs \in SUBSET Trials : CountSamples(xs)
  <2>1. callOnly /\ UNCHANGED <<disk, import>> /\ export'.is = "counted"
    BY <1>2 DEF CountSamples
  <2>2. DiskSamples'
    BY <1>1, <2>1 DEF DiskSamples
  <2> QED BY <1>1, <2>1, <2>2, QuietStores DEF Sampled, callOnly, quiet
<1>3. CASE RefuseExport
  <2>1. UNCHANGED <<vars, disk, import>> /\ export' = [export EXCEPT !.is = "failed"]
    BY <1>3 DEF RefuseExport, Fail
  <2>2. DiskSamples'
    BY <1>1, <2>1 DEF DiskSamples, Transfers
  <2> QED BY <1>1, <2>1, <2>2, QuietStores DEF Sampled, vars, file, calls
<1>4. CASE AskSamples
  <2>1. disk' = Written([header |-> DOMAIN export.left]) /\ export.pos = 0 /\ UNCHANGED import
    BY <1>4 DEF AskSamples, Transfers
  <2>2. \/ export' = [export EXCEPT !.is = "reading", !.pos = 1]
        \/ export' = [export EXCEPT !.is = "failed"]
    BY <1>4 DEF AskSamples
  <2>3. IsSeq(disk') /\ (\A k \in DOMAIN disk' : k # 1 => IsSample(disk'[k])) /\ 1 \in DOMAIN disk'
    BY <1>1, <2>1, WrittenSamples DEF DiskSamples, Transfers
  <2>4. export'.is # "reading" \/ export'.pos = 1
    BY <2>2 DEF Transfers
  <2>5. DiskSamples'
    BY <1>1, <2>1, <2>3, <2>4 DEF DiskSamples
  <2>6. (\E xs, filter : Retrieve(Exporter, xs, filter)) \/ UNCHANGED vars
    BY <1>4 DEF AskSamples
  <2> QED BY <1>1, <2>5, <2>6, RetrievingStores, QuietStores DEF Sampled, vars, file, calls
<1>5. CASE EndExport
  <2>1. UNCHANGED <<disk, import>> /\ \E is \in {"done", "failed"} : export' = [export EXCEPT !.is = is]
    BY <1>5 DEF EndExport, Fail
  <2>2. DiskSamples'
    BY <1>1, <2>1 DEF DiskSamples, Transfers
  <2>3. Leave(Exporter) \/ Finish(Exporter) \/ UNCHANGED vars
    BY <1>5 DEF EndExport
  <2> QED BY <1>1, <2>2, <2>3, RetrievingStores, QuietStores DEF Sampled, vars, file, calls
<1>6. ASSUME NEW x \in Trials, Receive(x) PROVE Sampled' /\ Grows
  <2>1. Give(Exporter, x) /\ export.is = "reading" /\ UNCHANGED import
    BY <1>6 DEF Receive
  <2>2. Stored' /\ Grows
    BY <1>1, <2>1, RetrievingStores
  <2>3. CASE x \notin DOMAIN export.left
    <3>1. UNCHANGED <<disk, export>>
      BY <1>6, <2>3 DEF Receive
    <3> QED BY <1>1, <2>1, <2>2, <3>1 DEF Sampled, DiskSamples
  <2>4. CASE x \in DOMAIN export.left
    <3> DEFINE got == request'[Exporter].got[x]
    <3>1. disk' = Written(got[Len(got)])
      BY <1>6, <2>4 DEF Receive
    <3>2. Samples(got) /\ DOMAIN got # {}
      BY <2>1, GiveKeeps DEF ClientsAssumption
    <3>3. IsSample(got[Len(got)])
      <4>1. DOMAIN got = 1..Len(got) /\ Len(got) \in Nat
        BY <3>2 DEF Samples, IsSeq
      <4>2. Len(got) \in DOMAIN got
        BY <3>2, <4>1
      <4> QED BY <3>2, <4>2 DEF Samples
    <3> HIDE DEF got
    <3>4. export.pos \in DOMAIN disk /\ export.pos \in Nat
      BY <1>1, <2>1 DEF DiskSamples, Transfers
    <3>5. /\ IsSeq(disk') /\ (\A k \in DOMAIN disk' : k # 1 => IsSample(disk'[k]))
          /\ export.pos + 1 \in DOMAIN disk'
      BY <1>1, <3>1, <3>3, <3>4, WrittenSamples DEF DiskSamples
    <3>6. export'.pos = export.pos + 1
      BY <1>6, <2>4 DEF Receive, Transfers
    <3>7. DiskSamples'
      BY <1>1, <2>1, <3>5, <3>6 DEF DiskSamples
    <3> QED BY <2>2, <3>7 DEF Sampled
  <2> QED BY <2>3, <2>4
<1> QED BY <1>2, <1>3, <1>4, <1>5, <1>6

LEMMA ImportMoves ==
  ASSUME Transfers, DiskSamples, NEW fields, ImportIs(fields),
         "pos" \in DOMAIN fields => fields.pos \in Nat \ {0},
         "is" \in DOMAIN fields /\ fields.is = "reading" => "pos" \in DOMAIN fields
  PROVE  DiskSamples'
<1>1. UNCHANGED <<export, disk>>
  BY DEF ImportIs
<1>2. /\ import'.is = (IF "is" \in DOMAIN fields THEN fields.is ELSE import.is)
      /\ import'.pos = (IF "pos" \in DOMAIN fields THEN fields.pos ELSE import.pos)
  BY DEF ImportIs, Transfers
<1> QED BY <1>1, <1>2 DEF DiskSamples

LEMMA ImportingStores ==
  ASSUME FileInv, Streams, Transfers, Sampled, StoreAssumption, ClientsAssumption,
         CheckTrials \/ ImportSample \/ EndImport \/ \E kind \in Kinds : ImportTrial(kind)
  PROVE  Sampled' /\ Grows
<1>1. Stored /\ DiskSamples
  BY DEF Sampled
<1>2. ASSUME UNCHANGED vars PROVE Stored' /\ Grows
  BY <1>1, <1>2, QuietStores DEF vars, file, calls
<1>3. CASE CheckTrials
  <2>1. UNCHANGED vars /\ (ImportIs([is |-> "failed"]) \/ ImportIs([is |-> "reading", pos |-> 1]))
    BY <1>3 DEF CheckTrials
  <2>2. DiskSamples'
    BY <1>1, <2>1, ImportMoves
  <2> QED BY <1>2, <2>1, <2>2 DEF Sampled
<1>4. CASE EndImport
  <2>1. UNCHANGED vars /\ (ImportIs([is |-> "done"]) \/ ImportIs([is |-> "failed"]))
    BY <1>4 DEF EndImport
  <2>2. DiskSamples'
    BY <1>1, <2>1, ImportMoves
  <2> QED BY <1>2, <2>1, <2>2 DEF Sampled
<1>5. ASSUME NEW kind \in Kinds, ImportTrial(kind) PROVE Sampled' /\ Grows
  <2> DEFINE x == NextSample.trial
  <2>1. CASE x \notin disk[1].header
    <3>1. ImportIs([is |-> "failed"]) /\ UNCHANGED vars
      BY <1>5, <2>1 DEF ImportTrial
    <3>2. DiskSamples'
      BY <1>1, <3>1, ImportMoves
    <3> QED BY <1>2, <3>1, <3>2 DEF Sampled
  <2>2. CASE x \in disk[1].header
    <3>1. Prefixed[x] \in Trials /\ AddTrial(Prefixed[x], kind)
      BY <1>5, <2>2 DEF ImportTrial, MoreSamples, Transfers, ClientsAssumption
    <3>2. Stored' /\ Grows
      BY <1>1, <3>1, LoggingStores DEF Logging
    <3>3. \E read, at : ImportIs([read |-> read, at |-> at])
      BY <1>5, <2>2 DEF ImportTrial
    <3>4. DiskSamples'
      BY <1>1, <3>3, ImportMoves
    <3> QED BY <3>2, <3>4 DEF Sampled
  <2> QED BY <2>1, <2>2
<1>6. CASE ImportSample
  <2> DEFINE to == Prefixed[NextSample.trial]
             s == [NextSample EXCEPT !.trial = to]
  <2>1. CASE to \notin Buckets
    <3>1. ImportIs([is |-> "failed"]) /\ UNCHANGED vars
      BY <1>6, <2>1 DEF ImportSample
    <3>2. DiskSamples'
      BY <1>1, <3>1, ImportMoves
    <3> QED BY <1>2, <3>1, <3>2 DEF Sampled
  <2>2. CASE to \in Buckets
    <3>1. /\ to \in Trials /\ trials[to] # None /\ AddSamples(to, <<s>>) /\ UNCHANGED <<script, streams>>
      BY <1>6, <2>2 DEF ImportSample, Buckets, quiet, calls
    <3>2. import.is = "reading" /\ import.pos < Len(disk)
      BY <1>6 DEF ImportSample, MoreSamples
    <3>3. import.pos \in Nat \ {0} /\ DOMAIN disk = 1..Len(disk) /\ Len(disk) \in Nat
      BY <1>1, <3>2 DEF DiskSamples, IsSeq
    <3>4. import.pos + 1 \in DOMAIN disk /\ import.pos + 1 # 1
      BY <3>2, <3>3
    <3>5. IsSample(NextSample)
      BY <1>1, <3>4 DEF DiskSamples, NextSample
    <3>6. IsSample(s)
      BY <3>5 DEF IsSample, SampleFields
    <3> HIDE DEF s, to
    <3>7. Samples(<<s>>)
      <4>1. DOMAIN <<s>> = {1} /\ <<s>>[1] = s
        OBVIOUS
      <4> QED BY <3>6, <4>1, OneIsSeq DEF Samples
    <3>8. Grows /\ StoredTicks'
      BY <1>1, <3>1, <3>7, AddGrows DEF Stored
    <3>9. StreamSamples'
      BY <1>1, <3>1 DEF Stored, StreamSamples
    <3>10. \E read : ImportIs([pos |-> import.pos + 1, read |-> read])
      BY <1>6, <2>2 DEF ImportSample, to
    <3>11. import.pos + 1 \in Nat \ {0}
      BY <3>3
    <3>12. DiskSamples'
      BY <1>1, <3>10, <3>11, ImportMoves
    <3> QED BY <3>8, <3>9, <3>12 DEF Sampled, Stored
  <2> QED BY <2>1, <2>2
<1> QED BY <1>3, <1>4, <1>5, <1>6

LEMMA NextStores ==
  ASSUME IInv, Sampled, RInv, StoreAssumption, ClientsAssumption, [CNext]_allVars PROVE Sampled' /\ Grows
<1>1. FileInv /\ Streams /\ Transfers /\ Stored /\ DiskSamples
  BY DEF IInv, Sampled
<1>2. CASE Others /\ UNCHANGED clientVars
  <2>1. Stored' /\ Grows
    BY <1>1, <1>2, OthersStore
  <2>2. DiskSamples'
    BY <1>1, <1>2 DEF DiskSamples, clientVars
  <2> QED BY <2>1, <2>2 DEF Sampled
<1>3. CASE UNCHANGED allVars
  <2>1. Stored' /\ Grows
    BY <1>1, <1>3, QuietStores DEF allVars, vars, file, calls
  <2>2. DiskSamples'
    BY <1>1, <1>3 DEF DiskSamples, allVars, clientVars
  <2> QED BY <2>1, <2>2 DEF Sampled
<1>4. CASE \/ \E xs \in SUBSET Trials \ {{}} : CountSamples(xs)
           \/ RefuseExport \/ AskSamples \/ EndExport
           \/ \E x \in Trials : Receive(x)
  BY <1>1, <1>4, ExportingStores
<1>5. CASE CheckTrials \/ ImportSample \/ EndImport \/ \E kind \in Kinds : ImportTrial(kind)
  BY <1>1, <1>5, ImportingStores
<1> QED BY <1>2, <1>3, <1>4, <1>5 DEF CNext

-----------------------------------------------------------------------------
(* What happens to the requests                                            *)

LEMMA QuietRequests ==
  ASSUME FileInv, Sampled, Sampled', RInv, Grows, InOrder, StoreAssumption, UNCHANGED request PROVE RInv'
<1>1. DOMAIN request' = Requests /\ \A r \in Requests : DOMAIN request'[r] = RequestFields
  BY DEF RInv, Observing
<1> QED BY <1>1, RequestsStay

LEMMA DieRequests ==
  ASSUME FileInv, Sampled, Sampled', RInv, Grows, InOrder, StoreAssumption, Die PROVE RInv'
<1>1. request' = [r \in Requests |->
        IF request[r].is = "open" THEN [request[r] EXCEPT !.is = "failed"] ELSE request[r]]
  BY DEF Die
<1>2. ASSUME NEW r \in Requests
      PROVE  /\ DOMAIN request'[r] = RequestFields
             /\ \A f \in RequestFields \ {"is"} : request'[r][f] = request[r][f]
  BY <1>1 DEF RInv, Observing
<1> QED BY <1>1, <1>2, RequestsStay

LEMMA StateRequests ==
  ASSUME FileInv, Sampled, Sampled', RInv, Grows, InOrder, StoreAssumption, NEW r \in Requests,
         Finish(r) \/ Leave(r)
  PROVE  RInv'
<1>1. PICK is : request' = [request EXCEPT ![r].is = is]
  BY DEF Finish, Leave
<1>2. DOMAIN request' = Requests
  BY <1>1 DEF RInv
<1>3. ASSUME NEW s \in Requests
      PROVE  /\ DOMAIN request'[s] = RequestFields
             /\ \A f \in RequestFields \ {"is"} : request'[s][f] = request[s][f]
  <2>1. DOMAIN request = Requests /\ DOMAIN request[s] = RequestFields
    BY DEF RInv, Observing
  <2>2. request'[s] = IF s = r THEN [request[s] EXCEPT !.is = is] ELSE request[s]
    BY <1>1, <2>1
  <2> QED BY <2>1, <2>2
<1> QED BY <1>2, <1>3, RequestsStay

LEMMA RetrievingRequests ==
  ASSUME FileInv, Sampled, Sampled', RInv, Grows, InOrder, StoreAssumption, NEW r \in Requests,
         \/ \E xs, filter : Retrieve(r, xs, filter)
         \/ \E x : ReadRound(r, x) \/ Give(r, x)
         \/ Finish(r) \/ Leave(r)
  PROVE  RInv'
<1>1. ASSUME NEW x, ReadRound(r, x) PROVE RInv'
  <2>1. CASE trials[x] = None
    BY <1>1, <2>1, DieRequests DEF ReadRound, Panic
  <2>2. CASE trials[x] # None
    BY <1>1, <2>2, ReadKeeps
  <2> QED BY <2>1, <2>2
<1>2. ASSUME NEW x, Give(r, x) PROVE RInv'
  BY <1>2, GiveKeeps
<1>3. ASSUME NEW xs, NEW filter, Retrieve(r, xs, filter) PROVE RInv'
  BY <1>3, RetrieveKeeps
<1> QED BY <1>1, <1>2, <1>3, StateRequests

LEMMA NextRequests ==
  ASSUME IInv, Sampled, Sampled', RInv, Grows, InOrder, StoreAssumption, ClientsAssumption, [CNext]_allVars
  PROVE  RInv'
<1>1. FileInv
  BY DEF IInv
<1>2. CASE UNCHANGED request
  BY <1>1, <1>2, QuietRequests
<1>3. CASE Die
  BY <1>1, <1>3, DieRequests
<1>4. ASSUME NEW r \in Requests, Retrieving(r) PROVE RInv'
  BY <1>1, <1>4, RetrievingRequests DEF Retrieving
<1>5. ASSUME NEW x, ReadRound(Exporter, x) \/ Give(Exporter, x) PROVE RInv'
  BY <1>1, <1>5, RetrievingRequests DEF ClientsAssumption
<1>6. ASSUME NEW x \in Trials, Logging(x) PROVE UNCHANGED request \/ Die
  <2>1. ASSUME NEW kind, StartLog(x, kind) \/ AddTrial(x, kind) PROVE UNCHANGED request
    BY <2>1 DEF StartLog, AddTrial
  <2>2. CASE Flush(x) \/ EndLog(x)
    BY <2>2 DEF Flush, EndLog, Panic
  <2>3. CASE StartUpload(x) \/ Log(x) \/ Upload(x) \/ EndUpload(x)
    BY <2>3 DEF StartUpload, Log, Upload, EndUpload
  <2> QED BY <1>6, <2>1, <2>2, <2>3 DEF Logging
<1>7. ASSUME NEW l, Listing(l) PROVE UNCHANGED request
  BY <1>7 DEF Listing, StartList, List, Poll, Timeout, Reply, Set
<1>8. CASE Others
  <2>1. CASE Open \/ MigrateTrial \/ Migrated
    BY <1>2, <2>1 DEF Open, MigrateTrial, Migrated, calls
  <2>2. CASE Crash
    BY <1>3, <2>2 DEF Crash
  <2>3. ASSUME NEW xs, Delete(xs) PROVE RInv'
    BY <1>2, <2>3 DEF Delete
  <2> QED BY <1>2, <1>3, <1>4, <1>5, <1>6, <1>7, <1>8, <2>1, <2>2, <2>3 DEF Others
<1>9. CASE UNCHANGED vars
  BY <1>2, <1>9 DEF vars, calls
<1>10. ASSUME NEW xs, CountSamples(xs) PROVE RInv'
  <2>1. request' = [request EXCEPT ![Exporter] = NoRequest] /\ UNCHANGED <<trials, sequence>>
    BY <1>10 DEF CountSamples, callOnly
  <2> QED BY <2>1, CountKeeps DEF ClientsAssumption
<1>11. CASE AskSamples \/ EndExport
  <2>1. \/ \E xs, filter : Retrieve(Exporter, xs, filter)
        \/ Finish(Exporter) \/ Leave(Exporter) \/ UNCHANGED vars
    BY <1>11 DEF AskSamples, EndExport
  <2> QED BY <1>1, <1>9, <2>1, RetrievingRequests DEF ClientsAssumption
<1>12. CASE CheckTrials \/ RefuseExport \/ EndImport
  BY <1>9, <1>12 DEF CheckTrials, RefuseExport, EndImport
<1>13. ASSUME NEW kind \in Kinds, ImportTrial(kind) PROVE RInv'
  <2>1. UNCHANGED vars \/ \E x : AddTrial(x, kind)
    BY <1>13 DEF ImportTrial
  <2> QED BY <1>2, <1>9, <2>1 DEF AddTrial
<1>14. CASE ImportSample
  <2>1. UNCHANGED vars \/ UNCHANGED calls
    BY <1>14 DEF ImportSample
  <2> QED BY <1>2, <1>9, <2>1 DEF calls
<1>15. ASSUME NEW x, Receive(x) PROVE RInv'
  BY <1>5, <1>15 DEF Receive
<1>16. CASE UNCHANGED allVars
  BY <1>9, <1>16 DEF allVars
<1> QED BY <1>8, <1>10, <1>11, <1>12, <1>13, <1>14, <1>15, <1>16 DEF CNext

LEMMA SamplesStart ==
  ASSUME CInit, StoreAssumption, NoneIsNoBucket PROVE Sampled /\ RInv
<1>1. PICK old \in OldFiles :
        trials = [x \in Trials |->
          IF \E n \in DOMAIN old : old[n] = x
            THEN [idx |-> CHOOSE n \in DOMAIN old : old[n] = x, count |-> None,
                  kind |-> CHOOSE kind \in Kinds : TRUE, samples |-> OldSamples(x, script[x])]
            ELSE None]
  BY DEF CInit, Init
<1>2. script \in Scripts /\ streams = [x \in Trials |-> NoStream]
      /\ request = [r \in Requests |-> NoRequest] /\ export = NoExport /\ disk = <<>> /\ import = NoImport
  BY DEF CInit, Init
<1>3. StreamSamples
  BY <1>2, NoneSampled DEF StreamSamples
<1>4. ASSUME NEW x \in Trials, trials[x] # None, NEW t \in DOMAIN trials[x].samples
      PROVE  IsSample(trials[x].samples[t]) /\ trials[x].samples[t].tick = t
  <2> DEFINE log == script[x]
             k == CHOOSE k \in DOMAIN log : log[k].tick = t
  <2>1. trials[x].samples = OldSamples(x, log)
    BY <1>1, <1>4
  <2>2. t \in {log[j].tick : j \in DOMAIN log}
    BY <1>4, <2>1 DEF OldSamples
  <2>3. k \in DOMAIN log /\ log[k].tick = t
    BY <2>2
  <2>4. log[k].tick \in Nat
    BY <1>2, <2>3 DEF StoreAssumption
  <2>5. trials[x].samples[t] = StoredSample(x, log[k], [i \in DOMAIN Actors |-> i])
    BY <2>1, <2>2 DEF OldSamples
  <2> HIDE DEF k, log
  <2> QED BY <2>3, <2>4, <2>5, StoredIsSample
<1>5. DiskSamples
  BY <1>2, EmptyIsSeq DEF DiskSamples, NoExport, NoImport
<1>6. RInv
  <2>1. /\ DOMAIN NoRequest = RequestFields /\ DOMAIN NoRequest.last = {} /\ DOMAIN NoRequest.queue = {}
        /\ DOMAIN NoRequest.at = {} /\ DOMAIN NoRequest.got = {}
    BY DEF NoRequest, RequestFields
  <2> QED BY <1>2, <2>1 DEF RInv, Observing, Observed
<1> QED BY <1>3, <1>4, <1>5, <1>6 DEF Sampled, Stored, StoredTicks

LEMMA RequestsSuffice ==
  ASSUME IInv, Sampled, RInv, StoreAssumption PROVE RetrievedInOrder
<1> SUFFICES ASSUME NEW r \in Requests, NEW x \in Observed(r) \cap Buckets,
                    trials[x].idx = request[r].at[x], request[r].last[x] # None
             PROVE  LET got == request[r].got[x]
                    IN [k \in DOMAIN got |-> got[k].tick]
                         = Sorted({t \in DOMAIN trials[x].samples : t <= request[r].last[x]})
  BY DEF RetrievedInOrder
<1> DEFINE T == DOMAIN trials[x].samples
           last == request[r].last[x]
           got == request[r].got[x]
           ticks == [k \in DOMAIN got |-> got[k].tick]
           S == {t \in T : t <= last}
<1>1. x \in Trials /\ trials[x] # None /\ Coming(r, x) /\ Samples(got)
  BY DEF RInv, Observing, Observed, Buckets
<1>2. T \subseteq Nat
  BY <1>1, TicksAreNumbers
<1>3. Rise(got) /\ last \in T /\ Ticks(got) = T \ Later(T, last) /\ last # None
  BY <1>1 DEF Coming, InTurn
<1>4. PICK n \in Nat : DOMAIN got = 1..n
  BY <1>1 DEF Samples, IsSeq
<1> HIDE DEF T, last, got
<1>5. S = T \ Later(T, last)
  <2>1. last \in Nat /\ \A t \in T : t \in Nat
    BY <1>2, <1>3
  <2>2. \A t \in T : t <= last <=> ~(last = None \/ t > last)
    BY <1>3, <2>1
  <2> QED BY <2>2 DEF Later
<1>6. \A k \in DOMAIN got : got[k].tick \in S
  BY <1>3, <1>5 DEF Ticks
<1>7. \A e \in S : \E k \in DOMAIN got : got[k].tick = e
  BY <1>3, <1>5 DEF Ticks
<1>8. S \subseteq Int
  <2>1. S \subseteq Nat
    BY <1>2
  <2> HIDE DEF S
  <2> QED BY <2>1
<1> HIDE DEF S
<1>9. ticks \in Seq(S) /\ \A e \in S : \E k \in DOMAIN ticks : ticks[k] = e
  BY <1>4, <1>6, <1>7
<1>10. Ascends(ticks)
  BY <1>2, <1>3 DEF Rise, Ascends
<1> HIDE DEF ticks
<1>11. ticks = Sorted(S)
  BY <1>8, <1>9, <1>10, SortedIs
<1> QED BY <1>11 DEF ticks, S, T, last, got

\* As long as each trial's samples are stored in the order of their ticks, a client of
\* RetrieveSamples has those of its trial from the first to the last it was given, in order,
\* each once and without a gap, for any number of calls and trials, while they are logged,
\* written again, deleted, created anew and imported, and wherever the process dies.
THEOREM RetrievedInOrderAlways ==
  ASSUME NoneIsNoBucket PROVE CSpec /\ [][InOrder]_trials => []RetrievedInOrder
<1>1. CInit => IInv /\ Sampled /\ RInv
  BY InvStarts, SamplesStart, StoreAssumption
<1>2. UNCHANGED trials => InOrder
  BY DEF InOrder
<1>3. IInv /\ Sampled /\ RInv /\ [CNext]_allVars /\ [InOrder]_trials => (IInv /\ Sampled /\ RInv)'
  <2> SUFFICES ASSUME IInv, Sampled, RInv, [CNext]_allVars, [InOrder]_trials PROVE (IInv /\ Sampled /\ RInv)'
    OBVIOUS
  <2>1. IInv'
    BY NextKeeps, StoreAssumption, ClientsAssumption
  <2>2. Sampled' /\ Grows /\ InOrder
    BY <1>2, NextStores, StoreAssumption, ClientsAssumption
  <2>3. RInv'
    BY <2>2, NextRequests, StoreAssumption, ClientsAssumption
  <2> QED BY <2>1, <2>2, <2>3
<1>4. IInv /\ Sampled /\ RInv => RetrievedInOrder
  BY RequestsSuffice, StoreAssumption
<1> QED BY <1>1, <1>3, <1>4, PTL DEF CSpec

-----------------------------------------------------------------------------
(* An export and an import of the file                                     *)

\* A sample of a trial is not written again with something else in it.
Kept ==
  \A x \in Trials : trials[x] # None /\ trials'[x] # None /\ trials'[x].idx = trials[x].idx =>
    \A t \in DOMAIN trials[x].samples \cap DOMAIN trials'[x].samples :
      trials'[x].samples[t] = trials[x].samples[t]

Is(x, at) == trials[x] # None /\ trials[x].idx = at

\* The samples of a trial bear its name.
Names(x, q) == \A k \in DOMAIN q : q[k].trial = x
Bucketed(x) == trials[x] # None => \A t \in DOMAIN trials[x].samples : trials[x].samples[t].trial = x
Named == \A x \in Trials : Names(x, streams[x].chunk) /\ Bucketed(x)

\* The export's retrieval hands over the samples of its trials as they are stored.
sent == request[Exporter]
Exact(x, q) ==
  \A k \in DOMAIN q : q[k].tick \in DOMAIN trials[x].samples /\ q[k] = trials[x].samples[q[k].tick]
Passed ==
  /\ DOMAIN sent.ended = DOMAIN sent.last
  /\ \A x \in DOMAIN sent.last :
       /\ sent.filter = All /\ Names(x, sent.queue[x]) /\ Names(x, sent.got[x])
       /\ sent.ended[x] => sent.got[x] # <<>>
       /\ Is(x, sent.at[x]) => Exact(x, sent.got[x]) /\ Exact(x, sent.queue[x])

\* What was counted is there as long as the trial is.
Begun ==
  /\ exports \in {0, 1} /\ (exports = 0 => export = NoExport /\ disk = <<>>)
  /\ export.is = "counted" => disk = <<>> /\ export.left = export.counted
  /\ DOMAIN export.left \subseteq DOMAIN export.counted /\ DOMAIN export.counted \subseteq export.of
  /\ DOMAIN export.counted \subseteq Trials
  /\ \A x \in DOMAIN export.counted :
       /\ export.counted[x] \in Nat \ {0} /\ export.at[x] \in 1..sequence
       /\ x \in DOMAIN export.left => export.left[x] \in 1..export.counted[x]
       /\ Is(x, export.at[x]) => export.counted[x] <= Cardinality(DOMAIN trials[x].samples)

\* The file has, of each trial, what the client was given first, until it has as
\* many samples as were counted.
Copied(x) ==
  LET left == IF x \in DOMAIN export.left THEN export.left[x] ELSE 0
      got == sent.got[x]
  IN /\ x \in DOMAIN sent.last
     /\ Len(Of(x)) = export.counted[x] - left /\ Len(Of(x)) <= Len(got)
     /\ \A n \in 1..Len(Of(x)) : Of(x)[n] = got[n]
     /\ x \in DOMAIN export.left => Len(Of(x)) = Len(got)
     /\ Is(x, export.at[x]) => sent.at[x] = export.at[x]
     /\ Is(x, export.at[x]) /\ (got # <<>> \/ sent.queue[x] # <<>>) =>
          export.counted[x] <= Len(got) + Len(sent.queue[x])
Exported ==
  /\ export.is \in {"reading", "closing", "done"} =>
       /\ disk # <<>> /\ disk[1].header = DOMAIN export.counted
       /\ \A k \in 2..Len(disk) : disk[k].trial \in DOMAIN export.counted
       /\ \A x \in DOMAIN export.counted : Copied(x)
  /\ export.is = "reading" => Len(disk) = export.pos
  /\ export.is = "closing" => DOMAIN export.left = {}
  /\ export.is = "done" =>
       sent.is # "open" /\ \A x \in DOMAIN export.left : sent.ended[x] /\ sent.queue[x] = <<>>

\* The samples the import has read are stored, as long as the trials it added are there.
Arrived(x) ==
  LET to == Prefixed[x]
  IN /\ import.at[x] \in 1..sequence
     /\ Is(to, import.at[x]) => \A k \in 2..import.pos : disk[k].trial = x =>
          /\ disk[k].tick \in DOMAIN trials[to].samples
          /\ Same(disk[k], trials[to].samples[disk[k].tick], to)
Imported ==
  /\ import.is # "idle" => export.is \in {"done", "failed"}
  /\ import.is = "idle" => import = NoImport
  /\ DOMAIN import.at = DOMAIN import.read
  /\ import.is \in {"reading", "done"} =>
       /\ disk # <<>> /\ import.pos \in 1..Len(disk) /\ DOMAIN import.read \subseteq disk[1].header
       /\ \A k \in 2..import.pos : disk[k].trial \in DOMAIN import.read
       /\ \A x \in DOMAIN import.read : Arrived(x)
  /\ import.is = "done" => import.pos = Len(disk)
TInv == Named /\ Passed /\ Begun /\ Exported /\ Imported

-----------------------------------------------------------------------------
(* The samples of a trial in a file                                        *)

LEMMA AppendFacts ==
  ASSUME NEW s, IsSeq(s), NEW e
  PROVE  /\ IsSeq(Append(s, e)) /\ Len(s) \in Nat /\ DOMAIN s = 1..Len(s)
         /\ Len(Append(s, e)) = Len(s) + 1 /\ DOMAIN Append(s, e) = 1..(Len(s) + 1)
         /\ Append(s, e)[Len(s) + 1] = e /\ \A k \in 1..Len(s) : Append(s, e)[k] = s[k]
<1>1. PICK S : s \in Seq(S)
  BY DEF IsSeq
<1>2. s \in Seq(S \cup {e}) /\ e \in S \cup {e}
  BY <1>1
<1>3. Append(s, e) \in Seq(S \cup {e})
  BY <1>2
<1>4. IsSeq(Append(s, e))
  BY <1>3 DEF IsSeq
<1> QED BY <1>1, <1>2, <1>4

\* A greater element comes last.
LEMMA SortedLast ==
  ASSUME NEW S, IsFiniteSet(S), S \subseteq Nat, NEW m \in Nat, \A e \in S : e < m
  PROVE  Sorted(S \cup {m}) = Append(Sorted(S), m)
<1> DEFINE s == Sorted(S)
           more == Append(s, m)
           R == S \cup {m}
<1>1. S \subseteq Int /\ R \subseteq Int
  OBVIOUS
<1>2. s \in Seq(S) /\ Ascends(s) /\ \A e \in S : \E k \in DOMAIN s : s[k] = e
  BY <1>1, SortedFacts
<1> HIDE DEF s
<1>3. /\ Len(s) \in Nat /\ DOMAIN s = 1..Len(s) /\ DOMAIN more = 1..(Len(s) + 1)
      /\ more[Len(s) + 1] = m /\ \A k \in 1..Len(s) : more[k] = s[k]
  BY <1>2, AppendFacts DEF IsSeq
<1>4. more \in Seq(R)
  BY <1>2
<1>5. Ascends(more)
  <2> SUFFICES ASSUME NEW j \in 1..(Len(s) + 1), NEW k \in 1..(Len(s) + 1), j < k
               PROVE  more[j] < more[k]
    BY <1>3 DEF Ascends
  <2>1. j \in 1..Len(s) /\ more[j] = s[j] /\ s[j] \in S
    BY <1>2, <1>3
  <2>2. CASE k = Len(s) + 1
    BY <1>3, <2>1, <2>2
  <2>3. CASE k # Len(s) + 1
    <3>1. k \in 1..Len(s) /\ more[k] = s[k]
      BY <1>3, <2>3
    <3> QED BY <1>2, <1>3, <2>1, <3>1 DEF Ascends
  <2> QED BY <2>2, <2>3
<1>6. ASSUME NEW e \in R PROVE \E k \in DOMAIN more : more[k] = e
  <2>1. CASE e = m
    <3>1. Len(s) + 1 \in DOMAIN more
      BY <1>3
    <3> QED BY <1>3, <2>1, <3>1
  <2>2. CASE e \in S
    <3>1. PICK k \in DOMAIN s : s[k] = e
      BY <1>2, <2>2
    <3>2. k \in DOMAIN more /\ more[k] = s[k]
      BY <1>3
    <3> QED BY <3>1, <3>2
  <2> QED BY <2>1, <2>2
<1> HIDE DEF more, R
<1>7. more = Sorted(R)
  BY <1>1, <1>4, <1>5, <1>6, SortedIs
<1> QED BY <1>7 DEF more, R, s

\* The order of the elements up to one of them does not depend on those after it.
LEMMA SortedPrefix ==
  ASSUME NEW T, IsFiniteSet(T), T \subseteq Nat, NEW last \in Nat
  PROVE  LET S == {t \in T : t <= last}
         IN /\ IsFiniteSet(S) /\ Len(Sorted(S)) <= Len(Sorted(T)) /\ DOMAIN Sorted(T) = 1..Cardinality(T)
            /\ \A k \in 1..Len(Sorted(S)) : Sorted(T)[k] = Sorted(S)[k]
<1> DEFINE S == {t \in T : t <= last}
           R == T \ S
           s == Sorted(S)
           r == Sorted(R)
           all == s \o r
<1>1. S \in SUBSET T /\ R \in SUBSET T
  OBVIOUS
<1>2. IsFiniteSet(S) /\ IsFiniteSet(R)
  BY <1>1, FS_Subset
<1>3. S \subseteq Int /\ R \subseteq Int /\ T \subseteq Int
  <2>1. T \subseteq Int
    OBVIOUS
  <2> HIDE DEF S, R
  <2> QED BY <1>1, <2>1
<1>4. ASSUME NEW e \in S, NEW f \in R PROVE e < f
  <2>1. e \in Nat /\ f \in Nat /\ e <= last /\ ~(f <= last)
    OBVIOUS
  <2> QED BY <2>1
<1>5. S \cup R = T
  OBVIOUS
<1> HIDE DEF S, R
<1>6. /\ s \in Seq(S) /\ Ascends(s) /\ \A e \in S : \E k \in DOMAIN s : s[k] = e
      /\ r \in Seq(R) /\ Ascends(r) /\ \A e \in R : \E k \in DOMAIN r : r[k] = e
  BY <1>2, <1>3, SortedFacts
<1> HIDE DEF s, r
<1>7. IsSeq(s) /\ IsSeq(r)
  BY <1>6 DEF IsSeq
<1>8. /\ Len(all) = Len(s) + Len(r) /\ DOMAIN all = 1..(Len(s) + Len(r))
      /\ DOMAIN s = 1..Len(s) /\ DOMAIN r = 1..Len(r) /\ Len(s) \in Nat /\ Len(r) \in Nat
      /\ \A k \in 1..Len(s) : all[k] = s[k]
      /\ \A k \in 1..Len(r) : all[Len(s) + k] = r[k]
  BY <1>7, ConcatFacts
<1>9. all \in Seq(T)
  BY <1>5, <1>6
<1> HIDE DEF all
<1>10. ASSUME NEW k \in 1..(Len(s) + Len(r)), k \notin 1..Len(s)
       PROVE  k - Len(s) \in 1..Len(r) /\ all[k] = r[k - Len(s)]
  <2>1. k - Len(s) \in 1..Len(r) /\ k = Len(s) + (k - Len(s))
    BY <1>8, <1>10
  <2> QED BY <1>8, <2>1
<1>11. Ascends(all)
  <2> SUFFICES ASSUME NEW j \in 1..(Len(s) + Len(r)), NEW k \in 1..(Len(s) + Len(r)), j < k
               PROVE  all[j] < all[k]
    BY <1>8 DEF Ascends
  <2>1. CASE k \in 1..Len(s)
    <3>1. j \in 1..Len(s)
      BY <1>8, <2>1
    <3> QED BY <1>6, <1>8, <2>1, <3>1 DEF Ascends
  <2>2. CASE j \in 1..Len(s) /\ k \notin 1..Len(s)
    <3>1. all[j] \in S /\ all[k] \in R
      BY <1>6, <1>8, <1>10, <2>2
    <3> QED BY <1>4, <3>1
  <2>3. CASE j \notin 1..Len(s)
    <3>1. k \notin 1..Len(s)
      BY <1>8, <2>3
    <3>2. j - Len(s) \in DOMAIN r /\ k - Len(s) \in DOMAIN r /\ all[j] = r[j - Len(s)] /\ all[k] = r[k - Len(s)]
      BY <1>8, <1>10, <2>3, <3>1
    <3>3. j - Len(s) < k - Len(s)
      BY <1>8
    <3> QED BY <1>6, <3>2, <3>3 DEF Ascends
  <2> QED BY <2>1, <2>2, <2>3
<1>12. ASSUME NEW e \in T PROVE \E k \in DOMAIN all : all[k] = e
  <2>1. CASE e \in S
    <3>1. PICK k \in DOMAIN s : s[k] = e
      BY <1>6, <2>1
    <3>2. k \in DOMAIN all /\ all[k] = e
      BY <1>8, <3>1
    <3> QED BY <3>2
  <2>2. CASE e \in R
    <3>1. PICK k \in DOMAIN r : r[k] = e
      BY <1>6, <2>2
    <3>2. Len(s) + k \in DOMAIN all /\ all[Len(s) + k] = e
      BY <1>8, <3>1
    <3> QED BY <3>2
  <2> QED BY <1>5, <2>1, <2>2
<1>13. all = Sorted(T)
  BY <1>3, <1>9, <1>11, <1>12, SortedIs
<1>14. DOMAIN Sorted(T) = 1..Cardinality(T) /\ Len(Sorted(T)) = Len(all)
  BY <1>13 DEF Sorted
<1>15. Len(s) <= Len(Sorted(T)) /\ \A k \in 1..Len(s) : Sorted(T)[k] = s[k]
  BY <1>8, <1>13
<1> QED BY <1>2, <1>14, <1>15 DEF S, s

PlacesIn(x) == {k \in 2..Len(disk) : disk[k].trial = x}

LEMMA OfFacts ==
  ASSUME IsSeq(disk), NEW x
  PROVE  /\ IsFiniteSet(PlacesIn(x)) /\ PlacesIn(x) \subseteq Nat
         /\ IsSeq(Of(x)) /\ DOMAIN Of(x) = 1..Len(Of(x)) /\ Len(Of(x)) \in Nat
         /\ IsSeq(Sorted(PlacesIn(x))) /\ Len(Sorted(PlacesIn(x))) = Len(Of(x))
         /\ DOMAIN Of(x) = DOMAIN Sorted(PlacesIn(x))
         /\ \A n \in DOMAIN Of(x) :
              Sorted(PlacesIn(x))[n] \in PlacesIn(x) /\ Of(x)[n] = disk[Sorted(PlacesIn(x))[n]]
         /\ PlacesIn(x) = {} => Len(Of(x)) = 0
<1> DEFINE P == PlacesIn(x)
           at == Sorted(P)
<1>1. Len(disk) \in Nat
  BY DEF IsSeq
<1>2. IsFiniteSet(2..Len(disk)) /\ P \in SUBSET (2..Len(disk)) /\ P \subseteq Nat
  BY <1>1, FS_Interval DEF PlacesIn
<1>3. IsFiniteSet(P) /\ P \subseteq Int
  BY <1>2, FS_Subset
<1>4. at \in Seq(P) /\ Len(at) = Cardinality(P)
  BY <1>3, SortedFacts
<1>5. Of(x) = [n \in DOMAIN at |-> disk[at[n]]]
  BY DEF Of, PlacesIn
<1> HIDE DEF at
<1>6. DOMAIN at = 1..Len(at) /\ Len(at) \in Nat /\ \A n \in DOMAIN at : at[n] \in P
  BY <1>4
<1> HIDE DEF P
<1>7. IsSeq(Of(x)) /\ DOMAIN Of(x) = 1..Len(at) /\ Len(Of(x)) = Len(at)
  <2> DEFINE R == {disk[k] : k \in P}
             l == Len(at)
  <2>1. \A n \in DOMAIN at : disk[at[n]] \in R
    BY <1>6
  <2> HIDE DEF R, l
  <2>2. Of(x) \in [1..l -> R] /\ l \in Nat
    BY <1>5, <1>6, <2>1 DEF l
  <2>3. Of(x) \in Seq(R)
    BY <2>2
  <2>4. Len(Of(x)) = l /\ DOMAIN Of(x) = 1..l
    BY <2>2, <2>3
  <2> QED BY <2>3, <2>4 DEF IsSeq, l
<1>10. IsSeq(at)
  BY <1>4 DEF IsSeq
<1>9. P = {} => Len(at) = 0
  BY <1>4, FS_EmptySet
<1> QED BY <1>2, <1>3, <1>5, <1>6, <1>7, <1>9, <1>10 DEF P, at

LEMMA WrittenLast ==
  ASSUME IsSeq(disk), export.pos = Len(disk), export.pos # 0, NEW m, disk' = Written(m)
  PROVE  /\ disk' # <<>> /\ Len(disk) \in Nat \ {0} /\ Len(disk') = Len(disk) + 1 /\ disk'[Len(disk) + 1] = m
         /\ \A k \in 1..Len(disk) : disk'[k] = disk[k]
<1> DEFINE n == Len(disk)
<1>1. n \in Nat \ {0}
  BY DEF IsSeq
<1>2. disk' = [k \in 1..(n + 1) |-> IF k = n + 1 THEN m ELSE disk[k]]
  BY <1>1 DEF Written
<1> HIDE DEF n
<1>3. disk' \in Seq({disk'[k] : k \in 1..(n + 1)})
  BY <1>1, <1>2
<1> QED BY <1>1, <1>2, <1>3 DEF n

\* A message at the end of the file comes after those of its trial.
LEMMA OfGrows ==
  ASSUME IsSeq(disk), export.pos = Len(disk), export.pos # 0, NEW m, disk' = Written(m), NEW x
  PROVE  Of(x)' = IF m.trial = x THEN Append(Of(x), m) ELSE Of(x)
<1> DEFINE n == Len(disk)
           P == PlacesIn(x)
           Q == IF m.trial = x THEN P \cup {n + 1} ELSE P
<1>1. n \in Nat \ {0} /\ DOMAIN disk = 1..n
  BY WrittenLast DEF IsSeq
<1>3. Len(disk') = n + 1 /\ disk'[n + 1] = m /\ \A k \in 1..n : disk'[k] = disk[k]
  BY WrittenLast
<1> HIDE DEF n
<1>4. P = {k \in 2..n : disk[k].trial = x}
  BY DEF PlacesIn, n
<1>5. {k \in 2..Len(disk') : disk'[k].trial = x} = Q
  <2>1. 2..(n + 1) = (2..n) \cup {n + 1} /\ n + 1 \notin 2..n /\ \A k \in 2..n : k \in 1..n
    BY <1>1
  <2>2. \A k : k \in 2..n => disk'[k] = disk[k]
    BY <1>3, <2>1
  <2> QED BY <1>3, <1>4, <2>1, <2>2
<1>6. /\ IsFiniteSet(P) /\ P \subseteq Nat /\ IsSeq(Of(x)) /\ DOMAIN Of(x) = DOMAIN Sorted(P)
      /\ DOMAIN Of(x) = 1..Len(Of(x)) /\ Len(Of(x)) \in Nat
      /\ \A k \in DOMAIN Of(x) : Sorted(P)[k] \in P /\ Of(x)[k] = disk[Sorted(P)[k]]
      /\ IsSeq(Sorted(P)) /\ Len(Sorted(P)) = Len(Of(x))
  BY OfFacts
<1>7. \A k \in P : k \in 1..n /\ k < n + 1
  BY <1>1, <1>4
<1> HIDE DEF P
<1>8. Of(x)' = [k \in DOMAIN Sorted(Q) |-> disk'[Sorted(Q)[k]]]
  BY <1>5 DEF Of
<1>9. CASE m.trial # x
  <2>1. Q = P
    BY <1>9
  <2> HIDE DEF Q
  <2>2. \A k \in DOMAIN Of(x) : disk'[Sorted(P)[k]] = Of(x)[k]
    BY <1>3, <1>6, <1>7
  <2>3. Of(x) = [k \in DOMAIN Sorted(P) |-> Of(x)[k]]
    BY <1>6 DEF Of
  <2>4. Of(x)' = Of(x)
    BY <1>6, <1>8, <2>1, <2>2, <2>3
  <2> QED BY <1>9, <2>4
<1>10. CASE m.trial = x
  <2> DEFINE l == Len(Of(x))
  <2>1. Sorted(Q) = Append(Sorted(P), n + 1)
    <3>1. n + 1 \in Nat
      BY <1>1
    <3> QED BY <1>6, <1>7, <1>10, <3>1, SortedLast
  <2>2. IsSeq(Sorted(P)) /\ Len(Sorted(P)) = l
    BY <1>6
  <2> HIDE DEF l, Q
  <2>3. /\ DOMAIN Sorted(Q) = 1..(l + 1) /\ Sorted(Q)[l + 1] = n + 1
        /\ \A k \in 1..l : Sorted(Q)[k] = Sorted(P)[k]
    BY <2>1, <2>2, AppendFacts
  <2>4. /\ IsSeq(Append(Of(x), m)) /\ DOMAIN Append(Of(x), m) = 1..(l + 1)
        /\ Append(Of(x), m)[l + 1] = m /\ \A k \in 1..l : Append(Of(x), m)[k] = Of(x)[k]
        /\ l \in Nat /\ DOMAIN Of(x) = 1..l
    BY <1>6, AppendFacts DEF l
  <2>5. ASSUME NEW k \in 1..(l + 1) PROVE disk'[Sorted(Q)[k]] = Append(Of(x), m)[k]
    <3>1. CASE k = l + 1
      BY <1>3, <2>3, <2>4, <3>1
    <3>2. CASE k # l + 1
      <4>1. k \in 1..l
        BY <2>4, <3>2
      <4>2. Sorted(Q)[k] = Sorted(P)[k] /\ Sorted(P)[k] \in P /\ Of(x)[k] = disk[Sorted(P)[k]]
        BY <1>6, <2>3, <2>4, <4>1
      <4>3. disk'[Sorted(P)[k]] = disk[Sorted(P)[k]]
        BY <1>3, <1>7, <4>2
      <4> QED BY <2>4, <4>1, <4>2, <4>3
    <3> QED BY <3>1, <3>2
  <2>6. Append(Of(x), m) = [k \in 1..(l + 1) |-> Append(Of(x), m)[k]]
    <3> DEFINE more == Append(Of(x), m)
    <3>1. PICK S : more \in Seq(S)
      BY <2>4 DEF IsSeq
    <3> HIDE DEF more
    <3>2. more = [k \in DOMAIN more |-> more[k]]
      BY <3>1
    <3> QED BY <2>4, <3>2 DEF more
  <2>7. Of(x)' = Append(Of(x), m)
    BY <1>8, <2>3, <2>5, <2>6
  <2> QED BY <1>10, <2>7
<1> QED BY <1>9, <1>10

-----------------------------------------------------------------------------
(* Samples bear the name of their trial                                    *)

Chunks == \A x \in Trials : Names(x, streams[x].chunk)

\* A bucket has the samples of a batch where their ticks say, and the others it had.
LEMMA FromBatch ==
  ASSUME NEW b, IsBucket(b), NEW batch, Samples(batch)
  PROVE  LET c == WithSamples(b, batch)
         IN /\ DOMAIN c.samples = DOMAIN b.samples \cup Ticks(batch)
            /\ \A t \in Ticks(batch) : \E k \in DOMAIN batch : batch[k].tick = t /\ c.samples[t] = batch[k]
            /\ \A t \in DOMAIN b.samples \ Ticks(batch) : c.samples[t] = b.samples[t]
<1> DEFINE ticks == {batch[k].tick : k \in DOMAIN batch}
           lastOf(t) == CHOOSE k \in DOMAIN batch :
             batch[k].tick = t /\ \A m \in DOMAIN batch : batch[m].tick = t => m <= k
           c == WithSamples(b, batch)
           stored == [t \in DOMAIN b.samples \cup ticks |->
                       IF t \in ticks THEN batch[lastOf(t)] ELSE b.samples[t]]
<1>1. c.samples = stored
  BY DEF WithSamples, IsBucket, BucketFields
<1>2. ASSUME NEW t \in ticks PROVE lastOf(t) \in DOMAIN batch /\ batch[lastOf(t)].tick = t
  <2> DEFINE K == {k \in DOMAIN batch : batch[k].tick = t}
  <2>1. DOMAIN batch = 1..Len(batch) /\ Len(batch) \in Nat
    BY DEF Samples, IsSeq
  <2>2. IsFiniteSet(DOMAIN batch)
    BY <2>1, FS_Interval
  <2>3. K \in SUBSET DOMAIN batch /\ K \subseteq Nat /\ K # {}
    BY <2>1
  <2>4. IsFiniteSet(K)
    BY <2>2, <2>3, FS_Subset
  <2>5. \E k \in K : \A m \in K : m <= k
    BY <2>3, <2>4, LastOf
  <2>6. \E k \in DOMAIN batch : batch[k].tick = t /\ \A m \in DOMAIN batch : batch[m].tick = t => m <= k
    BY <2>5
  <2> QED BY <2>6
<1>3. ticks = Ticks(batch)
  BY DEF Ticks
<1> HIDE DEF lastOf, ticks, c
<1>4. /\ DOMAIN stored = DOMAIN b.samples \cup ticks
      /\ \A t \in ticks : stored[t] = batch[lastOf(t)]
      /\ \A t \in DOMAIN b.samples \ ticks : stored[t] = b.samples[t]
  OBVIOUS
<1> QED BY <1>1, <1>2, <1>3, <1>4 DEF c

LEMMA OneBucketed ==
  ASSUME FileInv, \A y \in Trials : Bucketed(y), NEW x, NEW b, trials' = [trials EXCEPT ![x] = b],
         \A t \in DOMAIN b.samples : b.samples[t].trial = x
  PROVE  \A y \in Trials : Bucketed(y)'
<1>1. \A y \in Trials : trials'[y] = IF y = x THEN b ELSE trials[y]
  BY DEF FileInv, Shape
<1> QED BY <1>1 DEF Bucketed

LEMMA PutNames ==
  ASSUME FileInv, \A y \in Trials : Bucketed(y), NEW x \in Trials, NEW kind, PutTrial(x, kind)
  PROVE  \A y \in Trials : Bucketed(y)'
<1>1. CASE trials[x] # None
  <2> DEFINE b == [trials[x] EXCEPT !.kind = kind]
  <2>1. trials' = [trials EXCEPT ![x] = b]
    BY <1>1 DEF PutTrial
  <2>2. b.samples = trials[x].samples
    BY <1>1 DEF FileInv, Shape, IsBucket, BucketFields
  <2> HIDE DEF b
  <2>3. \A t \in DOMAIN b.samples : b.samples[t].trial = x
    BY <1>1, <2>2 DEF Bucketed
  <2> QED BY <2>1, <2>3, OneBucketed
<1>2. CASE trials[x] = None
  <2> DEFINE b == [idx |-> sequence + 1, count |-> 0, kind |-> kind, samples |-> [t \in {} |-> None]]
  <2>1. trials' = [trials EXCEPT ![x] = b] /\ DOMAIN b.samples = {}
    BY <1>2 DEF PutTrial
  <2> HIDE DEF b
  <2>2. \A t \in DOMAIN b.samples : b.samples[t].trial = x
    BY <2>1
  <2> QED BY <2>1, <2>2, OneBucketed
<1> QED BY <1>1, <1>2

LEMMA AddNames ==
  ASSUME FileInv, \A y \in Trials : Bucketed(y), NEW x \in Trials, trials[x] # None,
         NEW batch, Samples(batch), Names(x, batch), AddSamples(x, batch)
  PROVE  \A y \in Trials : Bucketed(y)'
<1> DEFINE b == WithSamples(trials[x], batch)
<1>1. trials' = [trials EXCEPT ![x] = b]
  BY DEF AddSamples
<1>2. IsBucket(trials[x]) /\ \A t \in DOMAIN trials[x].samples : trials[x].samples[t].trial = x
  BY DEF FileInv, Shape, Bucketed
<1>3. /\ DOMAIN b.samples = DOMAIN trials[x].samples \cup Ticks(batch)
      /\ \A t \in Ticks(batch) : \E k \in DOMAIN batch : batch[k].tick = t /\ b.samples[t] = batch[k]
      /\ \A t \in DOMAIN trials[x].samples \ Ticks(batch) : b.samples[t] = trials[x].samples[t]
  BY <1>2, FromBatch
<1> HIDE DEF b
<1>4. \A t \in DOMAIN b.samples : b.samples[t].trial = x
  BY <1>2, <1>3 DEF Names
<1> QED BY <1>1, <1>4, OneBucketed

LEMMA DropNames ==
  ASSUME \A y \in Trials : Bucketed(y), NEW xs, Drop(xs) PROVE \A y \in Trials : Bucketed(y)'
<1>1. \A y \in Trials : trials'[y] = IF y \in xs THEN None ELSE trials[y]
  BY DEF Drop
<1> QED BY <1>1 DEF Bucketed

LEMMA MigrateNames ==
  ASSUME FileInv, \A y \in Trials : Bucketed(y), MigrateTrial PROVE \A y \in Trials : Bucketed(y)'
<1>1. PICK x \in pending : trials' = [trials EXCEPT ![x] = [@ EXCEPT !.count = SampleCount(trials[x])]]
  BY DEF MigrateTrial
<1> DEFINE b == [trials[x] EXCEPT !.count = SampleCount(trials[x])]
<1>2. x \in Trials /\ trials[x] # None /\ IsBucket(trials[x])
  BY DEF MigrateTrial, FileInv, Shape, Migration, Buckets
<1>3. b.samples = trials[x].samples /\ trials' = [trials EXCEPT ![x] = b]
  BY <1>1, <1>2 DEF IsBucket, BucketFields
<1> HIDE DEF b
<1>4. \A t \in DOMAIN b.samples : b.samples[t].trial = x
  BY <1>2, <1>3 DEF Bucketed
<1> QED BY <1>3, <1>4, OneBucketed

LEMMA ChunksKept ==
  ASSUME Streams, Chunks, NEW x \in Trials, NEW chunk, Names(x, chunk),
         \/ \E kind : streams' = [streams EXCEPT ![x].kind = kind]
         \/ streams' = [streams EXCEPT ![x] = NoStream]
         \/ streams' = [streams EXCEPT ![x].next = @ + 1, ![x].chunk = chunk]
         \/ streams' = [streams EXCEPT ![x].chunk = chunk]
         \/ UNCHANGED streams
  PROVE  Chunks'
<1>1. DOMAIN streams = Trials /\ Stream(streams[x])
  BY DEF Streams
<1>2. Names(x, <<>>) /\ NoStream.chunk = <<>>
  BY DEF Names, NoStream
<1>3. streams'[x].chunk \in {streams[x].chunk, chunk, <<>>}
  BY <1>1, <1>2 DEF Stream
<1>4. \A y \in Trials : y # x => streams'[y] = streams[y]
  BY <1>1
<1> QED BY <1>2, <1>3, <1>4 DEF Chunks

LEMMA LoggedNames ==
  ASSUME Streams, Chunks, Stored, NEW x \in Trials
  PROVE  Names(x, Append(streams[x].chunk, Logged(x, streams[x].next)))
<1> DEFINE q == streams[x].chunk
           s == Logged(x, streams[x].next)
<1>1. s.trial = x
  BY DEF Logged, StoredSample, EmptySample
<1>2. IsSeq(q) /\ Names(x, q)
  BY DEF Streams, Stream, Chunks
<1> HIDE DEF q, s
<1>3. /\ DOMAIN Append(q, s) = 1..(Len(q) + 1) /\ DOMAIN q = 1..Len(q) /\ Len(q) \in Nat
      /\ Append(q, s)[Len(q) + 1] = s /\ \A k \in 1..Len(q) : Append(q, s)[k] = q[k]
  BY <1>2, AppendFacts
<1>4. \A k \in 1..(Len(q) + 1) : k = Len(q) + 1 \/ k \in 1..Len(q)
  BY <1>3
<1>5. Names(x, Append(q, s))
  BY <1>1, <1>2, <1>3, <1>4 DEF Names
<1> QED BY <1>5 DEF q, s

LEMMA LoggingNames ==
  ASSUME FileInv, Streams, Stored, Named, StoreAssumption, NEW x \in Trials, Logging(x) PROVE Named'
<1> DEFINE more == Append(streams[x].chunk, Logged(x, streams[x].next))
<1>1. Chunks /\ \A y \in Trials : Bucketed(y)
  BY DEF Named, Chunks
<1>2. Names(x, more) /\ Names(x, <<>>) /\ Names(x, streams[x].chunk)
  BY <1>1, LoggedNames DEF Names, Chunks
<1>3. Samples(streams[x].chunk) /\ StreamSamples
  BY DEF Stored, StreamSamples
<1>4. ASSUME streams[x].next <= Len(script[x]) PROVE Samples(more)
  <2>1. IsSample(Logged(x, streams[x].next))
    BY <1>3, <1>4, NextIsSample
  <2> QED BY <1>3, <2>1, SamplesAppend
<1> HIDE DEF more
<1>5. ASSUME Die PROVE Named'
  BY <1>1, <1>5 DEF Die, file, Named, Names, Bucketed, NoStream
<1>6. ASSUME UNCHANGED trials, Chunks' PROVE Named'
  BY <1>1, <1>6 DEF Named, Chunks, Bucketed
<1>7. ASSUME NEW batch, Samples(batch), Names(x, batch), trials[x] # None, AddSamples(x, batch), Chunks'
      PROVE  Named'
  BY <1>1, <1>7, AddNames DEF Named, Chunks
<1>8. ASSUME NEW kind, PutTrial(x, kind), Chunks' PROVE Named'
  BY <1>1, <1>8, PutNames DEF Named, Chunks
<1>9. ASSUME NEW kind, StartLog(x, kind) \/ AddTrial(x, kind) PROVE Named'
  <2>1. PutTrial(x, kind) /\ (UNCHANGED streams \/ streams' = [streams EXCEPT ![x].kind = "log"])
    BY <1>9 DEF StartLog, AddTrial
  <2>2. Chunks'
    BY <1>1, <1>2, <2>1, ChunksKept
  <2> QED BY <1>8, <2>1, <2>2
<1>10. CASE StartUpload(x) \/ Log(x)
  <2>1. /\ UNCHANGED trials
        /\ \/ \E kind : streams' = [streams EXCEPT ![x].kind = kind]
           \/ streams' = [streams EXCEPT ![x].next = @ + 1, ![x].chunk = more]
    BY <1>10 DEF StartUpload, Log, more
  <2>2. Chunks'
    BY <1>1, <1>2, <2>1, ChunksKept
  <2> QED BY <1>6, <2>1, <2>2
<1>11. CASE EndLog(x)
  <2>1. CASE streams[x].kind = "failing"
    BY <1>5, <1>11, <2>1 DEF EndLog, Panic
  <2>2. CASE streams[x].kind # "failing"
    <3>1. /\ UNCHANGED trials
          /\ \/ streams' = [streams EXCEPT ![x] = NoStream]
             \/ streams' = [streams EXCEPT ![x].kind = "ended"]
      BY <1>11, <2>2 DEF EndLog
    <3>2. Chunks'
      BY <1>1, <1>2, <3>1, ChunksKept
    <3> QED BY <1>6, <3>1, <3>2
  <2> QED BY <2>1, <2>2
<1>12. CASE Flush(x)
  <2>1. CASE trials[x] # None
    <3>1. AddSamples(x, streams[x].chunk)
      BY <1>12, <2>1 DEF Flush
    <3>2. \/ streams' = [streams EXCEPT ![x] = NoStream]
          \/ streams' = [streams EXCEPT ![x].chunk = <<>>]
      BY <1>12, <2>1 DEF Flush
    <3>3. Chunks'
      BY <1>1, <1>2, <3>2, ChunksKept
    <3> QED BY <1>2, <1>3, <1>7, <2>1, <3>1, <3>3
  <2>2. CASE trials[x] = None /\ streams[x].kind = "ended"
    BY <1>5, <1>12, <2>2 DEF Flush, Panic
  <2>3. CASE trials[x] = None /\ streams[x].kind # "ended"
    <3>1. /\ UNCHANGED trials
          /\ \/ streams' = [streams EXCEPT ![x].kind = "failing"]
             \/ streams' = [streams EXCEPT ![x] = NoStream]
      BY <1>12, <2>3 DEF Flush
    <3>2. Chunks'
      BY <1>1, <1>2, <3>1, ChunksKept
    <3> QED BY <1>6, <3>1, <3>2
  <2> QED BY <2>1, <2>2, <2>3
<1>13. CASE Upload(x)
  <2>1. \/ /\ streams' = [streams EXCEPT ![x].next = @ + 1, ![x].chunk = more]
           /\ UNCHANGED trials
        \/ streams' = [streams EXCEPT ![x] = NoStream] /\ UNCHANGED trials
        \/ /\ trials[x] # None /\ AddSamples(x, more)
           /\ streams' = [streams EXCEPT ![x].next = @ + 1, ![x].chunk = <<>>]
    BY <1>13 DEF Upload, more
  <2>2. Samples(more)
    BY <1>4, <1>13 DEF Upload
  <2>3. Chunks'
    BY <1>1, <1>2, <2>1, ChunksKept
  <2> QED BY <1>2, <1>6, <1>7, <2>1, <2>2, <2>3
<1>14. CASE EndUpload(x)
  <2>1. /\ streams' = [streams EXCEPT ![x] = NoStream]
        /\ UNCHANGED trials \/ (trials[x] # None /\ AddSamples(x, streams[x].chunk))
    BY <1>14 DEF EndUpload
  <2>2. Chunks'
    BY <1>1, <1>2, <2>1, ChunksKept
  <2> QED BY <1>2, <1>3, <1>6, <1>7, <2>1, <2>2
<1> QED BY <1>9, <1>10, <1>11, <1>12, <1>13, <1>14 DEF Logging

LEMMA OthersNames ==
  ASSUME FileInv, Streams, Stored, Named, StoreAssumption, Others PROVE Named'
<1>1. ASSUME UNCHANGED <<trials, streams>> PROVE Named'
  BY <1>1 DEF Named, Names, Bucketed
<1>2. ASSUME Die PROVE Named'
  BY <1>2 DEF Die, file, Named, Names, Bucketed, NoStream
<1>3. ASSUME UNCHANGED streams, \A y \in Trials : Bucketed(y)' PROVE Named'
  BY <1>3 DEF Named, Names
<1>4. \A y \in Trials : Bucketed(y)
  BY DEF Named
<1>5. CASE Open \/ Migrated
  BY <1>1, <1>5 DEF Open, Migrated, file, calls
<1>6. CASE MigrateTrial
  BY <1>3, <1>4, <1>6, MigrateNames DEF MigrateTrial, calls
<1>7. ASSUME NEW xs, Delete(xs) PROVE Named'
  BY <1>3, <1>4, <1>7, DropNames DEF Delete
<1>8. ASSUME NEW r, Retrieving(r) \/ \E x : ReadRound(r, x) PROVE Named'
  <2>1. ASSUME NEW x, ReadRound(r, x) PROVE Named'
    BY <1>1, <1>2, <2>1 DEF ReadRound, Panic, callOnly
  <2> QED BY <1>1, <1>8, <2>1 DEF Retrieving, Retrieve, Give, Finish, Leave, callOnly
<1>9. ASSUME NEW l, Listing(l) PROVE Named'
  BY <1>1, <1>9 DEF Listing, StartList, List, Poll, Timeout, Reply, Set, callOnly
<1>10. CASE Crash
  BY <1>2, <1>10 DEF Crash
<1> QED BY <1>5, <1>6, <1>7, <1>8, <1>9, <1>10, LoggingNames DEF Others

LEMMA NextNames ==
  ASSUME IInv, Sampled, Named, StoreAssumption, ClientsAssumption, [CNext]_allVars PROVE Named'
<1>1. FileInv /\ Streams /\ Transfers /\ Stored /\ DiskSamples
  BY DEF IInv, Sampled
<1>2. ASSUME UNCHANGED <<trials, streams>> PROVE Named'
  BY <1>2 DEF Named, Names, Bucketed
<1>3. CASE Others
  BY <1>1, <1>3, OthersNames
<1>4. CASE UNCHANGED vars
  BY <1>2, <1>4 DEF vars, file, calls
<1>5. ASSUME NEW xs, CountSamples(xs) PROVE Named'
  BY <1>2, <1>5 DEF CountSamples, callOnly
<1>6. CASE AskSamples \/ EndExport \/ \E x \in Trials : Receive(x)
  <2>1. UNCHANGED vars \/ callOnly
    BY <1>6 DEF AskSamples, EndExport, Receive, Retrieve, Give, Finish, Leave
  <2> QED BY <1>2, <1>4, <2>1 DEF callOnly
<1>7. ASSUME NEW kind \in Kinds, ImportTrial(kind) PROVE Named'
  <2> DEFINE x == NextSample.trial
  <2>1. CASE x \notin disk[1].header
    BY <1>4, <1>7, <2>1 DEF ImportTrial
  <2>2. CASE x \in disk[1].header
    <3>1. Prefixed[x] \in Trials /\ AddTrial(Prefixed[x], kind)
      BY <1>1, <1>7, <2>2 DEF ImportTrial, MoreSamples, Transfers, ClientsAssumption
    <3> QED BY <1>1, <3>1, LoggingNames DEF Logging
  <2> QED BY <2>1, <2>2
<1>8. CASE ImportSample
  <2> DEFINE to == Prefixed[NextSample.trial]
             s == [NextSample EXCEPT !.trial = to]
  <2>1. CASE to \notin Buckets
    BY <1>4, <1>8, <2>1 DEF ImportSample
  <2>2. CASE to \in Buckets
    <3>1. /\ to \in Trials /\ trials[to] # None /\ AddSamples(to, <<s>>) /\ UNCHANGED streams
      BY <1>8, <2>2 DEF ImportSample, Buckets, calls
    <3>2. IsSample(NextSample)
      <4>1. import.pos + 1 \in DOMAIN disk /\ import.pos + 1 # 1
        BY <1>1, <1>8 DEF ImportSample, MoreSamples, DiskSamples, IsSeq
      <4> QED BY <1>1, <4>1 DEF DiskSamples, NextSample
    <3>3. IsSample(s) /\ s.trial = to
      BY <3>2 DEF IsSample, SampleFields
    <3> HIDE DEF s, to
    <3>4. Samples(<<s>>) /\ Names(to, <<s>>)
      <4>1. DOMAIN <<s>> = {1} /\ <<s>>[1] = s
        OBVIOUS
      <4> QED BY <3>3, <4>1, OneIsSeq DEF Samples, Names
    <3>5. \A y \in Trials : Bucketed(y)'
      BY <1>1, <3>1, <3>4, AddNames DEF Named
    <3> QED BY <3>1, <3>5 DEF Named, Names
  <2> QED BY <2>1, <2>2
<1>9. CASE CheckTrials \/ RefuseExport \/ EndImport
  BY <1>4, <1>9 DEF CheckTrials, RefuseExport, EndImport
<1> QED BY <1>3, <1>4, <1>5, <1>6, <1>7, <1>8, <1>9 DEF CNext, allVars

-----------------------------------------------------------------------------
(* What the steps of others do to a transfer                               *)

\* The export's retrieval stays as it is, unless it is cut off.
SentKept ==
  /\ DOMAIN sent' = RequestFields /\ \A f \in RequestFields \ {"is"} : sent'[f] = sent[f]
  /\ sent'.is = "open" => sent.is = "open"

LEMMA OthersSent ==
  ASSUME RInv, ClientsAssumption, Others
  PROVE  SentKept \/ \E x : ReadRound(Exporter, x) /\ trials[x] # None
<1>1. DOMAIN request = Requests /\ DOMAIN sent = RequestFields /\ Exporter \in Requests
  BY DEF RInv, Observing, ClientsAssumption, sent
<1>2. ASSUME sent' = sent PROVE SentKept
  BY <1>1, <1>2 DEF SentKept
<1>3. ASSUME Die PROVE SentKept
  <2>1. sent' = IF sent.is = "open" THEN [sent EXCEPT !.is = "failed"] ELSE sent
    BY <1>1, <1>3 DEF Die, sent
  <2>2. sent'.is = "open" => sent.is = "open"
    BY <1>1, <2>1 DEF RequestFields
  <2> QED BY <1>1, <2>1, <2>2 DEF SentKept, RequestFields
<1>4. ASSUME NEW r \in Requests \ {Exporter}, Retrieving(r) PROVE SentKept
  <2>1. ASSUME NEW q, request' = [request EXCEPT ![r] = q] PROVE SentKept
    BY <1>1, <1>2, <2>1 DEF sent
  <2>2. ASSUME NEW x, ReadRound(r, x) PROVE SentKept
    <3>1. Die \/ \E q : request' = [request EXCEPT ![r] = q]
      BY <2>2 DEF ReadRound, Panic
    <3> QED BY <1>3, <2>1, <3>1
  <2>3. ASSUME NEW x, Give(r, x) PROVE SentKept
    BY <2>1, <2>3 DEF Give
  <2>4. ASSUME NEW xs, NEW filter, Retrieve(r, xs, filter) PROVE SentKept
    BY <2>1, <2>4 DEF Retrieve
  <2>5. CASE Finish(r) \/ Leave(r)
    BY <2>1, <2>5 DEF Finish, Leave
  <2> QED BY <1>4, <2>2, <2>3, <2>4, <2>5 DEF Retrieving
<1>5. ASSUME NEW x, ReadRound(Exporter, x), trials[x] = None PROVE SentKept
  BY <1>3, <1>5 DEF ReadRound, Panic
<1>6. ASSUME UNCHANGED request PROVE SentKept
  BY <1>2, <1>6 DEF sent
<1>7. ASSUME NEW x \in Trials, Logging(x) PROVE UNCHANGED request \/ Die
  <2>1. ASSUME NEW kind, StartLog(x, kind) \/ AddTrial(x, kind) PROVE UNCHANGED request
    BY <2>1 DEF StartLog, AddTrial
  <2>2. CASE Flush(x) \/ EndLog(x)
    BY <2>2 DEF Flush, EndLog, Panic
  <2>3. CASE StartUpload(x) \/ Log(x) \/ Upload(x) \/ EndUpload(x)
    BY <2>3 DEF StartUpload, Log, Upload, EndUpload
  <2> QED BY <1>7, <2>1, <2>2, <2>3 DEF Logging
<1>8. ASSUME NEW l, Listing(l) PROVE UNCHANGED request
  BY <1>8 DEF Listing, StartList, List, Poll, Timeout, Reply, Set
<1>9. CASE Open \/ MigrateTrial \/ Migrated \/ \E xs : Delete(xs)
  BY <1>6, <1>9 DEF Open, MigrateTrial, Migrated, Delete, calls
<1>10. CASE Crash
  BY <1>3, <1>10 DEF Crash
<1> QED BY <1>3, <1>4, <1>5, <1>6, <1>7, <1>8, <1>9, <1>10 DEF Others

\* A trial that is still the one of a position has what it had, as it was.
LEMMA SameTrial ==
  ASSUME Grows, Kept, FileInv, NEW x \in Trials, NEW at \in 1..sequence,
         trials'[x] # None, trials'[x].idx = at
  PROVE  /\ Is(x, at) /\ DOMAIN trials[x].samples \subseteq DOMAIN trials'[x].samples
         /\ \A t \in DOMAIN trials[x].samples : trials'[x].samples[t] = trials[x].samples[t]
<1>1. sequence \in Nat
  BY DEF FileInv, Shape
<1>2. ~(trials'[x].idx > sequence)
  BY <1>1
<1> QED BY <1>1, <1>2 DEF Grows, Kept, Is

LEMMA StaysPassed ==
  ASSUME FileInv, RInv, ClientsAssumption, Grows, Kept, Passed, SentKept PROVE Passed'
<1>1. Observing(Exporter)
  BY DEF RInv, ClientsAssumption
<1>2. /\ sent'.last = sent.last /\ sent'.queue = sent.queue /\ sent'.got = sent.got /\ sent'.at = sent.at
      /\ sent'.ended = sent.ended /\ sent'.filter = sent.filter
  BY DEF SentKept, RequestFields
<1>3. ASSUME NEW x \in DOMAIN sent.last, trials'[x] # None, trials'[x].idx = sent.at[x],
             NEW q, Exact(x, q) \/ ~Is(x, sent.at[x])
      PROVE  \A k \in DOMAIN q : q[k].tick \in DOMAIN trials'[x].samples /\ q[k] = trials'[x].samples[q[k].tick]
  <2>1. x \in Trials /\ sent.at[x] \in 1..sequence
    BY <1>1 DEF Observing, sent
  <2>2. /\ Is(x, sent.at[x]) /\ DOMAIN trials[x].samples \subseteq DOMAIN trials'[x].samples
        /\ \A t \in DOMAIN trials[x].samples : trials'[x].samples[t] = trials[x].samples[t]
    BY <1>3, <2>1, SameTrial
  <2> QED BY <1>3, <2>2 DEF Exact
<1>4. ASSUME NEW x \in DOMAIN sent.last, trials'[x] # None, trials'[x].idx = sent.at[x]
      PROVE  Exact(x, sent.got[x])' /\ Exact(x, sent.queue[x])'
  <2>1. Exact(x, sent.got[x]) \/ ~Is(x, sent.at[x])
    BY DEF Passed
  <2>2. Exact(x, sent.queue[x]) \/ ~Is(x, sent.at[x])
    BY DEF Passed
  <2>3. \A k \in DOMAIN sent.got[x] : /\ sent.got[x][k].tick \in DOMAIN trials'[x].samples
                                      /\ sent.got[x][k] = trials'[x].samples[sent.got[x][k].tick]
    BY <1>3, <1>4, <2>1
  <2>4. \A k \in DOMAIN sent.queue[x] : /\ sent.queue[x][k].tick \in DOMAIN trials'[x].samples
                                        /\ sent.queue[x][k] = trials'[x].samples[sent.queue[x][k].tick]
    BY <1>3, <1>4, <2>2
  <2> QED BY <1>2, <2>3, <2>4 DEF Exact
<1>5. ASSUME NEW x \in DOMAIN sent'.last
      PROVE  /\ (sent.filter = All)' /\ Names(x, sent.queue[x])' /\ Names(x, sent.got[x])'
             /\ (sent.ended[x] => sent.got[x] # <<>>)'
             /\ Is(x, sent.at[x])' => Exact(x, sent.got[x])' /\ Exact(x, sent.queue[x])'
  <2>1. x \in DOMAIN sent.last
    BY <1>2, <1>5
  <2>2. /\ (sent.filter = All)' /\ Names(x, sent.queue[x])' /\ Names(x, sent.got[x])'
        /\ (sent.ended[x] => sent.got[x] # <<>>)'
    BY <1>2, <2>1 DEF Passed, Names, All
  <2>3. Is(x, sent.at[x])' => trials'[x] # None /\ trials'[x].idx = sent.at[x]
    BY <1>2 DEF Is
  <2> QED BY <1>4, <2>1, <2>2, <2>3
<1>6. DOMAIN sent'.ended = DOMAIN sent'.last
  BY <1>2 DEF Passed
<1> QED BY <1>5, <1>6 DEF Passed

\* What was counted, exported and imported stays so.
LEMMA StaysBegun ==
  ASSUME FileInv, FileInv', Grows, Kept, Begun, UNCHANGED <<export, disk, exports>> PROVE Begun'
<1>1. sequence \in Nat /\ sequence' \in Nat /\ sequence <= sequence'
  BY DEF FileInv, Shape, Grows
<1>2. ASSUME NEW x \in DOMAIN export.counted, trials'[x] # None, trials'[x].idx = export.at[x]
      PROVE  export.counted[x] <= Cardinality(DOMAIN trials'[x].samples)
  <2>1. x \in Trials /\ export.at[x] \in 1..sequence /\ export.counted[x] \in Nat
    BY DEF Begun
  <2>2. Is(x, export.at[x]) /\ DOMAIN trials[x].samples \subseteq DOMAIN trials'[x].samples
    BY <1>2, <2>1, SameTrial
  <2>3. export.counted[x] <= Cardinality(DOMAIN trials[x].samples)
    BY <2>2 DEF Begun
  <2>4. IsFiniteSet(DOMAIN trials'[x].samples)
    BY <1>2, <2>1 DEF FileInv, Shape, IsBucket
  <2>5. /\ Cardinality(DOMAIN trials[x].samples) <= Cardinality(DOMAIN trials'[x].samples)
        /\ Cardinality(DOMAIN trials[x].samples) \in Nat /\ Cardinality(DOMAIN trials'[x].samples) \in Nat
    BY <2>2, <2>4, FS_Subset, FS_CardinalityType
  <2> QED BY <2>1, <2>3, <2>5
<1>3. ASSUME NEW x \in DOMAIN export.counted
      PROVE  /\ export.counted[x] \in Nat \ {0} /\ export.at[x] \in 1..sequence'
             /\ x \in DOMAIN export.left => export.left[x] \in 1..export.counted[x]
             /\ Is(x, export.at[x])' => export.counted[x] <= Cardinality(DOMAIN trials'[x].samples)
  <2>1. export.at[x] \in 1..sequence'
    <3>1. export.at[x] \in 1..sequence
      BY DEF Begun
    <3> QED BY <1>1, <3>1
  <2>2. Is(x, export.at[x])' => trials'[x] # None /\ trials'[x].idx = export.at[x]
    BY DEF Is
  <2> QED BY <1>2, <2>1, <2>2 DEF Begun
<1> QED BY <1>3 DEF Begun

LEMMA StaysCopied ==
  ASSUME FileInv, Grows, Kept, Begun, SentKept, UNCHANGED <<export, disk>>,
         NEW x \in DOMAIN export.counted, Copied(x)
  PROVE  Copied(x)'
<1>1. /\ sent'.last = sent.last /\ sent'.queue = sent.queue /\ sent'.got = sent.got /\ sent'.at = sent.at
  BY DEF SentKept, RequestFields
<1>2. Of(x)' = Of(x)
  BY DEF Of
<1>3. Is(x, export.at[x])' => Is(x, export.at[x])
  <2>1. x \in Trials /\ export.at[x] \in 1..sequence
    BY DEF Begun
  <2>2. Is(x, export.at[x])' => trials'[x] # None /\ trials'[x].idx = export.at[x]
    BY DEF Is
  <2> QED BY <2>1, <2>2, SameTrial
<1> QED BY <1>1, <1>2, <1>3 DEF Copied

LEMMA StaysExported ==
  ASSUME FileInv, Grows, Kept, Begun, Exported, SentKept, UNCHANGED <<export, disk>> PROVE Exported'
<1>1. /\ sent'.queue = sent.queue /\ sent'.ended = sent.ended /\ (sent'.is = "open" => sent.is = "open")
  BY DEF SentKept, RequestFields
<1>2. export.is \in {"reading", "closing", "done"} => \A x \in DOMAIN export.counted : Copied(x)'
  BY StaysCopied DEF Exported
<1> QED BY <1>1, <1>2 DEF Exported

\* The samples of a trial that were imported stay as they were.
LEMMA StaysArrived ==
  ASSUME FileInv, Grows, Kept, ClientsAssumption, NEW x \in Trials, Arrived(x)
  PROVE  LET to == Prefixed[x] IN
         /\ import.at[x] \in 1..sequence'
         /\ trials'[to] # None /\ trials'[to].idx = import.at[x] => \A k \in 2..import.pos : disk[k].trial = x =>
              /\ disk[k].tick \in DOMAIN trials'[to].samples
              /\ Same(disk[k], trials'[to].samples[disk[k].tick], to)
<1> DEFINE to == Prefixed[x]
<1>1. sequence \in Nat /\ sequence' \in Nat /\ sequence <= sequence'
  BY DEF FileInv, Shape, Grows
<1>2. import.at[x] \in 1..sequence /\ to \in Trials
  BY DEF Arrived, ClientsAssumption
<1>3. import.at[x] \in 1..sequence'
  BY <1>1, <1>2
<1>4. ASSUME trials'[to] # None, trials'[to].idx = import.at[x]
      PROVE  /\ Is(to, import.at[x]) /\ DOMAIN trials[to].samples \subseteq DOMAIN trials'[to].samples
             /\ \A t \in DOMAIN trials[to].samples : trials'[to].samples[t] = trials[to].samples[t]
  <2> HIDE DEF to
  <2> QED BY <1>2, <1>4, SameTrial
<1> QED BY <1>3, <1>4 DEF Arrived, Same

LEMMA StaysImported ==
  ASSUME FileInv, Grows, Kept, Transfers, ClientsAssumption, Imported, UNCHANGED <<import, disk>>,
         import.is # "idle" => export'.is \in {"done", "failed"}
  PROVE  Imported'
<1>1. ASSUME NEW x \in DOMAIN import.read, import.is \in {"reading", "done"} PROVE Arrived(x)'
  <2>1. Arrived(x) /\ x \in Trials
    BY <1>1 DEF Imported, Transfers
  <2> QED BY <2>1, StaysArrived DEF Arrived, Is, Same
<1> QED BY <1>1 DEF Imported

-----------------------------------------------------------------------------
(* The steps of an export                                                  *)

LEMMA ExportReads ==
  ASSUME FileInv, Sampled, RInv, StoreAssumption, ClientsAssumption, TInv, UNCHANGED clientVars,
         NEW x, ReadRound(Exporter, x), trials[x] # None
  PROVE  Passed' /\ Begun' /\ Exported' /\ Imported'
<1> DEFINE U == Unread(Exporter, x)
           ticks == Sorted(U)
           read == [k \in DOMAIN ticks |-> trials[x].samples[ticks[k]]]
           T == DOMAIN trials[x].samples
<1>1. /\ x \in DOMAIN sent.last /\ sent.queue[x] = <<>> /\ sent.is = "open"
      /\ request' = [request EXCEPT ![Exporter].queue[x] = read] /\ UNCHANGED <<trials, sequence>>
  BY DEF ReadRound, Observed, callOnly, open, sent
<1>2. /\ DOMAIN sent = RequestFields /\ DOMAIN sent.last \subseteq Trials
      /\ DOMAIN sent.queue = DOMAIN sent.last
      /\ \A y \in DOMAIN sent.last : Samples(sent.queue[y]) /\ Samples(sent.got[y])
      /\ DOMAIN request = Requests /\ Exporter \in Requests
  BY DEF RInv, Observing, ClientsAssumption, sent
<1>3. /\ sent'.last = sent.last /\ sent'.got = sent.got /\ sent'.at = sent.at /\ sent'.ended = sent.ended
      /\ sent'.filter = sent.filter /\ sent'.is = sent.is
      /\ sent'.queue = [sent.queue EXCEPT ![x] = read]
  BY <1>1, <1>2 DEF RequestFields, sent
<1>4. IsFiniteSet(T) /\ T \subseteq Nat /\ x \in Trials /\ U \in SUBSET T
  BY <1>1, <1>2, TicksAreNumbers DEF FileInv, Shape, IsBucket, Unread
<1>5. IsFiniteSet(U) /\ U \subseteq Int
  BY <1>4, FS_Subset
<1>6. ticks \in Seq(U) /\ Len(ticks) = Cardinality(U)
  BY <1>5, SortedFacts
<1>7. \A t \in T : trials[x].samples[t].tick = t /\ trials[x].samples[t].trial = x
  BY <1>4 DEF Sampled, Stored, StoredTicks, TInv, Named, Bucketed
<1>8. DOMAIN ticks = 1..Len(ticks) /\ Len(ticks) \in Nat /\ \A k \in DOMAIN ticks : ticks[k] \in T
  BY <1>4, <1>6
<1>9. Names(x, read) /\ Exact(x, read)
  BY <1>7, <1>8 DEF Names, Exact
<1>10. Len(read) = Cardinality(U) /\ Len(read) \in Nat
  <2>1. read \in [1..Len(ticks) -> {trials[x].samples[t] : t \in T}]
    BY <1>8
  <2>2. read \in Seq({trials[x].samples[t] : t \in T}) /\ DOMAIN read = 1..Len(ticks)
    <3> HIDE DEF read, ticks, T
    <3> QED BY <1>8, <2>1
  <2> HIDE DEF read, ticks, T, U
  <2> QED BY <1>6, <1>8, <2>2
<1> HIDE DEF read, ticks
<1>11. ASSUME NEW y \in DOMAIN sent.last
       PROVE  sent'.queue[y] = IF y = x THEN read ELSE sent.queue[y]
  BY <1>2, <1>3
<1>12. Passed'
  <2>1. DOMAIN sent'.ended = DOMAIN sent'.last
    BY <1>3 DEF TInv, Passed
  <2>2. ASSUME NEW y \in DOMAIN sent'.last
        PROVE  /\ (sent.filter = All)' /\ Names(y, sent.queue[y])' /\ Names(y, sent.got[y])'
               /\ (sent.ended[y] => sent.got[y] # <<>>)'
               /\ Is(y, sent.at[y])' => Exact(y, sent.got[y])' /\ Exact(y, sent.queue[y])'
    <3>1. y \in DOMAIN sent.last
      BY <1>3, <2>2
    <3>2. /\ sent.filter = All /\ Names(y, sent.queue[y]) /\ Names(y, sent.got[y])
          /\ sent.ended[y] => sent.got[y] # <<>>
          /\ Is(y, sent.at[y]) => Exact(y, sent.got[y]) /\ Exact(y, sent.queue[y])
      BY <3>1 DEF TInv, Passed
    <3>3. (sent.filter = All)' /\ Names(y, sent.got[y])' /\ (sent.ended[y] => sent.got[y] # <<>>)'
      BY <1>3, <3>2 DEF Names, All
    <3>4. Names(y, sent.queue[y])'
      BY <1>9, <1>11, <3>1, <3>2 DEF Names
    <3>5. Is(y, sent.at[y])' => Exact(y, sent.got[y])' /\ Exact(y, sent.queue[y])'
      BY <1>1, <1>3, <1>9, <1>11, <3>1, <3>2 DEF Is, Exact
    <3> QED BY <3>3, <3>4, <3>5
  <2> QED BY <2>1, <2>2 DEF Passed
<1>13. Begun' /\ Imported'
  <2>1. UNCHANGED <<trials, sequence, export, disk, import, exports>>
    BY <1>1 DEF clientVars
  <2>2. Begun'
    BY <2>1 DEF TInv, Begun, Is
  <2>3. Imported'
    <3>1. ASSUME NEW y, Arrived(y) PROVE Arrived(y)'
      BY <2>1, <3>1 DEF Arrived, Is, Same
    <3> QED BY <2>1, <3>1 DEF TInv, Imported
  <2> QED BY <2>2, <2>3
<1>14. ASSUME NEW y \in DOMAIN export.counted, Copied(y) PROVE Copied(y)'
  <2>1. y \in DOMAIN sent.last /\ UNCHANGED <<trials, export, disk>>
    BY <1>1, <1>14 DEF Copied, clientVars
  <2>2. Of(y)' = Of(y) /\ (Is(y, export.at[y])' <=> Is(y, export.at[y]))
    BY <2>1 DEF Of, Is
  <2>3. ASSUME y = x, Is(x, export.at[x]) PROVE export.counted[x] <= Len(sent.got[x]) + Len(read)
    <3>1. sent.at[x] = export.at[x] /\ export.counted[x] \in Nat /\ export.counted[x] <= Cardinality(T)
      BY <1>14, <2>3 DEF Copied, TInv, Begun
    <3>2. Samples(sent.got[x]) /\ Coming(Exporter, x)
      BY <1>1, <1>2, <2>3, <3>1 DEF RInv, Observed, sent, Is
    <3>3. Len(sent.got[x]) \in Nat /\ DOMAIN sent.got[x] = 1..Len(sent.got[x])
      BY <3>2 DEF Samples, IsSeq
    <3>4. CASE sent.got[x] # <<>>
      <4>1. export.counted[x] <= Len(sent.got[x]) + Len(sent.queue[x]) /\ Len(sent.queue[x]) = 0
        BY <1>1, <1>14, <2>3, <3>4 DEF Copied
      <4> QED BY <1>10, <3>1, <3>3, <4>1
    <3>5. CASE sent.got[x] = <<>>
      <4>1. Ticks(sent.got[x]) = {}
        BY <3>5 DEF Ticks
      <4>2. sent.last[x] # None => sent.last[x] \in T /\ sent.last[x] \notin Later(T, sent.last[x])
        BY <1>4, <3>2 DEF Coming, InTurn, Later, sent
      <4>3. sent.last[x] = None
        BY <3>2, <4>1, <4>2 DEF Coming, InTurn, sent
      <4>4. U = T
        BY <4>3 DEF Unread, sent
      <4>5. Len(sent.got[x]) = 0
        BY <3>5
      <4>6. Len(read) = Cardinality(T)
        BY <1>10, <4>4
      <4> HIDE DEF T
      <4> QED BY <1>10, <3>1, <4>5, <4>6
    <3> QED BY <3>4, <3>5
  <2>4. Is(y, export.at[y]) /\ (sent'.got[y] # <<>> \/ sent'.queue[y] # <<>>) =>
          export.counted[y] <= Len(sent'.got[y]) + Len(sent'.queue[y])
    <3>1. CASE y = x
      BY <1>3, <1>11, <2>1, <2>3, <3>1
    <3>2. CASE y # x
      BY <1>3, <1>11, <1>14, <2>1, <3>2 DEF Copied
    <3> QED BY <3>1, <3>2
  <2> QED BY <1>3, <1>14, <2>1, <2>2, <2>4 DEF Copied
<1>15. Exported'
  <2>1. UNCHANGED <<export, disk>> /\ export.is # "done"
    BY <1>1 DEF clientVars, TInv, Exported
  <2>2. export.is \in {"reading", "closing", "done"} => \A y \in DOMAIN export.counted : Copied(y)'
    BY <1>14 DEF TInv, Exported
  <2> QED BY <2>1, <2>2 DEF TInv, Exported
<1> QED BY <1>12, <1>13, <1>15

\* The samples that are there are counted, for a file that is not yet.
LEMMA ExportCounts ==
  ASSUME FileInv, RInv, TInv, MaxExports = 1, ClientsAssumption, StoreAssumption,
         NEW xs \in SUBSET Trials, CountSamples(xs)
  PROVE  Passed' /\ Begun' /\ Exported' /\ Imported'
<1> DEFINE full == {x \in xs \cap Buckets : SampleCount(trials[x]) > 0}
           counts == [x \in full |-> SampleCount(trials[x])]
           at == [x \in full |-> trials[x].idx]
<1>1. /\ export' = [is |-> "counted", of |-> xs, left |-> counts, counted |-> counts, at |-> at, pos |-> 0]
      /\ request' = [request EXCEPT ![Exporter] = NoRequest]
      /\ UNCHANGED <<trials, sequence, disk, import>> /\ exports < MaxExports /\ exports' = exports + 1
  BY DEF CountSamples, callOnly
<1>2. exports = 0 /\ exports' = 1 /\ disk = <<>> /\ export = NoExport
  BY <1>1 DEF TInv, Begun
<1>3. import.is = "idle" /\ import = NoImport
  BY <1>2 DEF TInv, Imported, NoExport
<1>4. Passed'
  <2>1. sent' = NoRequest
    BY <1>1 DEF RInv, ClientsAssumption, sent
  <2>2. DOMAIN NoRequest.last = {} /\ DOMAIN NoRequest.ended = {}
    BY DEF NoRequest
  <2> QED BY <2>1, <2>2 DEF Passed
<1>5. ASSUME NEW x \in full
      PROVE  /\ counts[x] \in Nat \ {0} /\ counts[x] = Cardinality(DOMAIN trials[x].samples)
             /\ at[x] \in 1..sequence /\ x \in xs
  <2>1. x \in Trials /\ trials[x] # None /\ x \in xs /\ SampleCount(trials[x]) > 0
    BY DEF Buckets
  <2>2. IsFiniteSet(DOMAIN trials[x].samples)
    BY <2>1 DEF FileInv, Shape, IsBucket
  <2>3. SampleCount(trials[x]) = Cardinality(DOMAIN trials[x].samples)
    BY <2>1 DEF SampleCount, FileInv, Counted
  <2>4. Cardinality(DOMAIN trials[x].samples) \in Nat
    BY <2>2, FS_CardinalityType
  <2>5. trials[x].idx \in 1..sequence
    BY <2>1 DEF FileInv, IndexMatches, Buckets
  <2> QED BY <2>1, <2>3, <2>4, <2>5
<1>6. DOMAIN counts = full /\ full \subseteq xs /\ full \subseteq Trials
  OBVIOUS
<1> HIDE DEF counts, at, full
<1>7. /\ export'.is = "counted" /\ export'.of = xs /\ export'.left = counts /\ export'.counted = counts
      /\ export'.at = at
  BY <1>1
<1>8. ASSUME NEW x \in full
      PROVE  /\ counts[x] \in Nat \ {0} /\ at[x] \in 1..sequence' /\ counts[x] \in 1..counts[x]
             /\ counts[x] <= Cardinality(DOMAIN trials'[x].samples)
  <2>1. counts[x] <= counts[x] /\ counts[x] \in 1..counts[x]
    BY <1>5
  <2> QED BY <1>1, <1>5, <2>1
<1>9. Begun'
  BY <1>1, <1>2, <1>6, <1>7, <1>8 DEF Begun
<1>10. Exported' /\ Imported'
  <2>1. import'.is = "idle" /\ import' = NoImport /\ DOMAIN import'.at = DOMAIN import'.read
    BY <1>1, <1>3 DEF NoImport
  <2> QED BY <1>7, <2>1 DEF Exported, Imported
<1> QED BY <1>4, <1>9, <1>10

LEMMA ExportRefused ==
  ASSUME TInv, NEW is, is = "failed", export' = [export EXCEPT !.is = is], UNCHANGED <<trials, sequence>>,
         UNCHANGED <<disk, import, exports>>, import.is = "idle", exports # 0, Transfers
  PROVE  Begun' /\ Exported' /\ Imported'
<1>1. /\ export'.is = "failed" /\ export'.of = export.of /\ export'.left = export.left
      /\ export'.counted = export.counted /\ export'.at = export.at
  BY DEF Transfers
<1>2. Begun'
  BY <1>1 DEF TInv, Begun, Is
<1>3. Exported'
  BY <1>1 DEF Exported
<1>4. Imported'
  BY <1>1 DEF TInv, Imported, NoImport
<1> QED BY <1>2, <1>3, <1>4

\* A retrieval for all the trials starts, and the file with its header.
LEMMA ExportAsks ==
  ASSUME FileInv, RInv, Transfers, TInv, ClientsAssumption, StoreAssumption, Grows, Kept, AskSamples
  PROVE  Passed' /\ Begun' /\ Exported' /\ Imported'
<1> DEFINE header == [header |-> DOMAIN export.left]
<1>1. /\ export.is = "counted" /\ export.pos = 0 /\ disk = <<>> /\ export.left = export.counted
      /\ disk' = Written(header) /\ UNCHANGED <<import, exports>> /\ exports # 0
  BY DEF AskSamples, Transfers, TInv, Begun, NoExport
<1>2. import.is = "idle" /\ UNCHANGED <<trials, sequence>>
  BY <1>1 DEF TInv, Imported, AskSamples, Retrieve, callOnly, vars, file
<1>3. Len(disk') = 1 /\ disk' # <<>> /\ disk'[1] = header
  <2>1. disk' = [k \in 1..1 |-> header]
    <3>1. Len(disk) = 0 /\ \A k \in 1..1 : k = 0 + 1
      BY <1>1
    <3>2. disk' = [k \in 1..1 |-> IF k = 0 + 1 THEN header ELSE disk[k]]
      BY <1>1, <3>1 DEF Written
    <3> HIDE DEF header
    <3> QED BY <3>1, <3>2
  <2> HIDE DEF header
  <2>2. disk' = <<header>>
    BY <2>1
  <2> QED BY <2>2
<1>4. DOMAIN export = {"is", "of", "left", "counted", "at", "pos"}
  BY DEF Transfers
<1>5. CASE Retrieve(Exporter, export.of, All) /\ export' = [export EXCEPT !.is = "reading", !.pos = 1]
  <2> DEFINE xs == export.of
             q == [is |-> "open", filter |-> All, last |-> [x \in xs |-> None],
                   queue |-> [x \in xs |-> <<>>], ended |-> [x \in xs |-> FALSE],
                   at |-> [x \in xs |-> trials[x].idx], got |-> [x \in xs |-> <<>>]]
  <2>1. sent' = q
    BY <1>5 DEF Retrieve, RInv, ClientsAssumption, sent
  <2>2. /\ DOMAIN sent'.last = xs /\ DOMAIN sent'.ended = xs /\ sent'.filter = All
        /\ \A x \in xs : /\ sent'.queue[x] = <<>> /\ sent'.got[x] = <<>> /\ sent'.ended[x] = FALSE
                         /\ sent'.at[x] = trials[x].idx
    BY <2>1
  <2> HIDE DEF q, xs
  <2>3. Passed'
    <3>1. \A x \in xs : /\ Names(x, sent'.queue[x]) /\ Names(x, sent'.got[x])
                       /\ Exact(x, sent.got[x])' /\ Exact(x, sent.queue[x])'
      BY <2>2, EmptySamples DEF Names, Exact
    <3> QED BY <2>2, <3>1 DEF Passed, Names, All
  <2>4. /\ export'.is = "reading" /\ export'.pos = 1 /\ export'.of = xs /\ export'.left = export.counted
        /\ export'.counted = export.counted /\ export'.at = export.at
    BY <1>1, <1>4, <1>5 DEF xs
  <2>5. Begun'
    BY <1>1, <1>2, <2>4 DEF TInv, Begun, Is, xs
  <2>6. ASSUME NEW x \in DOMAIN export.counted PROVE Copied(x)'
    <3>1. x \in xs /\ export.counted[x] \in Nat
      BY DEF TInv, Begun, xs
    <3>2. Len(Of(x))' = 0
      <4>1. Of(x)' = <<>>
        <5>1. {k \in 2..Len(disk') : disk'[k].trial = x} = {}
          BY <1>3
        <5>2. Cardinality({}) = 0
          BY FS_EmptySet
        <5>3. DOMAIN Sorted({}) = {}
          BY <5>2 DEF Sorted
        <5>4. Of(x)' = [n \in {} |-> disk'[Sorted({})[n]]]
          BY <5>1, <5>3 DEF Of
        <5> QED BY <5>4
      <4> QED BY <4>1
    <3>3. Len(sent'.got[x]) = 0 /\ Len(sent'.queue[x]) = 0 /\ sent'.got[x] = <<>> /\ sent'.queue[x] = <<>>
      BY <2>2, <3>1
    <3>4. Is(x, export.at[x])' => sent'.at[x] = export'.at[x]
      BY <1>2, <2>2, <2>4, <3>1 DEF Is
    <3>5. export'.counted[x] - (IF x \in DOMAIN export'.left THEN export'.left[x] ELSE 0) = 0
      BY <2>4, <3>1
    <3> QED BY <2>2, <2>4, <3>1, <3>2, <3>3, <3>4, <3>5 DEF Copied
  <2>7. Exported'
    <3>1. disk'[1].header = DOMAIN export'.counted
      BY <1>1, <1>3, <2>4
    <3>2. \A k \in 2..Len(disk') : disk'[k].trial \in DOMAIN export'.counted
      BY <1>3
    <3> QED BY <1>3, <2>4, <2>6, <3>1, <3>2 DEF Exported
  <2>8. Imported'
    BY <1>1, <1>2 DEF TInv, Imported, NoImport
  <2> QED BY <2>3, <2>5, <2>7, <2>8
<1>6. CASE UNCHANGED vars /\ export' = [export EXCEPT !.is = "failed"]
  <2>1. UNCHANGED request
    BY <1>6 DEF vars, calls
  <2>2. SentKept
    BY <2>1 DEF SentKept, sent, RInv, Observing, ClientsAssumption
  <2>3. Passed'
    BY <2>2, StaysPassed DEF TInv
  <2>4. /\ export'.is = "failed" /\ export'.of = export.of /\ export'.left = export.left
        /\ export'.counted = export.counted /\ export'.at = export.at
    BY <1>4, <1>6
  <2>5. Begun'
    BY <1>1, <1>2, <2>4 DEF TInv, Begun, Is
  <2>6. Exported' /\ Imported'
    BY <1>1, <1>2, <2>4 DEF TInv, Exported, Imported, NoImport
  <2> QED BY <2>3, <2>5, <2>6
<1> QED BY <1>5, <1>6 DEF AskSamples

\* Everything is written or the retrieval is over: then the export has what it counted.
LEMMA ExportEnds ==
  ASSUME FileInv, RInv, Transfers, TInv, ClientsAssumption, StoreAssumption, Grows, Kept, EndExport
  PROVE  Passed' /\ Begun' /\ Exported' /\ Imported'
<1>1. DOMAIN export = {"is", "of", "left", "counted", "at", "pos"} /\ export.is \in {"reading", "closing"}
  BY DEF Transfers, EndExport
<1>2. exports # 0 /\ import.is = "idle"
  BY <1>1 DEF TInv, Begun, Imported, NoExport
<1>3. UNCHANGED <<trials, sequence, disk, import, exports>>
  BY DEF EndExport, Leave, Finish, Fail, callOnly, vars, file
<1>4. DOMAIN request = Requests /\ DOMAIN sent = RequestFields /\ Exporter \in Requests
  BY DEF RInv, Observing, ClientsAssumption, sent
<1>5. SentKept /\ (Leave(Exporter) \/ Finish(Exporter) => sent'.is # "open")
  <2>1. CASE UNCHANGED vars
    <3>1. sent' = sent
      BY <2>1 DEF vars, calls, sent
    <3>2. Leave(Exporter) \/ Finish(Exporter) => request'[Exporter].is \in {"left", "over"}
      BY <1>4 DEF Leave, Finish, RequestFields, sent
    <3> QED BY <1>4, <3>1, <3>2 DEF SentKept, sent
  <2>2. ASSUME NEW is \in {"left", "over"}, request' = [request EXCEPT ![Exporter].is = is]
        PROVE  SentKept /\ sent'.is # "open"
    <3>1. sent' = [sent EXCEPT !.is = is]
      BY <1>4, <2>2 DEF sent
    <3>2. DOMAIN sent' = RequestFields /\ sent'.is = is /\ \A f \in RequestFields \ {"is"} : sent'[f] = sent[f]
      BY <1>4, <3>1 DEF RequestFields
    <3> QED BY <2>2, <3>2 DEF SentKept
  <2> QED BY <2>1, <2>2 DEF EndExport, Leave, Finish
<1>6. Passed'
  BY <1>5, StaysPassed DEF TInv
<1>7. PICK is \in {"done", "failed"} : export' = [export EXCEPT !.is = is]
  BY DEF EndExport, Fail
<1>8. /\ export'.is = is /\ export'.of = export.of /\ export'.left = export.left
      /\ export'.counted = export.counted /\ export'.at = export.at
  BY <1>1, <1>7
<1>9. Begun'
  BY <1>2, <1>3, <1>8 DEF TInv, Begun, Is
<1>10. Imported'
  BY <1>2, <1>3, <1>8 DEF TInv, Imported, NoImport
<1>11. ASSUME NEW x \in DOMAIN export.counted PROVE Copied(x)'
  <2>1. Copied(x)
    BY <1>1 DEF TInv, Exported
  <2>2. sent'.last = sent.last /\ sent'.queue = sent.queue /\ sent'.got = sent.got /\ sent'.at = sent.at
    BY <1>5 DEF SentKept, RequestFields
  <2>3. Of(x)' = Of(x) /\ (Is(x, export.at[x])' <=> Is(x, export.at[x]))
    BY <1>3, <1>8 DEF Of, Is
  <2> QED BY <1>8, <2>1, <2>2, <2>3 DEF Copied
<1>12. is = "done" => sent'.is # "open" /\ \A x \in DOMAIN export.left : sent'.ended[x] /\ sent'.queue[x] = <<>>
  <2>1. sent'.ended = sent.ended /\ sent'.queue = sent.queue
    BY <1>5 DEF SentKept, RequestFields
  <2>2. CASE export.is = "closing" /\ (IF open(Exporter) THEN Leave(Exporter) ELSE UNCHANGED vars)
    <3>1. DOMAIN export.left = {}
      BY <2>2 DEF TInv, Exported
    <3>2. sent'.is # "open"
      <4>1. CASE open(Exporter)
        BY <1>5, <2>2, <4>1
      <4>2. CASE ~open(Exporter)
        <5>1. sent.is # "open" /\ UNCHANGED request
          BY <2>2, <4>2 DEF open, sent, vars, calls
        <5> QED BY <5>1 DEF sent
      <4> QED BY <4>1, <4>2
    <3> QED BY <3>1, <3>2
  <2>3. CASE export.is = "reading" /\ Finish(Exporter)
    <3>1. ASSUME NEW x \in DOMAIN export.left PROVE sent.ended[x] /\ sent.queue[x] = <<>>
      <4>1. x \in DOMAIN sent.last
        BY <2>3 DEF TInv, Begun, Exported, Copied
      <4> QED BY <2>3, <4>1 DEF Finish, Finished, Observed, sent
    <3> QED BY <1>5, <2>1, <2>3, <3>1
  <2>4. CASE Fail
    BY <1>1, <1>7, <2>4 DEF Fail
  <2> QED BY <2>2, <2>3, <2>4 DEF EndExport
<1>13. Exported'
  BY <1>1, <1>3, <1>8, <1>11, <1>12 DEF TInv, Exported
<1> QED BY <1>6, <1>9, <1>10, <1>13

\* The first of a queue moves to the end of what was given.
LEMMA Moved ==
  ASSUME NEW q, IsSeq(q), q # <<>>, NEW got, IsSeq(got)
  PROVE  LET more == Append(got, q[1]) IN
         /\ Len(got) \in Nat /\ Len(more) = Len(got) + 1 /\ more[Len(more)] = q[1] /\ more # <<>>
         /\ \A k \in 1..Len(got) : more[k] = got[k]
         /\ \A k \in DOMAIN more : more[k] = q[1] \/ \E j \in DOMAIN got : more[k] = got[j]
         /\ Len(q) \in Nat /\ Len(Tail(q)) = Len(q) - 1 /\ 1 \in DOMAIN q
         /\ \A k \in DOMAIN Tail(q) : \E j \in DOMAIN q : Tail(q)[k] = q[j]
<1> DEFINE more == Append(got, q[1])
           rest == Tail(q)
           n == Len(q)
           l == Len(got)
<1>1. /\ l \in Nat /\ DOMAIN got = 1..l /\ Len(more) = l + 1 /\ DOMAIN more = 1..(l + 1)
      /\ more[l + 1] = q[1] /\ \A k \in 1..l : more[k] = got[k]
  BY AppendFacts
<1>2. /\ IsSeq(rest) /\ n \in Nat \ {0} /\ DOMAIN q = 1..n
      /\ DOMAIN rest = 1..(n - 1) /\ \A k \in 1..(n - 1) : rest[k] = q[k + 1]
  BY TailIsSeq
<1> HIDE DEF more, rest, n, l
<1>3. more # <<>>
  <2>1. l + 1 \in DOMAIN more
    BY <1>1
  <2> QED BY <2>1
<1>4. ASSUME NEW k \in DOMAIN more PROVE more[k] = q[1] \/ \E j \in DOMAIN got : more[k] = got[j]
  <2>1. k = l + 1 \/ k \in 1..l
    BY <1>1
  <2> QED BY <1>1, <2>1
<1>5. Len(rest) = n - 1
  <2>1. n - 1 \in Nat
    BY <1>2
  <2> QED BY <1>2, <2>1 DEF IsSeq
<1>6. ASSUME NEW k \in DOMAIN rest PROVE \E j \in DOMAIN q : rest[k] = q[j]
  <2>1. k + 1 \in DOMAIN q /\ rest[k] = q[k + 1]
    BY <1>2
  <2> QED BY <2>1
<1>7. 1 \in DOMAIN q
  BY <1>2
<1> QED BY <1>1, <1>2, <1>3, <1>4, <1>5, <1>6, <1>7 DEF more, rest, n, l

\* A sample of a trial goes from the queue to the client as it is.
LEMMA GivenSample ==
  ASSUME FileInv, Sampled, RInv, ClientsAssumption, StoreAssumption, Passed, NEW x, Give(Exporter, x)
  PROVE  LET s == sent.queue[x][1] IN
         /\ x \in DOMAIN sent.last /\ sent.queue[x] # <<>> /\ 1 \in DOMAIN sent.queue[x] /\ s.trial = x
         /\ DOMAIN sent'.last = DOMAIN sent.last /\ DOMAIN sent'.ended = DOMAIN sent.last
         /\ sent'.filter = sent.filter /\ sent'.at = sent.at /\ sent'.is = "open"
         /\ sent'.queue[x] = Tail(sent.queue[x]) /\ sent'.got[x] = Append(sent.got[x], s)
         /\ \A y \in DOMAIN sent.last : y # x =>
              sent'.queue[y] = sent.queue[y] /\ sent'.got[y] = sent.got[y] /\ sent'.ended[y] = sent.ended[y]
         /\ IsSeq(sent.queue[x]) /\ IsSeq(sent.got[x])
         /\ UNCHANGED <<trials, sequence>>
<1> DEFINE h == Head(sent.queue[x])
           f == Filtered(h, sent.filter)
           p == [sent EXCEPT !.queue[x] = Tail(@), !.last[x] = h.tick, !.ended[x] = (h.state = "ended"),
                             !.got[x] = Append(@, f)]
<1>1. /\ x \in DOMAIN sent.last /\ sent.queue[x] # <<>> /\ sent.is = "open"
      /\ request' = [request EXCEPT ![Exporter] = p] /\ UNCHANGED <<trials, sequence>>
  BY DEF Give, Observed, callOnly, sent, open
<1>2. /\ DOMAIN sent = RequestFields /\ DOMAIN sent.queue = DOMAIN sent.last
      /\ DOMAIN sent.at = DOMAIN sent.last /\ DOMAIN sent.got = DOMAIN sent.last
      /\ Samples(sent.queue[x]) /\ Samples(sent.got[x])
      /\ DOMAIN request = Requests /\ Exporter \in Requests
  BY <1>1 DEF RInv, Observing, ClientsAssumption, sent
<1>3. DOMAIN sent.ended = DOMAIN sent.last /\ sent.filter = All /\ Names(x, sent.queue[x])
  BY <1>1 DEF Passed
<1>4. f = h
  <2>1. SelectedActors(All) = DOMAIN Actors /\ All.fields = {}
    BY DEF SelectedActors, Selects, All
  <2>2. Filtered(h, All) = h
    <3> HIDE DEF h
    <3> QED BY <2>1 DEF Filtered
  <2> QED BY <1>3, <2>2
<1>5. h = sent.queue[x][1] /\ 1 \in DOMAIN sent.queue[x]
  BY <1>1, <1>2, TailIsSeq DEF Samples
<1>6. sent' = p
  BY <1>1, <1>2 DEF sent
<1> HIDE DEF f, h
<1>7. /\ DOMAIN p.last = DOMAIN sent.last /\ DOMAIN p.ended = DOMAIN sent.last /\ p.filter = sent.filter
      /\ p.at = sent.at /\ p.is = sent.is
      /\ p.queue[x] = Tail(sent.queue[x]) /\ p.got[x] = Append(sent.got[x], f)
      /\ \A y \in DOMAIN sent.last : y # x =>
           p.queue[y] = sent.queue[y] /\ p.got[y] = sent.got[y] /\ p.ended[y] = sent.ended[y]
  BY <1>1, <1>2, <1>3 DEF RequestFields
<1> HIDE DEF p
<1>8. h.trial = x
  BY <1>3, <1>5 DEF Names
<1> QED BY <1>1, <1>2, <1>4, <1>5, <1>6, <1>7, <1>8 DEF Samples

LEMMA ReceivesPassed ==
  ASSUME FileInv, Sampled, RInv, ClientsAssumption, StoreAssumption, Passed, NEW x, Give(Exporter, x)
  PROVE  Passed'
<1> DEFINE q == sent.queue[x]
           got == sent.got[x]
           s == q[1]
           rest == Tail(q)
           more == Append(got, s)
<1>1. /\ x \in DOMAIN sent.last /\ q # <<>> /\ s.trial = x
      /\ DOMAIN sent'.last = DOMAIN sent.last /\ DOMAIN sent'.ended = DOMAIN sent.last
      /\ sent'.filter = sent.filter /\ sent'.at = sent.at
      /\ sent'.queue[x] = rest /\ sent'.got[x] = more
      /\ \A y \in DOMAIN sent.last : y # x =>
           sent'.queue[y] = sent.queue[y] /\ sent'.got[y] = sent.got[y] /\ sent'.ended[y] = sent.ended[y]
      /\ IsSeq(q) /\ IsSeq(got) /\ UNCHANGED <<trials, sequence>>
  BY GivenSample
<1>2. Names(x, q) /\ Names(x, got) /\ (Is(x, sent.at[x]) => Exact(x, got) /\ Exact(x, q))
  BY <1>1 DEF Passed
<1> HIDE DEF q, got
<1>3. /\ more # <<>> /\ 1 \in DOMAIN q
      /\ \A k \in DOMAIN more : more[k] = s \/ \E j \in DOMAIN got : more[k] = got[j]
      /\ \A k \in DOMAIN rest : \E j \in DOMAIN q : rest[k] = q[j]
  BY <1>1, Moved
<1> HIDE DEF rest, more
<1>11. s = q[1] /\ 1 \in DOMAIN q
  BY <1>3
<1> HIDE DEF s
<1>4. Names(x, rest) /\ Names(x, more)
  <2>1. ASSUME NEW k \in DOMAIN rest PROVE rest[k].trial = x
    BY <1>2, <1>3 DEF Names
  <2>2. ASSUME NEW k \in DOMAIN more PROVE more[k].trial = x
    <3>1. CASE more[k] = s
      BY <1>1, <3>1
    <3>2. ASSUME NEW j \in DOMAIN got, more[k] = got[j] PROVE more[k].trial = x
      BY <1>2, <3>2 DEF Names
    <3> QED BY <1>3, <2>2, <3>1, <3>2
  <2> QED BY <2>1, <2>2 DEF Names
<1>5. Is(x, sent.at[x]) => Exact(x, rest) /\ Exact(x, more)
  <2>1. ASSUME Is(x, sent.at[x]), NEW k \in DOMAIN rest
        PROVE  rest[k].tick \in DOMAIN trials[x].samples /\ rest[k] = trials[x].samples[rest[k].tick]
    BY <1>2, <1>3, <2>1 DEF Exact
  <2>2. ASSUME Is(x, sent.at[x]), NEW k \in DOMAIN more
        PROVE  more[k].tick \in DOMAIN trials[x].samples /\ more[k] = trials[x].samples[more[k].tick]
    <3>1. CASE more[k] = s
      BY <1>2, <1>11, <2>2, <3>1 DEF Exact
    <3>2. ASSUME NEW j \in DOMAIN got, more[k] = got[j]
          PROVE  more[k].tick \in DOMAIN trials[x].samples /\ more[k] = trials[x].samples[more[k].tick]
      BY <1>2, <2>2, <3>2 DEF Exact
    <3> QED BY <1>3, <2>2, <3>1, <3>2
  <2> QED BY <2>1, <2>2 DEF Exact
<1>6. ASSUME NEW y \in DOMAIN sent'.last, y # x
      PROVE  /\ Names(y, sent.queue[y])' /\ Names(y, sent.got[y])'
             /\ (sent.ended[y] => sent.got[y] # <<>>)'
             /\ Is(y, sent.at[y])' => Exact(y, sent.got[y])' /\ Exact(y, sent.queue[y])'
  <2>1. y \in DOMAIN sent.last /\ sent'.queue[y] = sent.queue[y] /\ sent'.got[y] = sent.got[y]
        /\ sent'.ended[y] = sent.ended[y] /\ (Is(y, sent.at[y])' <=> Is(y, sent.at[y]))
    BY <1>1, <1>6 DEF Is
  <2>2. /\ Names(y, sent.queue[y]) /\ Names(y, sent.got[y])
        /\ sent.ended[y] => sent.got[y] # <<>>
        /\ Is(y, sent.at[y]) => Exact(y, sent.got[y]) /\ Exact(y, sent.queue[y])
    BY <2>1 DEF Passed
  <2>3. Names(y, sent.queue[y])' /\ Names(y, sent.got[y])' /\ (sent.ended[y] => sent.got[y] # <<>>)'
    BY <2>1, <2>2 DEF Names
  <2>4. Is(y, sent.at[y])' => Exact(y, sent.got[y])' /\ Exact(y, sent.queue[y])'
    BY <1>1, <2>1, <2>2 DEF Exact
  <2> QED BY <2>3, <2>4
<1>7. /\ Names(x, sent.queue[x])' /\ Names(x, sent.got[x])'
      /\ (sent.ended[x] => sent.got[x] # <<>>)'
  BY <1>1, <1>3, <1>4 DEF Names
<1>8. Is(x, sent.at[x])' => Exact(x, sent.got[x])' /\ Exact(x, sent.queue[x])'
  BY <1>1, <1>5 DEF Is, Exact
<1>9. (sent.filter = All)'
  BY <1>1 DEF Passed, All
<1>10. DOMAIN sent'.ended = DOMAIN sent'.last
  BY <1>1
<1> QED BY <1>6, <1>7, <1>8, <1>9, <1>10 DEF Passed

\* A sample of a trial that is still to be written comes to the end of the file.
LEMMA ExportWrites ==
  ASSUME FileInv, Transfers, Sampled, RInv, StoreAssumption, ClientsAssumption, TInv,
         NEW x \in Trials, Receive(x), x \in DOMAIN export.left
  PROVE  Begun' /\ Exported'
<1> DEFINE q == sent.queue[x]
           got == sent.got[x]
           s == q[1]
           n == export.left[x] - 1
           others == DOMAIN export.left \ {x}
           left == IF n = 0 THEN [y \in others |-> export.left[y]] ELSE [export.left EXCEPT ![x] = n]
           is == IF n = 0 /\ others = {} THEN "closing" ELSE export.is
           m == sent'.got[x][Len(sent'.got[x])]
<1>1. export.is = "reading" /\ Give(Exporter, x) /\ UNCHANGED <<import, exports>> /\ exports # 0
  BY DEF Receive, TInv, Begun, NoExport
<1>2. /\ x \in DOMAIN sent.last /\ q # <<>> /\ s.trial = x
      /\ DOMAIN sent'.last = DOMAIN sent.last /\ sent'.at = sent.at
      /\ sent'.queue[x] = Tail(q) /\ sent'.got[x] = Append(got, s)
      /\ \A y \in DOMAIN sent.last : y # x =>
           sent'.queue[y] = sent.queue[y] /\ sent'.got[y] = sent.got[y]
      /\ IsSeq(q) /\ IsSeq(got) /\ UNCHANGED <<trials, sequence>>
  BY <1>1, GivenSample DEF TInv
<1>3. /\ Len(got) \in Nat /\ Len(Append(got, s)) = Len(got) + 1 /\ Append(got, s)[Len(Append(got, s))] = s
      /\ Append(got, s) # <<>>
      /\ \A k \in 1..Len(got) : Append(got, s)[k] = got[k]
      /\ Len(q) \in Nat /\ Len(Tail(q)) = Len(q) - 1
  <2> HIDE DEF q, got
  <2> QED BY <1>2, Moved
<1>4. m = s
  BY <1>2, <1>3
<1>5. disk' = Written(m) /\ export' = [export EXCEPT !.pos = @ + 1, !.is = is, !.left = left]
  BY <1>1 DEF Receive, sent
<1>6. /\ IsSeq(disk) /\ export.pos = Len(disk) /\ export.pos # 0 /\ disk # <<>>
      /\ disk[1].header = DOMAIN export.counted
  BY <1>1 DEF Sampled, DiskSamples, Transfers, TInv, Exported
<1> HIDE DEF m, left, is, n, others
<1>7. /\ DOMAIN export = {"is", "of", "left", "counted", "at", "pos"}
      /\ export'.pos = export.pos + 1 /\ export'.is = is /\ export'.left = left
      /\ export'.of = export.of /\ export'.counted = export.counted /\ export'.at = export.at
  BY <1>5 DEF Transfers
<1>8. /\ disk' # <<>> /\ Len(disk) \in Nat \ {0} /\ Len(disk') = Len(disk) + 1 /\ disk'[Len(disk) + 1] = s
      /\ \A k \in 1..Len(disk) : disk'[k] = disk[k]
  BY <1>4, <1>5, <1>6, WrittenLast
<1>9. DOMAIN export.left \subseteq DOMAIN export.counted /\ x \in DOMAIN export.counted
      /\ export.left[x] \in 1..export.counted[x] /\ export.counted[x] \in Nat \ {0}
  BY DEF TInv, Begun
<1>10. /\ DOMAIN left \subseteq DOMAIN export.left /\ n \in Nat /\ n + 1 = export.left[x]
       /\ \A y \in DOMAIN left : y # x => left[y] = export.left[y]
       /\ \A y \in DOMAIN export.left : y # x => y \in DOMAIN left
       /\ x \in DOMAIN left => left[x] = n /\ n # 0
       /\ x \notin DOMAIN left => n = 0
  <2>1. n \in Nat /\ n + 1 = export.left[x]
    BY <1>9 DEF n
  <2>2. CASE n = 0
    <3>1. left = [y \in others |-> export.left[y]]
      BY <2>2 DEF left
    <3> QED BY <2>1, <2>2, <3>1 DEF others
  <2>3. CASE n # 0
    <3>1. left = [export.left EXCEPT ![x] = n]
      BY <2>3 DEF left
    <3> QED BY <2>1, <2>3, <3>1
  <2> QED BY <2>2, <2>3
<1>11. is = "reading" \/ (is = "closing" /\ DOMAIN left = {})
  BY <1>1 DEF is, left, others
<1>12. Begun'
  <2>1. ASSUME NEW y \in DOMAIN export.counted
        PROVE  /\ export.counted[y] \in Nat \ {0} /\ export.at[y] \in 1..sequence'
               /\ y \in DOMAIN left => left[y] \in 1..export.counted[y]
               /\ (Is(y, export.at[y]))' => export.counted[y] <= Cardinality(DOMAIN trials'[y].samples)
    <3>1. /\ export.counted[y] \in Nat \ {0} /\ export.at[y] \in 1..sequence
          /\ y \in DOMAIN export.left => export.left[y] \in 1..export.counted[y]
          /\ Is(y, export.at[y]) => export.counted[y] <= Cardinality(DOMAIN trials[y].samples)
      BY DEF TInv, Begun
    <3>2. y \in DOMAIN left => left[y] \in 1..export.counted[y]
      BY <1>9, <1>10, <3>1
    <3>3. (Is(y, export.at[y]))' => Is(y, export.at[y])
      BY <1>2, <1>7 DEF Is
    <3> QED BY <1>2, <3>1, <3>2, <3>3
  <2>2. exports' \in {0, 1} /\ exports' # 0 /\ export'.is # "counted"
    BY <1>1, <1>7, <1>11 DEF TInv, Begun
  <2>3. DOMAIN export'.left \subseteq DOMAIN export'.counted /\ DOMAIN export'.counted \subseteq export'.of
        /\ DOMAIN export'.counted \subseteq Trials
    BY <1>7, <1>9, <1>10 DEF TInv, Begun
  <2>4. ASSUME NEW y \in DOMAIN export'.counted
        PROVE  /\ export'.counted[y] \in Nat \ {0} /\ export'.at[y] \in 1..sequence'
               /\ y \in DOMAIN export'.left => export'.left[y] \in 1..export'.counted[y]
               /\ (Is(y, export.at[y]))' => export'.counted[y] <= Cardinality(DOMAIN trials'[y].samples)
    BY <1>7, <2>1
  <2> QED BY <2>2, <2>3, <2>4 DEF Begun
<1>13. ASSUME NEW y \in DOMAIN export.counted PROVE Copied(y)'
  <2>1. Copied(y)
    BY <1>1 DEF TInv, Exported
  <2>2. Of(y)' = IF s.trial = y THEN Append(Of(y), s) ELSE Of(y)
    BY <1>4, <1>5, <1>6, OfGrows
  <2>3. Is(y, export.at[y])' <=> Is(y, export.at[y])
    BY <1>2, <1>7 DEF Is
  <2>4. IsSeq(Of(y)) /\ Len(Of(y)) \in Nat /\ export.counted[y] \in Nat
    BY <1>6, OfFacts DEF TInv, Begun
  <2>5. CASE y # x
    <3>1. /\ Of(y)' = Of(y) /\ y \in DOMAIN sent.last /\ sent'.queue[y] = sent.queue[y] /\ sent'.got[y] = sent.got[y]
          /\ (y \in DOMAIN export'.left <=> y \in DOMAIN export.left)
          /\ y \in DOMAIN export.left => export'.left[y] = export.left[y]
      BY <1>2, <1>7, <1>10, <2>1, <2>2, <2>5 DEF Copied
    <3> QED BY <1>2, <1>7, <2>1, <2>3, <3>1 DEF Copied
  <2>6. CASE y = x
    <3> DEFINE of == Of(x)
    <3>1. /\ Len(of) = export.counted[x] - export.left[x] /\ Len(of) = Len(got)
          /\ \A k \in 1..Len(of) : of[k] = got[k]
          /\ Is(x, export.at[x]) => sent.at[x] = export.at[x]
          /\ Is(x, export.at[x]) => export.counted[x] <= Len(got) + Len(q)
      BY <1>2, <2>1, <2>6 DEF Copied
    <3>2. Of(x)' = Append(of, s) /\ IsSeq(of) /\ Len(of) \in Nat /\ export.counted[x] \in Nat
      BY <1>2, <2>2, <2>4, <2>6
    <3> HIDE DEF of, got, s, q
    <3>3. Len(Append(of, s)) = Len(of) + 1 /\ Append(of, s)[Len(of) + 1] = s
          /\ \A k \in 1..Len(of) : Append(of, s)[k] = of[k]
      BY <3>2, AppendFacts
    <3> DEFINE now == IF x \in DOMAIN export'.left THEN export'.left[x] ELSE 0
    <3>4. now = n
      BY <1>7, <1>10
    <3>5. Len(Of(x)') = export.counted[x] - n
      BY <1>9, <1>10, <3>1, <3>2, <3>3
    <3>6. Len(Of(x)') = Len(sent'.got[x])
      BY <1>2, <1>3, <3>1, <3>2, <3>3
    <3>7. \A k \in 1..Len(Of(x)') : Of(x)'[k] = sent'.got[x][k]
      <4> TAKE k \in 1..Len(Of(x)')
      <4>1. k \in 1..Len(got) \/ k = Len(got) + 1
        BY <1>2, <1>3, <3>6
      <4> QED BY <1>2, <1>3, <3>1, <3>2, <3>3, <4>1
    <3>8. Is(x, export.at[x]) => export.counted[x] <= Len(sent'.got[x]) + Len(sent'.queue[x])
      BY <1>2, <1>3, <3>1, <3>2
    <3>9. Len(Of(x)') <= Len(sent'.got[x])
      BY <1>2, <1>3, <3>6
    <3> HIDE DEF now
    <3>10. x \in DOMAIN sent'.last /\ Len(Of(x)') = export'.counted[x] - now
           /\ (Is(x, export.at[x])' => sent'.at[x] = export'.at[x])
      BY <1>2, <1>7, <2>3, <2>6, <3>1, <3>4, <3>5
    <3>11. Is(x, export.at[x])' => export'.counted[x] <= Len(sent'.got[x]) + Len(sent'.queue[x])
      BY <1>7, <2>3, <2>6, <3>8
    <3> QED BY <2>6, <3>6, <3>7, <3>9, <3>10, <3>11 DEF Copied, now
  <2> QED BY <2>5, <2>6
<1>14. Exported'
  <2>1. disk'[1].header = DOMAIN export'.counted
    <3>1. disk'[1] = disk[1]
      BY <1>8
    <3> QED BY <1>6, <1>7, <3>1
  <2>2. ASSUME NEW k \in 2..Len(disk') PROVE disk'[k].trial \in DOMAIN export'.counted
    <3>1. CASE k = Len(disk) + 1
      BY <1>2, <1>7, <1>8, <1>9, <3>1
    <3>2. CASE k # Len(disk) + 1
      <4>1. k \in 2..Len(disk) /\ k \in 1..Len(disk)
        BY <1>8, <3>2
      <4>2. disk[k].trial \in DOMAIN export.counted
        BY <1>1, <4>1 DEF TInv, Exported
      <4> QED BY <1>7, <1>8, <4>1, <4>2
    <3> QED BY <3>1, <3>2
  <2>3. Len(disk') = export'.pos
    BY <1>6, <1>7, <1>8
  <2> QED BY <1>7, <1>8, <1>11, <1>13, <2>1, <2>2, <2>3 DEF Exported
<1> QED BY <1>12, <1>14

\* A sample of a trial that is complete leaves the file as it is.
LEMMA ExportDrops ==
  ASSUME FileInv, Transfers, Sampled, RInv, StoreAssumption, ClientsAssumption, TInv,
         NEW x \in Trials, Receive(x), x \notin DOMAIN export.left
  PROVE  Begun' /\ Exported'
<1> DEFINE q == sent.queue[x]
           got == sent.got[x]
           s == q[1]
<1>1. export.is = "reading" /\ Give(Exporter, x) /\ UNCHANGED <<disk, export, import, exports>>
  BY DEF Receive
<1>2. /\ x \in DOMAIN sent.last /\ q # <<>>
      /\ DOMAIN sent'.last = DOMAIN sent.last /\ sent'.at = sent.at
      /\ sent'.queue[x] = Tail(q) /\ sent'.got[x] = Append(got, s)
      /\ \A y \in DOMAIN sent.last : y # x =>
           sent'.queue[y] = sent.queue[y] /\ sent'.got[y] = sent.got[y]
      /\ IsSeq(q) /\ IsSeq(got) /\ UNCHANGED <<trials, sequence>>
  BY <1>1, GivenSample DEF TInv
<1>3. /\ Len(got) \in Nat /\ Len(Append(got, s)) = Len(got) + 1
      /\ \A k \in 1..Len(got) : Append(got, s)[k] = got[k]
      /\ Len(q) \in Nat /\ Len(Tail(q)) = Len(q) - 1
  <2> HIDE DEF q, got
  <2> QED BY <1>2, Moved
<1> HIDE DEF s, q, got
<1>4. Begun'
  BY <1>1, <1>2 DEF TInv, Begun, Is
<1>5. ASSUME NEW y \in DOMAIN export.counted PROVE Copied(y)'
  <2>1. Copied(y) /\ export.counted[y] \in Nat /\ Len(Of(y)) \in Nat
    BY <1>1, OfFacts DEF TInv, Exported, Begun, Sampled, DiskSamples
  <2>2. Of(y)' = Of(y) /\ (Is(y, export.at[y])' <=> Is(y, export.at[y]))
    BY <1>1, <1>2 DEF Of, Is
  <2>3. CASE y # x
    BY <1>1, <1>2, <2>1, <2>2, <2>3 DEF Copied
  <2>4. CASE y = x
    <3>1. /\ Len(Of(x)) = export.counted[x] - 0 /\ Len(Of(x)) <= Len(got)
          /\ \A k \in 1..Len(Of(x)) : Of(x)[k] = got[k]
          /\ Is(x, export.at[x]) => sent.at[x] = export.at[x]
          /\ Is(x, export.at[x]) => export.counted[x] <= Len(got) + Len(q)
      BY <1>2, <2>1, <2>4 DEF Copied, got, q
    <3>2. Len(Of(x)) <= Len(sent'.got[x])
      BY <1>2, <1>3, <2>1, <2>4, <3>1
    <3>3. \A k \in 1..Len(Of(x)) : Of(x)[k] = sent'.got[x][k]
      <4> TAKE k \in 1..Len(Of(x))
      <4>1. k \in 1..Len(got)
        BY <1>3, <2>1, <2>4, <3>1
      <4> QED BY <1>2, <1>3, <3>1, <4>1
    <3>4. Is(x, export.at[x]) => export.counted[x] <= Len(sent'.got[x]) + Len(sent'.queue[x])
      BY <1>2, <1>3, <2>1, <2>4, <3>1
    <3> QED BY <1>1, <1>2, <2>2, <2>4, <3>1, <3>2, <3>3, <3>4 DEF Copied
  <2> QED BY <2>3, <2>4
<1> QED BY <1>1, <1>4, <1>5 DEF TInv, Exported

LEMMA ExportReceives ==
  ASSUME FileInv, Transfers, Sampled, RInv, StoreAssumption, ClientsAssumption, TInv,
         NEW x \in Trials, Receive(x)
  PROVE  Passed' /\ Begun' /\ Exported' /\ Imported'
<1>1. Passed'
  BY ReceivesPassed DEF Receive, TInv
<1>2. Begun' /\ Exported'
  BY ExportWrites, ExportDrops
<1>3. Imported'
  <2>1. export.is = "reading" /\ UNCHANGED import
    BY DEF Receive
  <2> QED BY <2>1 DEF TInv, Imported, NoImport
<1> QED BY <1>1, <1>2, <1>3

\* The steps that leave the file and the export as they are.
LEMMA ExportStays ==
  ASSUME FileInv, FileInv', RInv, ClientsAssumption, Grows, Kept, TInv, SentKept,
         UNCHANGED <<export, disk, exports>>
  PROVE  Passed' /\ Begun' /\ Exported'
BY StaysPassed, StaysBegun, StaysExported DEF TInv

LEMMA ExportRefuses ==
  ASSUME FileInv, Transfers, RInv, ClientsAssumption, Grows, Kept, TInv, RefuseExport
  PROVE  Passed' /\ Begun' /\ Exported' /\ Imported'
<1>1. /\ export.is = "counted" /\ export' = [export EXCEPT !.is = "failed"]
      /\ UNCHANGED <<trials, sequence, request, disk, import, exports>>
  BY DEF RefuseExport, Fail, vars, file, calls
<1>2. import.is = "idle" /\ exports # 0
  BY <1>1 DEF TInv, Begun, Imported, NoExport
<1>3. SentKept
  BY <1>1 DEF SentKept, sent, RInv, Observing, ClientsAssumption
<1>4. Passed'
  BY <1>3, StaysPassed DEF TInv
<1> QED BY <1>1, <1>2, <1>4, ExportRefused

-----------------------------------------------------------------------------
(* The steps of an import                                                  *)

\* What an import changes of itself.
LEMMA ImportFields ==
  ASSUME Transfers, NEW fields, ImportIs(fields), NEW f \in {"is", "pos", "read", "at"}
  PROVE  import'[f] = (IF f \in DOMAIN fields THEN fields[f] ELSE import[f])
BY DEF ImportIs, Transfers

\* An import that fails, or that is done with the file.
LEMMA ImportStops ==
  ASSUME FileInv, Transfers, ClientsAssumption, TInv, Grows, Kept,
         NEW is \in {"done", "failed"}, ImportIs([is |-> is]),
         export.is \in {"done", "failed"},
         is = "done" => import.is = "reading" /\ import.pos = Len(disk)
  PROVE  Imported'
<1> DEFINE fields == [is |-> is]
<1>1. /\ "is" \in DOMAIN fields /\ fields.is = is
      /\ "pos" \notin DOMAIN fields /\ "read" \notin DOMAIN fields /\ "at" \notin DOMAIN fields
  OBVIOUS
<1> HIDE DEF fields
<1>2. ImportIs(fields)
  BY DEF fields
<1>3. /\ import'["is"] = is /\ import'["pos"] = import["pos"]
      /\ import'["read"] = import["read"] /\ import'["at"] = import["at"]
  BY <1>1, <1>2, ImportFields
<1>4. import'.is = is /\ import'.pos = import.pos /\ import'.read = import.read /\ import'.at = import.at
  BY <1>3
<1>5. UNCHANGED <<export, disk>>
  BY <1>2 DEF ImportIs
<1>6. is = "done" => \A x \in DOMAIN import.read : Arrived(x)'
  <2> SUFFICES ASSUME is = "done", NEW x \in DOMAIN import.read PROVE Arrived(x)'
    OBVIOUS
  <2>1. Arrived(x) /\ x \in Trials
    BY DEF TInv, Imported, Transfers
  <2> QED BY <1>4, <1>5, <2>1, StaysArrived DEF Arrived, Is, Same
<1>7. DOMAIN import.at = DOMAIN import.read
  BY DEF TInv, Imported
<1> QED BY <1>4, <1>5, <1>6, <1>7 DEF TInv, Imported

LEMMA ImportChecks ==
  ASSUME FileInv, Transfers, ClientsAssumption, TInv, Grows, Kept, Sampled, CheckTrials PROVE Imported'
<1>1. /\ import.is = "idle" /\ disk # <<>> /\ export.is \in {"done", "failed"}
      /\ ImportIs([is |-> "failed"]) \/ ImportIs([is |-> "reading", pos |-> 1])
  BY DEF CheckTrials
<1>2. import = NoImport
  BY <1>1 DEF TInv, Imported
<1>3. CASE ImportIs([is |-> "failed"])
  BY <1>1, <1>3, ImportStops
<1>4. CASE ImportIs([is |-> "reading", pos |-> 1])
  <2> DEFINE fields == [is |-> "reading", pos |-> 1]
  <2>1. ImportIs(fields) /\ DOMAIN fields = {"is", "pos"} /\ fields.is = "reading" /\ fields.pos = 1
    BY <1>4
  <2> HIDE DEF fields
  <2>2. /\ import'["is"] = "reading" /\ import'["pos"] = 1
        /\ import'["read"] = import["read"] /\ import'["at"] = import["at"]
    BY <2>1, ImportFields
  <2>3. import'.is = "reading" /\ import'.pos = 1 /\ DOMAIN import'.read = {} /\ DOMAIN import'.at = {}
    BY <1>2, <2>2 DEF NoImport
  <2>4. UNCHANGED <<export, disk>>
    BY <2>1 DEF ImportIs
  <2>5. 1 \in 1..Len(disk)
    BY <1>1 DEF Sampled, DiskSamples, IsSeq
  <2>6. \A k \in 2..1 : disk'[k].trial \in DOMAIN import'.read
    OBVIOUS
  <2> QED BY <1>1, <2>3, <2>4, <2>5, <2>6 DEF Imported
<1> QED BY <1>1, <1>3, <1>4

\* A trial is added before the first of its samples.
LEMMA ImportAdds ==
  ASSUME FileInv, Transfers, Sampled, ClientsAssumption, TInv, Grows, Kept, NEW kind, ImportTrial(kind)
  PROVE  Imported'
<1> DEFINE x == NextSample.trial
           to == Prefixed[x]
           reads == [y \in DOMAIN import.read \cup {x} |-> IF y = x THEN 0 ELSE import.read[y]]
           ats == [y \in DOMAIN import.at \cup {x} |-> IF y = x THEN trials'[to].idx ELSE import.at[y]]
<1>1. import.is = "reading" /\ import.pos < Len(disk) /\ x \notin DOMAIN import.read
  BY DEF ImportTrial, MoreSamples
<1>2. export.is \in {"done", "failed"} /\ DOMAIN import.at = DOMAIN import.read
  BY <1>1 DEF TInv, Imported
<1>3. CASE x \notin disk[1].header
  BY <1>2, <1>3, ImportStops DEF ImportTrial
<1>4. CASE x \in disk[1].header
  <2> DEFINE fields == [read |-> reads, at |-> ats]
  <2>1. AddTrial(to, kind) /\ ImportIs(fields)
    BY <1>4 DEF ImportTrial
  <2>2. DOMAIN fields = {"read", "at"} /\ fields.read = reads /\ fields.at = ats
    OBVIOUS
  <2>3. /\ DOMAIN reads = DOMAIN import.read \cup {x} /\ DOMAIN ats = DOMAIN import.read \cup {x}
        /\ ats[x] = trials'[to].idx /\ \A y \in DOMAIN import.read : ats[y] = import.at[y]
    BY <1>1, <1>2
  <2> HIDE DEF fields, reads, ats
  <2>4. /\ import'["is"] = import["is"] /\ import'["pos"] = import["pos"]
        /\ import'["read"] = reads /\ import'["at"] = ats
    BY <2>1, <2>2, ImportFields
  <2>5. import'.is = "reading" /\ import'.pos = import.pos /\ import'.read = reads /\ import'.at = ats
    BY <1>1, <2>4
  <2>6. UNCHANGED <<export, disk>>
    BY <2>1 DEF ImportIs
  <2>7. /\ disk # <<>> /\ import.pos \in 1..Len(disk) /\ DOMAIN import.read \subseteq disk[1].header
        /\ \A k \in 2..import.pos : disk[k].trial \in DOMAIN import.read
        /\ \A y \in DOMAIN import.read : Arrived(y)
    BY <1>1 DEF TInv, Imported
  <2>8. disk[1].header \subseteq Trials /\ x \in Trials /\ to \in Trials
    BY <1>4, <2>7 DEF Transfers, ClientsAssumption
  <2>9. ats[x] \in 1..sequence'
    <3> HIDE DEF to
    <3>1. PutTrial(to, kind) /\ DOMAIN trials = Trials /\ sequence \in Nat
      BY <2>1 DEF AddTrial, FileInv, Shape
    <3>2. CASE trials[to] # None
      <4>1. trials'[to].idx = trials[to].idx /\ sequence' = sequence
        BY <2>8, <3>1, <3>2 DEF PutTrial, FileInv, Shape, IsBucket, BucketFields
      <4>2. trials[to].idx \in 1..sequence
        BY <2>8, <3>2 DEF FileInv, IndexMatches, Buckets
      <4> QED BY <2>3, <4>1, <4>2
    <3>3. CASE trials[to] = None
      <4>1. trials'[to].idx = sequence + 1 /\ sequence' = sequence + 1
        BY <2>8, <3>1, <3>3 DEF PutTrial
      <4> QED BY <2>3, <3>1, <4>1
    <3> QED BY <3>2, <3>3
  <2>10. ASSUME NEW y \in DOMAIN import.read PROVE Arrived(y)'
    <3>1. y \in Trials /\ Arrived(y)
      BY <2>7, <2>8
    <3> QED BY <2>3, <2>5, <2>6, <3>1, StaysArrived DEF Arrived, Is, Same
  <2>11. ASSUME NEW y, y = x PROVE Arrived(y)'
    <3>1. \A k \in 2..import'.pos : disk'[k].trial # y
      BY <1>1, <2>5, <2>6, <2>7, <2>11
    <3>2. import'.at[y] \in 1..sequence'
      BY <2>5, <2>9, <2>11
    <3> QED BY <3>1, <3>2 DEF Arrived
  <2>12. ASSUME NEW y \in DOMAIN import'.read PROVE Arrived(y)'
    BY <2>3, <2>5, <2>10, <2>11
  <2>13. /\ disk' # <<>> /\ import'.pos \in 1..Len(disk') /\ DOMAIN import'.read \subseteq disk'[1].header
         /\ \A k \in 2..import'.pos : disk'[k].trial \in DOMAIN import'.read
    BY <1>4, <2>3, <2>5, <2>6, <2>7
  <2> QED BY <1>2, <2>3, <2>5, <2>6, <2>12, <2>13 DEF Imported
<1> QED BY <1>3, <1>4

\* A sample is stored with the others of the trial that was added for it.
LEMMA ImportStores ==
  ASSUME FileInv, Transfers, Sampled, ClientsAssumption, TInv, Grows, Kept, ImportSample
  PROVE  Imported'
<1> DEFINE x == NextSample.trial
           to == Prefixed[x]
           s == [NextSample EXCEPT !.trial = to]
           here == import.pos + 1
           reads == [import.read EXCEPT ![x] = @ + 1]
<1>1. import.is = "reading" /\ import.pos < Len(disk) /\ x \in DOMAIN import.read
  BY DEF ImportSample, MoreSamples
<1>2. export.is \in {"done", "failed"} /\ DOMAIN import.at = DOMAIN import.read
  BY <1>1 DEF TInv, Imported
<1>3. CASE to \notin Buckets
  BY <1>2, <1>3, ImportStops DEF ImportSample
<1>4. CASE to \in Buckets
  <2> DEFINE fields == [pos |-> here, read |-> reads]
  <2>1. AddSamples(to, <<s>>) /\ ImportIs(fields)
    BY <1>4 DEF ImportSample
  <2>2. /\ DOMAIN fields = {"pos", "read"} /\ fields.read = reads /\ fields.pos = here
        /\ DOMAIN reads = DOMAIN import.read
    OBVIOUS
  <2> HIDE DEF fields, reads
  <2>3. /\ import'["is"] = import["is"] /\ import'["pos"] = here
        /\ import'["read"] = reads /\ import'["at"] = import["at"]
    BY <2>1, <2>2, ImportFields
  <2>4. import'.is = "reading" /\ import'.pos = here /\ import'.read = reads /\ import'.at = import.at
    BY <1>1, <2>3
  <2>5. UNCHANGED <<export, disk>>
    BY <2>1 DEF ImportIs
  <2>6. /\ disk # <<>> /\ import.pos \in 1..Len(disk) /\ DOMAIN import.read \subseteq disk[1].header
        /\ \A k \in 2..import.pos : disk[k].trial \in DOMAIN import.read
        /\ \A y \in DOMAIN import.read : Arrived(y)
    BY <1>1 DEF TInv, Imported
  <2>7. disk[1].header \subseteq Trials /\ x \in Trials /\ to \in Trials /\ trials[to] # None
    BY <1>1, <1>4, <2>6 DEF Transfers, ClientsAssumption, Buckets
  <2>8. Len(disk) \in Nat /\ here \in 2..Len(disk) /\ here \in DOMAIN disk /\ here # 1 /\ disk[here] = NextSample
        /\ \A k \in 2..here : k = here \/ k \in 2..import.pos
    BY <1>1, <2>6 DEF Sampled, DiskSamples, IsSeq, NextSample
  <2>9. IsSample(NextSample)
    BY <2>8 DEF Sampled, DiskSamples
  <2>10. IsSample(s) /\ s.tick = NextSample.tick
    BY <2>9 DEF IsSample, SampleFields
  <2>11. NextSample.tick \in DOMAIN trials'[to].samples /\ Same(NextSample, trials'[to].samples[NextSample.tick], to)
    <3> DEFINE batch == <<s>>
               b == trials[to]
    <3>1. DOMAIN batch = {1} /\ batch[1] = s
      OBVIOUS
    <3>2. Same(NextSample, s, to)
      BY DEF Same
    <3>3. IsSeq(batch)
      BY OneIsSeq
    <3>4. trials' = [trials EXCEPT ![to] = WithSamples(b, batch)]
      BY <2>1 DEF AddSamples
    <3> HIDE DEF batch, s, to
    <3>5. Samples(batch) /\ Ticks(batch) = {NextSample.tick}
      BY <2>10, <3>1, <3>3 DEF Samples, Ticks
    <3>6. IsBucket(b) /\ DOMAIN trials = Trials
      BY <2>7 DEF FileInv, Shape
    <3> HIDE DEF b
    <3>7. /\ NextSample.tick \in DOMAIN WithSamples(b, batch).samples
          /\ WithSamples(b, batch).samples[NextSample.tick] = s
      BY <3>1, <3>5, <3>6, FromBatch
    <3>8. trials'[to] = WithSamples(b, batch)
      BY <2>7, <3>4, <3>6
    <3> QED BY <3>2, <3>7, <3>8
  <2> HIDE DEF here, s
  <2>12. ASSUME NEW y \in DOMAIN import.read PROVE Arrived(y)'
    <3> DEFINE up == Prefixed[y]
    <3>1. y \in Trials /\ Arrived(y)
      BY <2>6, <2>7
    <3>2. import.at[y] \in 1..sequence'
      BY <3>1, StaysArrived
    <3>3. ASSUME trials'[up] # None, trials'[up].idx = import.at[y], NEW k \in 2..here, disk[k].trial = y
          PROVE  /\ disk[k].tick \in DOMAIN trials'[up].samples
                 /\ Same(disk[k], trials'[up].samples[disk[k].tick], up)
      <4>1. CASE k = here
        BY <2>8, <2>11, <3>3, <4>1
      <4>2. CASE k \in 2..import.pos
        BY <3>1, <3>3, <4>2, StaysArrived
      <4> QED BY <2>8, <4>1, <4>2
    <3> HIDE DEF up
    <3>4. Is(up, import.at[y])' => \A k \in 2..here : disk[k].trial = y =>
            /\ disk[k].tick \in DOMAIN trials'[up].samples
            /\ Same(disk[k], trials'[up].samples[disk[k].tick], up)
      BY <2>4, <3>3 DEF Is
    <3> QED BY <2>4, <2>5, <3>2, <3>4 DEF Arrived, Same, up
  <2>13. /\ disk' # <<>> /\ import'.pos \in 1..Len(disk') /\ DOMAIN import'.read \subseteq disk'[1].header
         /\ \A k \in 2..import'.pos : disk'[k].trial \in DOMAIN import'.read
    BY <1>1, <2>2, <2>4, <2>5, <2>6, <2>8
  <2> QED BY <1>2, <2>2, <2>4, <2>5, <2>12, <2>13 DEF Imported
<1> QED BY <1>3, <1>4

LEMMA ImportEnds ==
  ASSUME FileInv, Transfers, ClientsAssumption, TInv, Grows, Kept, EndImport PROVE Imported'
<1>1. import.is = "reading" /\ export.is \in {"done", "failed"}
  BY DEF EndImport, TInv, Imported
<1>2. (import.pos = Len(disk) /\ ImportIs([is |-> "done"])) \/ ImportIs([is |-> "failed"])
  BY DEF EndImport
<1> QED BY <1>1, <1>2, ImportStops

LEMMA ImportTransfers ==
  ASSUME FileInv, FileInv', Transfers, Sampled, RInv, ClientsAssumption, StoreAssumption, TInv, Grows, Kept,
         CheckTrials \/ ImportSample \/ EndImport \/ \E kind \in Kinds : ImportTrial(kind)
  PROVE  Passed' /\ Begun' /\ Exported' /\ Imported'
<1>1. UNCHANGED request
  <2>1. ASSUME NEW x, NEW kind, AddTrial(x, kind) PROVE UNCHANGED request
    BY <2>1 DEF AddTrial
  <2> QED BY <2>1 DEF CheckTrials, ImportSample, EndImport, ImportTrial, vars, calls
<1>2. UNCHANGED <<export, disk, exports>>
  BY DEF CheckTrials, ImportSample, EndImport, ImportTrial, ImportIs
<1>3. SentKept
  BY <1>1 DEF SentKept, sent, RInv, Observing, ClientsAssumption
<1>4. Imported'
  BY ImportChecks, ImportAdds, ImportStores, ImportEnds
<1> QED BY <1>2, <1>3, <1>4, ExportStays

LEMMA NextTransfers ==
  ASSUME IInv, IInv', Sampled, RInv, TInv, Grows, Kept, MaxExports = 1,
         StoreAssumption, ClientsAssumption, [CNext]_allVars
  PROVE  TInv'
<1>1. FileInv /\ FileInv' /\ Transfers /\ Named'
  BY NextNames DEF IInv, TInv
<1> SUFFICES Passed' /\ Begun' /\ Exported' /\ Imported'
  BY <1>1 DEF TInv
<1>2. ASSUME UNCHANGED clientVars, SentKept PROVE Passed' /\ Begun' /\ Exported' /\ Imported'
  <2>1. UNCHANGED <<export, disk, import, exports>>
    BY <1>2 DEF clientVars
  <2>2. import.is # "idle" => export'.is \in {"done", "failed"}
    BY <2>1 DEF TInv, Imported
  <2> QED BY <1>1, <1>2, <2>1, <2>2, ExportStays, StaysImported DEF TInv
<1>3. CASE Others /\ UNCHANGED clientVars
  BY <1>1, <1>2, <1>3, OthersSent, ExportReads
<1>4. CASE UNCHANGED allVars
  <2>1. UNCHANGED clientVars /\ UNCHANGED request
    BY <1>4 DEF allVars, vars, calls
  <2>2. SentKept
    BY <2>1 DEF SentKept, sent, RInv, Observing, ClientsAssumption
  <2> QED BY <1>2, <2>1, <2>2
<1>5. ASSUME NEW xs \in SUBSET Trials \ {{}}, CountSamples(xs) PROVE Passed' /\ Begun' /\ Exported' /\ Imported'
  BY <1>1, <1>5, ExportCounts
<1>6. CASE RefuseExport \/ AskSamples \/ EndExport \/ \E x \in Trials : Receive(x)
  BY <1>1, <1>6, ExportRefuses, ExportAsks, ExportEnds, ExportReceives
<1>7. CASE CheckTrials \/ ImportSample \/ EndImport \/ \E kind \in Kinds : ImportTrial(kind)
  BY <1>1, <1>7, ImportTransfers
<1> QED BY <1>3, <1>4, <1>5, <1>6, <1>7 DEF CNext

LEMMA TransfersStart ==
  ASSUME CInit, StoreAssumption, ClientsAssumption PROVE TInv
<1>1. PICK old \in OldFiles :
        trials = [x \in Trials |->
          IF \E n \in DOMAIN old : old[n] = x
            THEN [idx |-> CHOOSE n \in DOMAIN old : old[n] = x, count |-> None,
                  kind |-> CHOOSE kind \in Kinds : TRUE, samples |-> OldSamples(x, script[x])]
            ELSE None]
  BY DEF CInit, Init
<1>2. streams = [x \in Trials |-> NoStream] /\ sent = NoRequest
      /\ export = NoExport /\ disk = <<>> /\ import = NoImport /\ exports = 0
  BY DEF CInit, Init, ClientsAssumption, sent
<1>3. Named
  <2>1. ASSUME NEW x \in Trials, trials[x] # None, NEW t \in DOMAIN trials[x].samples
        PROVE  trials[x].samples[t].trial = x
    <3> DEFINE log == script[x]
               k == CHOOSE k \in DOMAIN log : log[k].tick = t
    <3>1. trials[x].samples = OldSamples(x, log)
      BY <1>1, <2>1
    <3>2. t \in {log[j].tick : j \in DOMAIN log}
      BY <2>1, <3>1 DEF OldSamples
    <3>3. trials[x].samples[t] = StoredSample(x, log[k], [i \in DOMAIN Actors |-> i])
      BY <3>1, <3>2 DEF OldSamples
    <3> HIDE DEF k, log
    <3> QED BY <3>3 DEF StoredSample, EmptySample
  <2> QED BY <1>2, <2>1 DEF Named, Names, Bucketed, NoStream
<1>4. DOMAIN NoRequest.last = {} /\ DOMAIN NoRequest.ended = {}
  BY DEF NoRequest
<1>5. Passed
  BY <1>2, <1>4 DEF Passed
<1>6. Begun /\ Exported /\ Imported
  BY <1>2 DEF Begun, Exported, Imported, NoExport, NoImport
<1> QED BY <1>3, <1>5, <1>6 DEF TInv

\* A complete file has of each trial the first samples, as many as were counted.
LEMMA CopiedFirst ==
  ASSUME IInv, Sampled, RInv, TInv, StoreAssumption, ClientsAssumption, export.is = "done",
         NEW x \in DOMAIN export.counted, Is(x, export.at[x])
  PROVE  Of(x) = [k \in 1..export.counted[x] |-> trials[x].samples[Sorted(DOMAIN trials[x].samples)[k]]]
<1> DEFINE T == DOMAIN trials[x].samples
           got == sent.got[x]
           last == sent.last[x]
           n == export.counted[x]
           S == {t \in T : t <= last}
<1>1. /\ Copied(x) /\ n \in Nat \ {0} /\ x \in Trials /\ IsSeq(disk)
      /\ x \in DOMAIN export.left => /\ export.left[x] \in 1..n /\ sent.ended[x] /\ sent.queue[x] = <<>>
  BY DEF TInv, Exported, Begun, Sampled, DiskSamples
<1>2. /\ x \in DOMAIN sent.last /\ Is(x, sent.at[x]) /\ IsSeq(got) /\ Exact(x, got)
      /\ sent.ended[x] => got # <<>>
  <2>1. x \in DOMAIN sent.last /\ Is(x, sent.at[x])
    BY <1>1 DEF Copied
  <2>2. IsSeq(got)
    BY <2>1 DEF RInv, Observing, ClientsAssumption, sent, Samples
  <2> QED BY <2>1, <2>2 DEF TInv, Passed
<1>3. DOMAIN got = 1..Len(got) /\ Len(got) \in Nat
  BY <1>2 DEF IsSeq
<1>4. x \notin DOMAIN export.left
  <2> SUFFICES ASSUME x \in DOMAIN export.left PROVE FALSE
    OBVIOUS
  <2>1. got # <<>> /\ Len(sent.queue[x]) = 0
    BY <1>1, <1>2
  <2>2. n <= Len(got) + 0 /\ Len(got) = n - export.left[x]
    BY <1>1, <2>1 DEF Copied
  <2> QED BY <1>1, <1>3, <2>2
<1>5. Len(Of(x)) = n /\ n <= Len(got) /\ \A k \in 1..n : Of(x)[k] = got[k]
  BY <1>1, <1>4 DEF Copied
<1>6. IsFiniteSet(T) /\ T \subseteq Nat
  BY <1>1, <1>2, TicksAreNumbers DEF IInv, FileInv, Shape, IsBucket, Is
<1>7. Coming(Exporter, x)
  BY <1>2 DEF RInv, Observed, ClientsAssumption, sent, Is
<1>8. last # None /\ last \in Nat
  <2>1. 1 \in DOMAIN got
    BY <1>1, <1>3, <1>5
  <2>2. Ticks(got) # {}
    <3>1. got[1].tick \in Ticks(got)
      BY <2>1 DEF Ticks
    <3> QED BY <3>1
  <2>3. last # None
    BY <1>7, <2>2 DEF Coming, InTurn, Later, sent
  <2> QED BY <1>6, <1>7, <2>3 DEF Coming, InTurn, sent
<1>9. [k \in DOMAIN got |-> got[k].tick] = Sorted(S)
  <2>1. RetrievedInOrder /\ Exporter \in Requests /\ x \in Observed(Exporter) \cap Buckets
    BY <1>1, <1>2, RequestsSuffice DEF ClientsAssumption, Observed, Buckets, Is, sent
  <2> QED BY <1>2, <1>8, <2>1 DEF RetrievedInOrder, sent, Is
<1> HIDE DEF T, last
<1>10. \A k \in 1..Len(Sorted(S)) : Sorted(T)[k] = Sorted(S)[k]
  BY <1>6, <1>8, SortedPrefix
<1> HIDE DEF got, S
<1>11. Len(Sorted(S)) = Len(got) /\ \A k \in 1..Len(got) : Sorted(S)[k] = got[k].tick
  <2> DEFINE ticks == [k \in DOMAIN got |-> got[k].tick]
             R == {got[k].tick : k \in DOMAIN got}
             l == Len(got)
  <2>1. \A k \in 1..l : ticks[k] = got[k].tick
    BY <1>3
  <2>2. ticks \in [1..l -> R]
    BY <1>3
  <2> HIDE DEF ticks, R, l
  <2>3. Len(ticks) = l
    BY <1>3, <2>2 DEF l
  <2> QED BY <1>9, <2>1, <2>3 DEF ticks, l
<1>12. ASSUME NEW k \in 1..n PROVE Of(x)[k] = trials[x].samples[Sorted(T)[k]]
  <2>1. k \in 1..Len(got)
    BY <1>1, <1>3, <1>5
  <2>2. got[k] = trials[x].samples[got[k].tick]
    BY <1>2, <1>3, <2>1 DEF Exact
  <2> QED BY <1>5, <1>10, <1>11, <2>1, <2>2
<1>13. Of(x) = [k \in 1..n |-> Of(x)[k]]
  <2>1. DOMAIN Of(x) = 1..n
    BY <1>1, <1>5, OfFacts
  <2>2. Of(x) = [k \in DOMAIN Of(x) |-> Of(x)[k]]
    BY DEF Of
  <2> QED BY <2>1, <2>2
<1> QED BY <1>12, <1>13 DEF T

LEMMA TransfersSuffice ==
  ASSUME IInv, Sampled, RInv, TInv, StoreAssumption, ClientsAssumption PROVE TransferWhole
<1>1. ExportWhole
  <2> SUFFICES ASSUME export.is = "done" PROVE ExportWhole
    BY DEF ExportWhole
  <2>1. /\ disk[1].header = DOMAIN export.counted
        /\ \A k \in 2..Len(disk) : disk[k].trial \in DOMAIN export.counted
    BY DEF TInv, Exported
  <2>2. ASSUME NEW x \in DOMAIN export.counted \cap Buckets, trials[x].idx = export.at[x]
        PROVE  Of(x) = [k \in 1..export.counted[x] |-> trials[x].samples[Sorted(DOMAIN trials[x].samples)[k]]]
    BY <2>2, CopiedFirst DEF Is, Buckets
  <2> QED BY <2>1, <2>2 DEF ExportWhole
<1>2. ImportWhole
  <2> SUFFICES ASSUME export.is = "done", import.is = "done" PROVE ImportWhole
    BY DEF ImportWhole
  <2>1. /\ IsSeq(disk) /\ disk[1].header = DOMAIN export.counted /\ DOMAIN import.read \subseteq disk[1].header
        /\ import.pos = Len(disk) /\ \A k \in 2..import.pos : disk[k].trial \in DOMAIN import.read
        /\ \A x \in DOMAIN import.read : Arrived(x)
    BY DEF TInv, Exported, Imported, Sampled, DiskSamples
  <2>2. ASSUME NEW x \in disk[1].header PROVE x \in DOMAIN import.read
    <3>1. /\ Copied(x) /\ export.counted[x] \in Nat \ {0}
          /\ x \in DOMAIN export.left => sent.ended[x]
      BY <2>1 DEF TInv, Exported, Begun
    <3>2. Len(Of(x)) # 0
      <4>1. CASE x \in DOMAIN export.left
        <5>1. sent.got[x] # <<>> /\ Len(Of(x)) = Len(sent.got[x])
          BY <3>1, <4>1 DEF Copied, TInv, Passed
        <5>2. IsSeq(sent.got[x])
          BY <3>1 DEF Copied, RInv, Observing, ClientsAssumption, sent, Samples
        <5>3. Len(sent.got[x]) # 0
          BY <5>1, <5>2 DEF IsSeq
        <5> QED BY <5>1, <5>3
      <4>2. CASE x \notin DOMAIN export.left
        BY <3>1, <4>2 DEF Copied
      <4> QED BY <4>1, <4>2
    <3>3. PICK k \in 2..Len(disk) : disk[k].trial = x
      <4>1. PlacesIn(x) # {}
        BY <2>1, <3>2, OfFacts
      <4> QED BY <4>1 DEF PlacesIn
    <3> QED BY <2>1, <3>3
  <2>3. ASSUME NEW x \in disk[1].header, Is(Prefixed[x], import.at[x]), NEW n \in DOMAIN Of(x)
        PROVE  /\ Of(x)[n].tick \in DOMAIN trials[Prefixed[x]].samples
               /\ Same(Of(x)[n], trials[Prefixed[x]].samples[Of(x)[n].tick], Prefixed[x])
    <3>1. PICK k \in 2..Len(disk) : disk[k].trial = x /\ Of(x)[n] = disk[k]
      <4>1. Sorted(PlacesIn(x))[n] \in PlacesIn(x) /\ Of(x)[n] = disk[Sorted(PlacesIn(x))[n]]
        BY <2>1, OfFacts
      <4> QED BY <4>1 DEF PlacesIn
    <3> QED BY <2>1, <2>2, <2>3, <3>1 DEF Arrived
  <2> QED BY <2>1, <2>2, <2>3 DEF ImportWhole, Is, Buckets
<1> QED BY <1>1, <1>2 DEF TransferWhole

\* While the samples of each trial are stored in the order of their ticks and none is
\* written again with something else in it, one export to a new file that ends well
\* wrote the first samples of every trial that is still there, as many as it had when
\* they were counted, and an import of the file that ends well stored them all, for any
\* number of trials and samples, whatever is logged, deleted, created anew and migrated
\* meanwhile, and wherever the datastore dies.
THEOREM TransferWholeAlways ==
  ASSUME NoneIsNoBucket, MaxExports = 1 PROVE CSpec /\ [][InOrder /\ Kept]_trials => []TransferWhole
<1>1. CInit => IInv /\ Sampled /\ RInv /\ TInv
  BY InvStarts, SamplesStart, TransfersStart, StoreAssumption, ClientsAssumption
<1>2. UNCHANGED trials => InOrder /\ Kept
  BY DEF InOrder, Kept
<1>3. IInv /\ Sampled /\ RInv /\ TInv /\ [CNext]_allVars /\ [InOrder /\ Kept]_trials =>
        (IInv /\ Sampled /\ RInv /\ TInv)'
  <2> SUFFICES ASSUME IInv, Sampled, RInv, TInv, [CNext]_allVars, [InOrder /\ Kept]_trials
               PROVE  (IInv /\ Sampled /\ RInv /\ TInv)'
    OBVIOUS
  <2>1. IInv'
    BY NextKeeps, StoreAssumption, ClientsAssumption
  <2>2. Sampled' /\ Grows /\ InOrder /\ Kept
    BY <1>2, NextStores, StoreAssumption, ClientsAssumption
  <2>3. RInv'
    BY <2>2, NextRequests, StoreAssumption, ClientsAssumption
  <2>4. TInv'
    BY <2>1, <2>2, NextTransfers, StoreAssumption, ClientsAssumption
  <2> QED BY <2>1, <2>2, <2>3, <2>4
<1>4. IInv /\ Sampled /\ RInv /\ TInv => TransferWhole
  BY TransfersSuffice, StoreAssumption, ClientsAssumption
<1> QED BY <1>1, <1>3, <1>4, PTL DEF CSpec
=============================================================================
