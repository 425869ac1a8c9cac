---------------------------- MODULE StoreClients ---------------------------
(***************************************************************************)
(* The trial datastore with the command line client that exports trials to *)
(* a file and imports them from one (clients/datastore/client.go,          *)
(* trialSamplesFile.go): many calls of the datastore each, between which   *)
(* trials go on, are deleted, and the datastore may die.  A message of the *)
(* file is one cell of it.                                                 *)
(***************************************************************************)
EXTENDS BoltStore

CONSTANTS
  Exporter,   \* the call of RetrieveSamples that ExportTrials makes
  Prefixed,   \* a function from trial ids to trial ids: trialIDPrefix and the id
  MaxExports  \* bound: exports to the one file

ASSUME ClientsAssumption == Exporter \in Requests /\ Prefixed \in [Trials -> Trials]

VARIABLES
  export, \* ExportTrials: where it stands and the samples it has to write
  disk,   \* the messages of the file
  import, \* ImportTrials: where it stands and what it read
  exports

clientVars == <<export, disk, import, exports>>
allVars == <<vars, clientVars>>

\* `counted` and `at` are only read by the properties.
NoExport == [is |-> "idle", of |-> {}, left |-> <<>>, counted |-> <<>>, at |-> <<>>, pos |-> 0]
NoImport == [is |-> "idle", pos |-> 0, read |-> <<>>, at |-> <<>>]
All == [names |-> {}, classes |-> {}, impls |-> {}, fields |-> {}]

CInit == Init /\ export = NoExport /\ disk = <<>> /\ import = NoImport /\ exports = 0

\* A write at the position the writer is at; what is after it stays.
Written(message) == [k \in 1..(IF Len(disk) > export.pos THEN Len(disk) ELSE export.pos + 1) |->
                      IF k = export.pos + 1 THEN message ELSE disk[k]]

-----------------------------------------------------------------------------
(* ExportTrials                                                            *)

\* RetrieveTrials: the samples there are now are those to be written.
CountSamples(xs) ==
  /\ serving /\ export.is \in {"idle", "done", "failed"} /\ import.is # "reading"
  /\ exports < MaxExports /\ exports' = exports + 1
  /\ LET full == {x \in xs \cap Buckets : SampleCount(trials[x]) > 0}
         counts == [x \in full |-> SampleCount(trials[x])]
     IN export' = [is |-> "counted", of |-> xs, left |-> counts, counted |-> counts,
                   at |-> [x \in full |-> trials[x].idx], pos |-> 0]
  /\ request' = [request EXCEPT ![Exporter] = NoRequest]
  /\ callOnly /\ UNCHANGED <<lister, disk, import>>

Fail == /\ export' = [export EXCEPT !.is = "failed"] /\ UNCHANGED <<disk, import, exports>>

\* Nothing to export, or a trial gone before its parameters were read.
RefuseExport ==
  /\ export.is = "counted" /\ serving
  /\ (DOMAIN export.left = {} \/ ~(DOMAIN export.left \subseteq Buckets))
  /\ Fail /\ UNCHANGED vars

\* RetrieveSamples for all the trials, and the header of the file for those
\* that have samples.
AskSamples ==
  /\ export.is = "counted" /\ DOMAIN export.left # {}
  /\ disk' = Written([header |-> DOMAIN export.left]) /\ UNCHANGED <<import, exports>>
  /\ \/ /\ Retrieve(Exporter, export.of, All)
        /\ export' = [export EXCEPT !.is = "reading", !.pos = 1]
     \/ /\ serving /\ ~(export.of \subseteq Buckets) /\ UNCHANGED vars
        /\ export' = [export EXCEPT !.is = "failed"]

\* Mutant: a trial that is complete goes on being written.
ReceiveAll(x) ==
  /\ export.is = "reading" /\ Give(Exporter, x)
  /\ LET n == export.left[x] - 1
     IN /\ disk' = Written(request'[Exporter].got[x][Len(request'[Exporter].got[x])])
        /\ export' = [export EXCEPT !.pos = @ + 1, !.left[x] = n]
  /\ UNCHANGED <<import, exports>>

\* A sample of a trial that is complete is dropped.
Receive(x) ==
  /\ export.is = "reading" /\ Give(Exporter, x)
  /\ IF x \in DOMAIN export.left
       THEN LET n == export.left[x] - 1
                others == DOMAIN export.left \ {x}
            IN /\ disk' = Written(request'[Exporter].got[x][Len(request'[Exporter].got[x])])
               /\ export' = [export EXCEPT
                    !.pos = @ + 1, !.is = IF n = 0 /\ others = {} THEN "closing" ELSE @,
                    !.left = IF n = 0 THEN [y \in others |-> @[y]] ELSE [@ EXCEPT ![x] = n]]
       ELSE UNCHANGED <<disk, export>>
  /\ UNCHANGED <<import, exports>>

\* Everything is written, or the stream came to its end; or it broke.
EndExport ==
  \/ /\ export.is = "closing" /\ export' = [export EXCEPT !.is = "done"]
     /\ IF open(Exporter) THEN Leave(Exporter) ELSE UNCHANGED vars
     /\ UNCHANGED <<disk, import, exports>>
  \/ /\ export.is = "reading" /\ Finish(Exporter) /\ export' = [export EXCEPT !.is = "done"]
     /\ UNCHANGED <<disk, import, exports>>
  \/ export.is = "reading" /\ request[Exporter].is = "failed" /\ Fail /\ UNCHANGED vars

-----------------------------------------------------------------------------
(* ImportTrials                                                            *)

ImportIs(fields) == /\ import' = [f \in DOMAIN import |->
                         IF f \in DOMAIN fields THEN fields[f] ELSE import[f]]
                    /\ UNCHANGED <<export, disk, exports>>

\* The header, and the check that none of its trials exists.
CheckTrials ==
  /\ serving /\ import.is = "idle" /\ disk # <<>> /\ export.is \in {"done", "failed"}
  /\ IF \E x \in disk[1].header : Prefixed[x] \in Buckets
       THEN ImportIs([is |-> "failed"]) ELSE ImportIs([is |-> "reading", pos |-> 1])
  /\ UNCHANGED vars

NextSample == disk[import.pos + 1]
MoreSamples == import.is = "reading" /\ import.pos < Len(disk)

\* The first sample of a trial adds the trial, which has to be in the header.
ImportTrial(kind) ==
  /\ MoreSamples /\ serving
  /\ LET x == NextSample.trial
     IN /\ x \notin DOMAIN import.read
        /\ IF x \in disk[1].header
             THEN /\ AddTrial(Prefixed[x], kind)
                  /\ ImportIs([read |-> [y \in DOMAIN import.read \cup {x} |->
                                 IF y = x THEN 0 ELSE import.read[y]],
                               at |-> [y \in DOMAIN import.at \cup {x} |->
                                 IF y = x THEN trials'[Prefixed[x]].idx ELSE import.at[y]]])
             ELSE ImportIs([is |-> "failed"]) /\ UNCHANGED vars

\* A call of AddSample for one sample.
ImportSample ==
  /\ MoreSamples /\ serving
  /\ LET x == NextSample.trial
         to == Prefixed[x]
     IN /\ x \in DOMAIN import.read
        /\ IF to \in Buckets
             THEN /\ AddSamples(to, <<[NextSample EXCEPT !.trial = to]>>)
                  /\ ImportIs([pos |-> import.pos + 1, read |-> [import.read EXCEPT ![x] = @ + 1]])
                  /\ quiet /\ UNCHANGED calls
             ELSE ImportIs([is |-> "failed"]) /\ UNCHANGED vars

\* The end of the file; or the call in progress fails with the datastore.
EndImport ==
  /\ import.is = "reading"
  /\ \/ import.pos = Len(disk) /\ ImportIs([is |-> "done"])
     \/ phase = "down" /\ ImportIs([is |-> "failed"])
  /\ UNCHANGED vars

-----------------------------------------------------------------------------
\* The export's call of RetrieveSamples is only made and read by the export.
Others ==
  \/ Open \/ MigrateTrial \/ Migrated \/ Crash
  \/ \E x \in Trials : Logging(x) \/ ReadRound(Exporter, x)
  \/ \E xs \in SUBSET Trials \ {{}} : Delete(xs)
  \/ \E r \in Requests \ {Exporter} : Retrieving(r)
  \/ \E l \in Listers : Listing(l)

CNext ==
  \/ Others /\ UNCHANGED clientVars
  \/ \E xs \in SUBSET Trials \ {{}} : CountSamples(xs)
  \/ RefuseExport \/ AskSamples \/ EndExport
  \/ \E x \in Trials : Receive(x)
  \/ CheckTrials \/ ImportSample \/ EndImport \/ \E kind \in Kinds : ImportTrial(kind)

CSpec == CInit /\ [][CNext]_allVars

\* The goroutines of a call go on, and its client receives.
CFairness ==
  /\ WF_allVars(EndExport)
  /\ \A x \in Trials :
       /\ \A r \in Requests \ {Exporter} : WF_allVars((ReadRound(r, x) \/ Give(r, x)) /\ UNCHANGED clientVars)
       /\ WF_allVars((ReadRound(Exporter, x) /\ UNCHANGED clientVars) \/ Receive(x))

-----------------------------------------------------------------------------
(* Properties                                                              *)

\* The samples of a trial in the file, as they come.
Of(x) == LET at == Sorted({k \in 2..Len(disk) : disk[k].trial = x})
         IN [n \in DOMAIN at |-> disk[at[n]]]
Same(s, t, x) == t = [s EXCEPT !.trial = x]

\* An export that ends well wrote the samples each trial had when it was
\* counted, from the first one on and nothing else (datastoreExport.go:66-67).
ExportWhole ==
  export.is = "done" =>
    /\ disk[1].header = DOMAIN export.counted
    /\ \A k \in 2..Len(disk) : disk[k].trial \in DOMAIN export.counted
    /\ \A x \in DOMAIN export.counted \cap Buckets : trials[x].idx = export.at[x] =>
         LET ticks == Sorted(DOMAIN trials[x].samples)
         IN Of(x) = [k \in 1..export.counted[x] |-> trials[x].samples[ticks[k]]]

\* An import of such a file that ends well stored all its trials and samples.
ImportWhole ==
  export.is = "done" /\ import.is = "done" =>
    /\ DOMAIN import.read = disk[1].header
    /\ \A x \in disk[1].header : LET to == Prefixed[x] IN
         to \in Buckets /\ trials[to].idx = import.at[x] =>
           \A k \in DOMAIN Of(x) : LET s == Of(x)[k] IN
             /\ s.tick \in DOMAIN trials[to].samples
             /\ Same(s, trials[to].samples[s.tick], to)
TransferWhole == ExportWhole /\ ImportWhole
=============================================================================
