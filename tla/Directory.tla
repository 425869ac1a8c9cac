----------------------------- MODULE Directory -----------------------------
(***************************************************************************)
(* The directory service (cli/services/directory): the database of the     *)
(* registered services with its persistence file, the handlers of          *)
(* Register, Deregister and Inquire, and the health checks, which read a   *)
(* record, wait for the service outside of the database's lock, and then   *)
(* act on what they find.                                                  *)
(*                                                                         *)
(* Time is counted in scans (dbScanPeriod).  No clock is kept: a record    *)
(* has the age of its last check and a check the age of the `now` it was   *)
(* given, so now - LastHealthCheckTimestamp is a difference of ages.  The  *)
(* secret of a service is drawn with its id and stands for it.             *)
(***************************************************************************)
EXTENDS Naturals, Integers, Sequences, FiniteSets, Functions, SequencesExt

CONSTANTS
  Services,          \* what may be registered: endpoints with their details
  Desc,              \* of each: [type, props, token, net, valid]
  Callers,           \* who calls: one stream each
  Loads,             \* the loads a service may report
  RegistrationLag, LoadBalancing, CheckOnInquire, ForcePermanent,
  NbRounds,          \* defaultHealthCheckNbRounds
  MaxFailed,         \* maxFailedHealthChecks
  HealthCheckPeriod, \* healthCheckPeriod, in scans
  CheckTime,         \* the scans that a check may last
  MaxRecords,        \* bound: records ever created
  MaxCrashes,        \* bound: crashes of the directory
  MaxFailures        \* bound: writes of the file that fail

UnserviceableLoad == 255
AcceptableLoadRange == 10

ASSUME DirectoryAssumption ==
  /\ NbRounds \in Nat \ {0} /\ MaxFailed \in Nat \ {0} /\ RegistrationLag \in Nat
  /\ CheckTime \in Nat /\ HealthCheckPeriod \in Nat /\ CheckTime < HealthCheckPeriod
  /\ {LoadBalancing, CheckOnInquire, ForcePermanent} \subseteq BOOLEAN
  /\ Loads \subseteq 0..UnserviceableLoad /\ MaxRecords \in Nat /\ MaxCrashes \in Nat
  /\ MaxFailures \in Nat

VARIABLES
  running, \* the process is up
  heap,    \* every record made; a pointer is an index
  db,      \* md.data: pointers by service id
  file,    \* the persistence file: records by service id
  checks,  \* the health checks under way
  call,    \* per caller: its request and where its handler stands
  scan,    \* "due", "first" (the initial scan is due) or "wait"
  up,      \* the services that answer
  unsaved, \* the last write of the file has failed (history)
  failures, crashes

dirVars == <<running, heap, db, file, checks, call, scan, up, unsaved, failures, crashes>>
disk == <<file, unsaved, failures>>

Oldest == HealthCheckPeriod + CheckTime  \* from there on an age makes no difference
Ids == 1..MaxRecords

Idle == [op |-> "none", pc |-> "idle"]
Init ==
  /\ running = TRUE /\ heap = <<>> /\ db = <<>> /\ file = <<>> /\ checks = {}
  /\ call = [c \in Callers |-> Idle] /\ scan = "first" /\ up = {}
  /\ unsaved = FALSE /\ failures = 0 /\ crashes = 0

-----------------------------------------------------------------------------
(* The database                                                            *)

\* Mutant: the properties are not looked at.
SelectsType(query, svc) == query.type \in {"unknown", Desc[svc].type}
\* PropertiesFilter.Selects with the service type: what is asked must be there.
Selects(query, svc) ==
  /\ query.type \in {"unknown", Desc[svc].type}
  /\ query.props \subseteq Desc[svc].props

SelectByDetails(query) == {i \in DOMAIN db : Selects(query, heap[db[i]].svc)}

\* What fromFile makes of a record that toFile wrote.
Reloaded(rec) == [rec EXCEPT !.last = Oldest, !.failed = 1]
ToFile(d, h) == [i \in DOMAIN d |-> Reloaded(h[d[i]])]

\* A file that cannot be read is loaded as an empty one.
Unreadable == <<>>
\* toFile: an error, that its callers only log, leaves the file as it was or cut short.
Save(d, h) ==
  \/ file' = ToFile(d, h) /\ unsaved' = FALSE /\ UNCHANGED failures
  \/ /\ failures < MaxFailures /\ failures' = failures + 1
     /\ unsaved' = TRUE /\ file' \in {file, Unreadable}

NewRecord(i, svc, perm, last) ==
  [sid |-> i, svc |-> svc, perm |-> perm, last |-> last, failed |-> 0, load |-> 0]

InsertRecord(svc, perm) ==
  LET i == Len(heap) + 1 IN
  /\ heap' = Append(heap, NewRecord(i, svc, perm, Oldest))
  /\ db' = [j \in DOMAIN db \cup {i} |-> IF j = i THEN i ELSE db[j]]
  /\ Save(db', heap')

UpdateRecord(i, svc, perm) ==
  /\ heap' = Append(heap, NewRecord(i, svc, perm, 0))
  /\ db' = [db EXCEPT ![i] = Len(heap) + 1]
  /\ Save(db', heap')

\* Mutant: the file is left as it is.
DeleteNoSave(i) ==
  /\ db' = Restrict(db, DOMAIN db \ {i})
  /\ UNCHANGED disk
DeleteRecord(i) ==
  /\ db' = Restrict(db, DOMAIN db \ {i})
  /\ Save(db', heap)

-----------------------------------------------------------------------------
(* Health checks                                                           *)

\* now - record.LastHealthCheckTimestamp, on unsigned numbers: a check newer
\* than now makes it huge.
SinceLast(rec, age) == rec.last - age
CheckedLately(rec, age) == SinceLast(rec, age) \in 0..(HealthCheckPeriod - 1)
\* Less than a tick may have passed between two instants of the same age.
MaybeSameTick(rec, age) == IF SinceLast(rec, age) = 0 THEN BOOLEAN ELSE {FALSE}

\* nowHealthCheck: a goroutine for each id.
Scan ==
  /\ running /\ scan # "wait" /\ scan' = "wait"
  /\ checks' = checks \cup
       {[by |-> "scan", sid |-> i, ptr |-> 0, age |-> 0, imm |-> scan = "first",
         left |-> 0, pc |-> "begin"] : i \in DOMAIN db}
  /\ UNCHANGED <<running, heap, db, disk, call, up, crashes>>

\* Mutant: the scans after the initial one remove nothing.
CondemnedOnlyAtStart(t, failed, healthy) ==
  t.by = "scan" /\ ~healthy /\ t.imm /\ failed >= MaxFailed
\* The end of healthCheck() with `failed` failures in a row: a scan may remove the
\* entry, the handler that asked for the check goes on.
Condemned(t, failed, healthy) ==
  t.by = "scan" /\ ~healthy /\ (t.imm \/ failed >= MaxFailed)

CheckEnds(t, failed, healthy) ==
  /\ checks' = (checks \ {t}) \cup
       IF Condemned(t, failed, healthy) THEN {[t EXCEPT !.pc = "remove"]} ELSE {}
  /\ call' = IF t.by = "scan" THEN call
             ELSE LET now == call[t.by] IN [call EXCEPT ![t.by] =
               IF now.op = "register" THEN [now EXCEPT !.pc = "replied", !.ok = TRUE, !.sid = t.sid]
               ELSE [now EXCEPT !.found = @ \cup IF healthy THEN {t.ptr} ELSE {}]]

\* A scan skips what was removed or checked in the interim.
SkipCheck(t) ==
  /\ t.pc = "begin" /\ t.by = "scan"
  /\ t.sid \in DOMAIN db => CheckedLately(heap[db[t.sid]], t.age)
  /\ checks' = checks \ {t}
  /\ UNCHANGED <<running, heap, db, disk, call, scan, up, crashes>>

\* healthCheck() on a pointer that stays the same whatever happens to the entry.
StartCheck(t) ==
  /\ t.pc = "begin" /\ (t.by = "scan" => t.sid \in DOMAIN db)
  /\ LET r == IF t.by = "scan" THEN db[t.sid] ELSE t.ptr
         rec == heap[r]
         rounds == IF t.by = "scan" \/ call[t.by].op = "register" THEN NbRounds ELSE 1
     IN
     /\ t.by = "scan" => ~CheckedLately(rec, t.age)
     /\ \/ /\ TRUE \in MaybeSameTick(rec, t.age)
           /\ CheckEnds(t, rec.failed, rec.failed = 0) /\ UNCHANGED heap
        \/ /\ FALSE \in MaybeSameTick(rec, t.age) /\ (rec.perm \/ Desc[rec.svc].net = "none")
           /\ heap' = [heap EXCEPT ![r].last = t.age, ![r].failed = 0]
           /\ CheckEnds(t, 0, TRUE)
        \/ /\ FALSE \in MaybeSameTick(rec, t.age) /\ ~rec.perm /\ Desc[rec.svc].net # "none"
           /\ heap' = [heap EXCEPT ![r].last = t.age]
           /\ checks' = (checks \ {t}) \cup {[t EXCEPT !.ptr = r, !.pc = "probe", !.left = rounds]}
           /\ UNCHANGED call
  /\ UNCHANGED <<running, db, disk, scan, up, crashes>>

\* Mutant: the failures are not forgotten.
CogmentAnswersOnly(t) ==
  /\ t.pc = "probe" /\ Desc[heap[t.ptr].svc].net = "cogment" /\ heap[t.ptr].svc \in up
  /\ \E load \in Loads : heap' = [heap EXCEPT ![t.ptr].load = load]
  /\ CheckEnds(t, 0, TRUE)
  /\ UNCHANGED <<running, db, disk, scan, up, crashes>>
\* cogmentStatus, cogmentVersionCheck: the service answers with its load.
CogmentAnswers(t) ==
  /\ t.pc = "probe" /\ Desc[heap[t.ptr].svc].net = "cogment" /\ heap[t.ptr].svc \in up
  /\ \E load \in Loads : heap' = [heap EXCEPT ![t.ptr].load = load, ![t.ptr].failed = 0]
  /\ CheckEnds(t, 0, TRUE)
  /\ UNCHANGED <<running, db, disk, scan, up, crashes>>
\* tcpCheck: something listens there.
TcpAnswers(t) ==
  /\ t.pc = "probe" /\ Desc[heap[t.ptr].svc].net = "tcp" /\ heap[t.ptr].svc \in up
  /\ heap' = [heap EXCEPT ![t.ptr].failed = 0]
  /\ CheckEnds(t, 0, TRUE)
  /\ UNCHANGED <<running, db, disk, scan, up, crashes>>

ProbeLoad(r) == IF Desc[heap[r].svc].net = "cogment" THEN UnserviceableLoad ELSE heap[r].load
\* No answer in time: the next round has twice the time, after the last the check
\* has failed.
NoAnswer(t) ==
  /\ t.pc = "probe" /\ heap[t.ptr].svc \notin up
  /\ IF t.left > 1
       THEN /\ checks' = (checks \ {t}) \cup {[t EXCEPT !.left = @ - 1]}
            /\ heap' = [heap EXCEPT ![t.ptr].load = ProbeLoad(t.ptr)]
            /\ UNCHANGED call
       ELSE /\ heap' = [heap EXCEPT ![t.ptr].load = ProbeLoad(t.ptr),
                          ![t.ptr].failed = IF @ < MaxFailed THEN @ + 1 ELSE @]
            /\ CheckEnds(t, heap'[t.ptr].failed, FALSE)
  /\ UNCHANGED <<running, db, disk, scan, up, crashes>>

\* The removal by a scan: by id, whatever became of the entry.
RemoveUnhealthy(t) ==
  /\ t.pc = "remove" /\ checks' = checks \ {t}
  /\ UNCHANGED heap /\ DeleteRecord(t.sid)
  /\ UNCHANGED <<running, call, scan, up, crashes>>

Check(t) == SkipCheck(t) \/ StartCheck(t) \/ CogmentAnswers(t) \/ TcpAnswers(t) \/ NoAnswer(t)
            \/ RemoveUnhealthy(t)

-----------------------------------------------------------------------------
(* Register                                                                *)

Replied(c) == call[c].pc = "replied"
FreeCaller(c) == running /\ call[c] = Idle

\* Validation; only a permanent registration looks for an entry to update.
Register(c, svc, perm) ==
  /\ FreeCaller(c)
  /\ call' = [call EXCEPT ![c] =
       [op |-> "register", svc |-> svc, perm |-> perm, sid |-> 0, ids |-> {}, cur |-> 0,
        keep |-> FALSE, ok |-> FALSE,
        pc |-> CASE ~Desc[svc].valid -> "replied" [] perm -> "select" [] OTHER -> "insert"]]
  /\ UNCHANGED <<running, heap, db, disk, checks, scan, up, crashes>>

\* dbUpdate: the entries that the new details select ...
SelectForUpdate(c) ==
  /\ call[c].pc = "select"
  /\ LET ids == SelectByDetails(Desc[call[c].svc]) IN
     call' = [call EXCEPT ![c].ids = ids, ![c].pc = IF ids = {} THEN "insert" ELSE "update"]
  /\ UNCHANGED <<running, heap, db, disk, checks, scan, up, crashes>>

\* ... of the same owner: the first is updated, the others are removed.
UpdateNext(c) ==
  /\ call[c].pc = "update"
  /\ \E i \in call[c].ids :
       LET mine == i \in DOMAIN db /\ Desc[heap[db[i]].svc].token = Desc[call[c].svc].token
           seen == [call[c] EXCEPT !.ids = @ \ {i}]
       IN
       \/ /\ ~mine /\ call' = [call EXCEPT ![c] = seen] /\ UNCHANGED <<db, disk>>
       \/ /\ mine /\ call[c].sid # 0
          /\ call' = [call EXCEPT ![c] = seen] /\ DeleteRecord(i)
       \/ /\ mine /\ call[c].sid = 0
          /\ call' = [call EXCEPT ![c] = [seen EXCEPT !.cur = i, !.keep = heap[db[i]].perm,
                                                      !.pc = "write"]]
          /\ UNCHANGED <<db, disk>>
  /\ UNCHANGED <<running, heap, checks, scan, up, crashes>>

WriteUpdate(c) ==
  /\ call[c].pc = "write" /\ Len(heap) < MaxRecords
  /\ LET i == call[c].cur IN
     IF i \in DOMAIN db
       THEN /\ UpdateRecord(i, call[c].svc, call[c].keep)
            /\ call' = [call EXCEPT ![c].sid = i, ![c].pc = "update"]
       ELSE /\ call' = [call EXCEPT ![c].pc = "replied"] /\ UNCHANGED <<heap, db, disk>>
  /\ UNCHANGED <<running, checks, scan, up, crashes>>

UpdateDone(c) ==
  /\ call[c].pc = "update" /\ call[c].ids = {}
  /\ call' = [call EXCEPT ![c] = IF @.sid = 0 THEN [@ EXCEPT !.pc = "insert"]
                                 ELSE [@ EXCEPT !.pc = "replied", !.ok = TRUE]]
  /\ UNCHANGED <<running, heap, db, disk, checks, scan, up, crashes>>

\* dbRegister: the entry can be found before its first check.
Insert(c) ==
  /\ call[c].pc = "insert" /\ Len(heap) < MaxRecords
  /\ InsertRecord(call[c].svc, call[c].perm \/ ForcePermanent)
  /\ checks' = checks \cup {[by |-> c, sid |-> Len(heap) + 1, ptr |-> Len(heap) + 1, age |-> 0,
                             imm |-> FALSE, left |-> 0, pc |-> "begin"]}
  /\ call' = [call EXCEPT ![c].pc = "check"]
  /\ UNCHANGED <<running, scan, up, crashes>>

-----------------------------------------------------------------------------
(* Deregister and Inquire                                                  *)

\* With the token and the secret of the entry.
MayDeregister(token, i, secret) ==
  i \in DOMAIN db /\ Desc[heap[db[i]].svc].token = token /\ secret = i

Deregister(c, token, i, secret) ==
  /\ FreeCaller(c)
  /\ LET ok == MayDeregister(token, i, secret) IN
     call' = [call EXCEPT ![c] =
       [op |-> "deregister", pc |-> IF ok THEN "erase" ELSE "replied", ok |-> ok, sid |-> i]]
  /\ UNCHANGED <<running, heap, db, disk, checks, scan, up, crashes>>

\* The removal takes the lock anew, and removes by id.
Erase(c) ==
  /\ call[c].pc = "erase" /\ call' = [call EXCEPT ![c].pc = "replied"]
  /\ UNCHANGED heap /\ DeleteRecord(call[c].sid)
  /\ UNCHANGED <<running, checks, scan, up, crashes>>

\* By id when `i` is not 0, else by details.
Inquire(c, token, i, query) ==
  /\ FreeCaller(c)
  /\ call' = [call EXCEPT ![c] =
       [op |-> "inquire", pc |-> "search", token |-> token, sid |-> i, query |-> query, ids |-> {},
        tries |-> RegistrationLag, found |-> {}, order |-> <<>>]]
  /\ UNCHANGED <<running, heap, db, disk, checks, scan, up, crashes>>

\* dbInquire: the ids first, then one after the other the record of each that is still
\* there, if it is healthy and has the caller's token.
Search(c) ==
  /\ call[c].pc = "search"
  /\ call' = [call EXCEPT ![c].pc = "collect",
       ![c].found = {}, ![c].ids = IF call[c].sid # 0 THEN {call[c].sid} ELSE SelectByDetails(call[c].query)]
  /\ UNCHANGED <<running, heap, db, disk, checks, scan, up, crashes>>

Matches(c, i) ==
  /\ i \in DOMAIN db /\ heap[db[i]].failed = 0
  /\ Desc[heap[db[i]].svc].token = call[c].token
Collect(c) ==
  /\ call[c].pc = "collect"
  /\ \E i \in call[c].ids :
       call' = [call EXCEPT ![c].ids = @ \ {i},
                            ![c].found = @ \cup IF Matches(c, i) THEN {db[i]} ELSE {}]
  /\ UNCHANGED <<running, heap, db, disk, checks, scan, up, crashes>>

\* All are collected: those that pass a health check now are kept, if it is asked for.
CheckFound(c) ==
  /\ call[c].pc = "collect" /\ call[c].ids = {}
  /\ IF CheckOnInquire
       THEN /\ checks' = checks \cup
                 {[by |-> c, sid |-> heap[r].sid, ptr |-> r, age |-> 0, imm |-> FALSE,
                   left |-> 0, pc |-> "begin"] : r \in call[c].found}
            /\ call' = [call EXCEPT ![c].pc = "wait", ![c].found = {}]
       ELSE /\ call' = [call EXCEPT ![c].pc = "sort"]
            /\ UNCHANGED checks
  /\ UNCHANGED <<running, heap, db, disk, scan, up, crashes>>

\* group.Wait()
AllChecked(c) ==
  /\ call[c].pc = "wait" /\ \A t \in checks : t.by # c
  /\ call' = [call EXCEPT ![c].pc = "sort"]
  /\ UNCHANGED <<running, heap, db, disk, checks, scan, up, crashes>>

\* Nothing was found: again in a second, as often as the lag allows.
SearchAgain(c) ==
  /\ call[c].pc = "sort" /\ call[c].found = {} /\ call[c].tries > 0
  /\ call' = [call EXCEPT ![c].pc = "search", ![c].tries = @ - 1]
  /\ UNCHANGED <<running, heap, db, disk, checks, scan, up, crashes>>

ByTime(order) == \A k, l \in DOMAIN order : k < l => heap[order[k]].sid >= heap[order[l]].sid

\* What load balancing keeps: the unserviceable are cut when others are there, then
\* whatever is loaded well above the least loaded.
Lowest(S) == CHOOSE load \in {heap[r].load : r \in S} : \A r \in S : load <= heap[r].load
Serviceable(S) == {r \in S : heap[r].load < UnserviceableLoad}
LeastLoaded(S) ==
  LET kept == IF Serviceable(S) = {} THEN S ELSE Serviceable(S) IN
  {r \in kept : heap[r].load <= Lowest(kept) + AcceptableLoadRange}

Answer(c) ==
  /\ call[c].pc = "sort" /\ (call[c].found # {} \/ call[c].tries = 0)
  /\ \E order \in SetToSeqs(IF LoadBalancing THEN LeastLoaded(call[c].found) ELSE call[c].found) :
       /\ LoadBalancing \/ ByTime(order)
       /\ call' = [call EXCEPT ![c].pc = "replied", ![c].order = order]
  /\ UNCHANGED <<running, heap, db, disk, checks, scan, up, crashes>>

Handle(c) == SelectForUpdate(c) \/ UpdateNext(c) \/ WriteUpdate(c) \/ UpdateDone(c) \/ Insert(c)
             \/ Erase(c) \/ Search(c) \/ Collect(c) \/ CheckFound(c) \/ AllChecked(c) \/ SearchAgain(c) \/ Answer(c)

-----------------------------------------------------------------------------
(* Time, crashes and restarts                                              *)

Older(age) == IF age < Oldest THEN age + 1 ELSE age
\* The scanning loop does not wait for its checks, which have timeouts.
Tick ==
  /\ running /\ scan = "wait" /\ \A t \in checks : t.age < CheckTime
  /\ scan' = "due"
  /\ checks' = {[t EXCEPT !.age = @ + 1] : t \in checks}
  /\ heap' = [r \in DOMAIN heap |->
                IF r \in Range(db) \/ \E t \in checks : t.ptr = r
                  THEN [heap[r] EXCEPT !.last = Older(@)] ELSE heap[r]]
  /\ UNCHANGED <<running, db, disk, call, up, crashes>>

\* The process is killed, maybe while it writes, which leaves a file that cannot be
\* read; or its server fails and Run saves the database before it ends.
Writing == \E c \in Callers : call[c].pc \in {"write", "insert", "update", "erase"}
           \/ \E t \in checks : t.pc = "remove"
DirectoryCrash ==
  /\ running /\ crashes < MaxCrashes /\ crashes' = crashes + 1
  /\ \/ UNCHANGED disk
     \/ Writing /\ file' = Unreadable /\ UNCHANGED <<unsaved, failures>>
     \/ Save(db, heap)
  /\ running' = FALSE /\ checks' = {} /\ db' = <<>> /\ scan' = "wait"
  /\ call' = [c \in Callers |-> Idle]
  /\ UNCHANGED <<heap, up>>

\* MakeMemoryDb with fromFile, then the initial scan.
DirectoryStart ==
  /\ ~running /\ running' = TRUE /\ scan' = "first" /\ unsaved' = FALSE
  /\ db' = [i \in DOMAIN file |-> i]
  /\ heap' = [r \in DOMAIN heap |-> IF r \in DOMAIN file THEN file[r] ELSE heap[r]]
  /\ UNCHANGED <<file, failures, checks, call, up, crashes>>

DirNext ==
  \/ Scan \/ Tick \/ DirectoryStart \/ DirectoryCrash
  \/ \E t \in checks : Check(t)
  \/ \E c \in Callers : Handle(c)
=============================================================================
