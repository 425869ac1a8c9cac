-------------------------- MODULE DirectoryProofs --------------------------
(***************************************************************************)
(* For any number of services, callers, checks, restarts and failed        *)
(* writes: the persistence file of the directory has what the database has *)
(* whenever its last write went through, and who resolves an endpoint gets *)
(* services of what was asked for.                                         *)
(***************************************************************************)
EXTENDS DirectoryClients, TLAPS

\* Records are sequences' elements of no particular type: what a check writes into
\* them plays no part.
Fields == {"sid", "svc", "perm", "last", "failed", "load"}
Records(h) == (\E S : h \in Seq(S)) /\ \A r \in DOMAIN h : DOMAIN h[r] = Fields

Pointers ==
  \A i \in DOMAIN db : i \in DOMAIN heap /\ db[i] \in DOMAIN heap /\ heap[db[i]].sid = i
\* The file also while the directory is down, for the restart that reads it.
Filed(f, h) ==
  \A i \in DOMAIN f : /\ i \in DOMAIN h /\ DOMAIN f[i] = Fields /\ f[i].sid = i
                     /\ \E r \in DOMAIN h : h[r].svc = f[i].svc
OnFile == Filed(file, heap)

IInv == Records(heap) /\ Pointers /\ OnFile /\ FileIsCurrent

-----------------------------------------------------------------------------
LEMMA InitHolds == CInit => IInv
<1> SUFFICES ASSUME CInit PROVE IInv
  OBVIOUS
<1>1. heap = <<>> /\ db = <<>> /\ file = <<>>
  BY DEF CInit, Init
<1>2. Records(heap)
  <2>1. heap \in Seq({})
    BY <1>1
  <2> QED BY <2>1, <1>1 DEF Records
<1> QED BY <1>1, <1>2 DEF IInv, Pointers, OnFile, Filed, FileIsCurrent

\* What a health check may do to the record `r`.
Touched(h, g, r) ==
  /\ DOMAIN g = DOMAIN h /\ g = [q \in DOMAIN g |-> g[q]]
  /\ \A q \in DOMAIN h : q # r => g[q] = h[q]
  /\ r \in DOMAIN h => /\ DOMAIN g[r] = Fields
                       /\ g[r].sid = h[r].sid /\ g[r].svc = h[r].svc /\ g[r].perm = h[r].perm
\* And what all the checks do while time passes.
SameDetails(h, g) ==
  /\ Records(g) /\ DOMAIN g = DOMAIN h
  /\ \A q \in DOMAIN h : g[q].sid = h[q].sid /\ g[q].svc = h[q].svc /\ g[q].perm = h[q].perm

LEMMA IsSequence ==
  ASSUME NEW h, Records(h), NEW g, DOMAIN g = DOMAIN h, g = [q \in DOMAIN g |-> g[q]],
         \A q \in DOMAIN g : DOMAIN g[q] = Fields
  PROVE  Records(g)
<1>1. PICK S : h \in Seq(S)
  BY DEF Records
<1> DEFINE T == {g[q] : q \in DOMAIN g}
<1>2. DOMAIN g = 1..Len(h) /\ Len(h) \in Nat /\ \A q \in DOMAIN g : g[q] \in T
  BY <1>1
<1> HIDE DEF T
<1>3. g \in Seq(T)
  BY <1>2
<1> QED BY <1>3 DEF Records

LEMMA TouchedKeepsDetails ==
  ASSUME NEW h, Records(h), NEW g, NEW r, Touched(h, g, r) PROVE SameDetails(h, g)
<1>1. \A q \in DOMAIN g : DOMAIN g[q] = Fields
  BY DEF Touched, Records
<1>2. Records(g)
  BY <1>1, IsSequence DEF Touched
<1> QED BY <1>2 DEF Touched, SameDetails

LEMMA DetailsKeep ==
  ASSUME IInv, SameDetails(heap, heap'), UNCHANGED <<running, db, disk>>
  PROVE  IInv'
<1>1. Pointers'
  BY DEF IInv, Pointers, SameDetails
<1>2. OnFile'
  BY DEF IInv, OnFile, Filed, SameDetails, disk
<1>3. FileIsCurrent'
  BY DEF IInv, FileIsCurrent, Pointers, SameDetails, disk
<1> QED BY <1>1, <1>2, <1>3 DEF IInv, SameDetails

LEMMA UnchangedKeeps ==
  ASSUME IInv, UNCHANGED <<running, heap, db, disk>> PROVE IInv'
BY DEF IInv, Pointers, OnFile, FileIsCurrent, disk

\* What a write, or one that fails, leaves in the file.
LEMMA SaveFiles ==
  ASSUME OnFile, NEW d, NEW h, Records(h), Save(d, h),
         \A i \in DOMAIN d : i \in DOMAIN h /\ d[i] \in DOMAIN h /\ h[d[i]].sid = i,
         DOMAIN heap \subseteq DOMAIN h, \A r \in DOMAIN heap : h[r].svc = heap[r].svc
  PROVE  /\ Filed(file', h)
         /\ unsaved' \/ (/\ DOMAIN file' = DOMAIN d
                        /\ \A i \in DOMAIN d : /\ file'[i].sid = i /\ file'[i].svc = h[d[i]].svc
                                               /\ file'[i].perm = h[d[i]].perm)
<1>1. CASE file' = ToFile(d, h)
  <2>1. /\ DOMAIN file' = DOMAIN d
        /\ \A i \in DOMAIN d : file'[i] = [h[d[i]] EXCEPT !.last = Oldest, !.failed = 1]
    BY <1>1 DEF ToFile, Reloaded
  <2>2. \A i \in DOMAIN d : /\ DOMAIN file'[i] = Fields /\ file'[i].sid = i
                             /\ file'[i].svc = h[d[i]].svc /\ file'[i].perm = h[d[i]].perm
    <3> SUFFICES ASSUME NEW i \in DOMAIN d
                 PROVE  /\ DOMAIN file'[i] = Fields /\ file'[i].sid = i
                        /\ file'[i].svc = h[d[i]].svc /\ file'[i].perm = h[d[i]].perm
      OBVIOUS
    <3> DEFINE rec == h[d[i]]
    <3>1. DOMAIN rec = Fields /\ rec.sid = i
      BY DEF Records
    <3>2. file'[i] = [rec EXCEPT !.last = Oldest, !.failed = 1]
      BY <2>1
    <3> HIDE DEF rec
    <3>3. DOMAIN file'[i] = Fields
      BY <3>1, <3>2
    <3>4. file'[i].sid = rec.sid /\ file'[i].svc = rec.svc /\ file'[i].perm = rec.perm
      BY <3>1, <3>2 DEF Fields
    <3> QED BY <3>1, <3>3, <3>4 DEF rec
  <2> QED BY <2>1, <2>2 DEF Filed
<1>2. CASE unsaved' /\ file' \in {file, Unreadable}
  <2>1. CASE file' = Unreadable
    BY <1>2, <2>1 DEF Filed, Unreadable
  <2>2. CASE file' = file
    BY <1>2, <2>2 DEF Filed, OnFile
  <2> QED BY <1>2, <2>1, <2>2
<1> QED BY <1>1, <1>2 DEF Save

\* Every change of the database is followed by a write.
LEMMA SavedHolds ==
  ASSUME IInv, Records(heap'), Pointers', Save(db', heap'),
         DOMAIN heap \subseteq DOMAIN heap', \A r \in DOMAIN heap : heap'[r].svc = heap[r].svc
  PROVE  IInv'
<1>1. /\ Filed(file', heap')
      /\ unsaved' \/ (/\ DOMAIN file' = DOMAIN db'
                     /\ \A i \in DOMAIN db' : /\ file'[i].sid = i /\ file'[i].svc = heap'[db'[i]].svc
                                             /\ file'[i].perm = heap'[db'[i]].perm)
  BY SaveFiles DEF IInv, Pointers
<1> QED BY <1>1 DEF IInv, OnFile, FileIsCurrent

LEMMA DeleteKeeps == ASSUME IInv, NEW i, DeleteRecord(i), UNCHANGED heap PROVE IInv'
<1>1. DOMAIN db' \subseteq DOMAIN db /\ \A j \in DOMAIN db' : db'[j] = db[j]
  BY DEF DeleteRecord, Restrict
<1>2. Pointers' /\ Records(heap')
  BY <1>1 DEF IInv, Pointers
<1>3. Save(db', heap')
  BY DEF DeleteRecord
<1> QED BY <1>2, <1>3, SavedHolds

\* A record is added under its own number, or takes the place of another.
LEMMA AppendKeeps ==
  ASSUME IInv, NEW rec, DOMAIN rec = Fields, heap' = Append(heap, rec),
         Save(db', heap'),
         \/ /\ rec.sid = Len(heap) + 1
            /\ db' = [j \in DOMAIN db \cup {rec.sid} |-> IF j = rec.sid THEN rec.sid ELSE db[j]]
         \/ rec.sid \in DOMAIN db /\ db' = [db EXCEPT ![rec.sid] = Len(heap) + 1]
  PROVE  IInv'
<1>1. PICK S : heap \in Seq(S)
  BY DEF IInv, Records
<1>2. heap \in Seq(S \cup {rec})
  BY <1>1
<1>3. /\ heap' \in Seq(S \cup {rec}) /\ DOMAIN heap = 1..Len(heap) /\ Len(heap) \in Nat
      /\ DOMAIN heap' = 1..Len(heap) + 1 /\ heap'[Len(heap) + 1] = rec
      /\ \A q \in DOMAIN heap : heap'[q] = heap[q]
  BY <1>2
<1>4. Records(heap')
  BY <1>3 DEF Records, IInv
<1>5. Pointers'
  BY <1>3 DEF IInv, Pointers
<1> QED BY <1>3, <1>4, <1>5, SavedHolds

-----------------------------------------------------------------------------
(* The steps                                                               *)

LEMMA StartCheckDetails == ASSUME IInv, NEW t, StartCheck(t)
  PROVE SameDetails(heap, heap') /\ UNCHANGED <<running, db, disk>>
<1> DEFINE r == IF t.by = "scan" THEN db[t.sid] ELSE t.ptr
<1>1. UNCHANGED <<running, db, disk>> /\ Records(heap)
  BY DEF StartCheck, IInv
<1>2. CASE UNCHANGED heap
  BY <1>1, <1>2 DEF SameDetails
<1>3. CASE heap' = [heap EXCEPT ![r].last = t.age, ![r].failed = 0]
  <2> HIDE DEF r
  <2>1. Touched(heap, heap', r)
    BY <1>1, <1>3 DEF Records, Touched, Fields
  <2> QED BY <1>1, <2>1, TouchedKeepsDetails
<1>4. CASE heap' = [heap EXCEPT ![r].last = t.age]
  <2> HIDE DEF r
  <2>1. Touched(heap, heap', r)
    BY <1>1, <1>4 DEF Records, Touched, Fields
  <2> QED BY <1>1, <2>1, TouchedKeepsDetails
<1> QED BY <1>2, <1>3, <1>4 DEF StartCheck

LEMMA AnswerDetails == ASSUME IInv, NEW t, CogmentAnswers(t) \/ TcpAnswers(t)
  PROVE SameDetails(heap, heap') /\ UNCHANGED <<running, db, disk>>
<1>1. UNCHANGED <<running, db, disk>> /\ Records(heap)
  BY DEF CogmentAnswers, TcpAnswers, IInv
<1>2. CASE CogmentAnswers(t)
  <2>1. PICK load : heap' = [heap EXCEPT ![t.ptr].load = load, ![t.ptr].failed = 0]
    BY <1>2 DEF CogmentAnswers
  <2>2. Touched(heap, heap', t.ptr)
    BY <1>1, <2>1 DEF Records, Touched, Fields
  <2> QED BY <1>1, <2>2, TouchedKeepsDetails
<1>3. CASE TcpAnswers(t)
  <2>1. Touched(heap, heap', t.ptr)
    BY <1>1, <1>3 DEF TcpAnswers, Records, Touched, Fields
  <2> QED BY <1>1, <2>1, TouchedKeepsDetails
<1> QED BY <1>2, <1>3

LEMMA NoAnswerDetails == ASSUME IInv, NEW t, NoAnswer(t)
  PROVE SameDetails(heap, heap') /\ UNCHANGED <<running, db, disk>>
<1>1. UNCHANGED <<running, db, disk>> /\ Records(heap)
  BY DEF NoAnswer, IInv
<1>2. \/ \E load : heap' = [heap EXCEPT ![t.ptr].load = load]
      \/ \E load, failed : heap' = [heap EXCEPT ![t.ptr].load = load, ![t.ptr].failed = failed]
  <2>1. CASE t.left > 1
    BY <2>1 DEF NoAnswer
  <2>2. CASE ~(t.left > 1)
    <3> DEFINE rec == heap[t.ptr]
               failed == IF rec.failed < MaxFailed THEN rec.failed + 1 ELSE rec.failed
    <3>1. heap' = [heap EXCEPT ![t.ptr].load = ProbeLoad(t.ptr), ![t.ptr].failed = failed]
      BY <2>2 DEF NoAnswer
    <3> QED BY <3>1
  <2> QED BY <2>1, <2>2
<1>3. CASE \E load : heap' = [heap EXCEPT ![t.ptr].load = load]
  <2>1. PICK load : heap' = [heap EXCEPT ![t.ptr].load = load]
    BY <1>3
  <2>2. Touched(heap, heap', t.ptr)
    BY <1>1, <2>1 DEF Records, Touched, Fields
  <2> QED BY <1>1, <2>2, TouchedKeepsDetails
<1>4. CASE \E load, failed : heap' = [heap EXCEPT ![t.ptr].load = load, ![t.ptr].failed = failed]
  <2>1. PICK load, failed : heap' = [heap EXCEPT ![t.ptr].load = load, ![t.ptr].failed = failed]
    BY <1>4
  <2>2. Touched(heap, heap', t.ptr)
    BY <1>1, <2>1 DEF Records, Touched, Fields
  <2> QED BY <1>1, <2>2, TouchedKeepsDetails
<1> QED BY <1>2, <1>3, <1>4

LEMMA CheckDetails ==
  ASSUME IInv, NEW t, Check(t)
  PROVE  /\ SameDetails(heap, heap') /\ UNCHANGED running
         /\ UNCHANGED <<db, disk>> \/ (RemoveUnhealthy(t) /\ UNCHANGED heap)
<1>1. CASE SkipCheck(t) \/ RemoveUnhealthy(t)
  <2>1. UNCHANGED <<running, heap>> /\ (UNCHANGED <<db, disk>> \/ RemoveUnhealthy(t))
    BY <1>1 DEF SkipCheck, RemoveUnhealthy
  <2> QED BY <2>1 DEF SameDetails, IInv
<1> QED BY <1>1, StartCheckDetails, AnswerDetails, NoAnswerDetails DEF Check

LEMMA CheckKeeps == ASSUME IInv, NEW t, Check(t) PROVE IInv'
<1>1. CASE RemoveUnhealthy(t)
  BY <1>1, DeleteKeeps DEF RemoveUnhealthy
<1>2. CASE UNCHANGED <<db, disk>>
  BY <1>2, CheckDetails, DetailsKeep
<1> QED BY <1>1, <1>2, CheckDetails

LEMMA NewRecordFields ==
  ASSUME NEW i, NEW svc, NEW perm, NEW last
  PROVE  DOMAIN NewRecord(i, svc, perm, last) = Fields /\ NewRecord(i, svc, perm, last).sid = i
BY DEF NewRecord, Fields

LEMMA HandleKeeps == ASSUME IInv, NEW c, Handle(c) PROVE IInv'
<1>1. CASE UNCHANGED <<running, heap, db, disk>>
  BY <1>1, UnchangedKeeps
<1>2. CASE UpdateNext(c)
  <2>1. UNCHANGED heap /\ ((\E i : DeleteRecord(i)) \/ UNCHANGED <<running, heap, db, disk>>)
    BY <1>2 DEF UpdateNext
  <2> QED BY <2>1, DeleteKeeps, UnchangedKeeps
<1>3. CASE WriteUpdate(c)
  <2> DEFINE i == call[c].cur
             rec == NewRecord(i, call[c].svc, call[c].keep, 0)
  <2>1. CASE i \in DOMAIN db
    <3>1. heap' = Append(heap, rec) /\ db' = [db EXCEPT ![i] = Len(heap) + 1] /\ Save(db', heap')
      BY <1>3, <2>1 DEF WriteUpdate, UpdateRecord
    <3>2. DOMAIN rec = Fields /\ rec.sid = i
      BY NewRecordFields
    <3> HIDE DEF rec
    <3> QED BY <2>1, <3>1, <3>2, AppendKeeps
  <2>2. CASE i \notin DOMAIN db
    BY <1>3, <2>2, UnchangedKeeps DEF WriteUpdate
  <2> QED BY <2>1, <2>2
<1>4. CASE Insert(c)
  <2> DEFINE i == Len(heap) + 1
             rec == NewRecord(i, call[c].svc, call[c].perm \/ ForcePermanent, Oldest)
  <2>1. /\ heap' = Append(heap, rec) /\ Save(db', heap')
        /\ db' = [j \in DOMAIN db \cup {i} |-> IF j = i THEN i ELSE db[j]]
    BY <1>4 DEF Insert, InsertRecord
  <2>2. DOMAIN rec = Fields /\ rec.sid = i
    BY NewRecordFields
  <2> HIDE DEF rec
  <2> QED BY <2>1, <2>2, AppendKeeps
<1>5. CASE \/ SelectForUpdate(c) \/ UpdateDone(c) \/ Search(c) \/ Collect(c) \/ CheckFound(c)
           \/ AllChecked(c) \/ SearchAgain(c) \/ Answer(c)
  <2>1. UNCHANGED <<running, heap, db, disk>>
    BY <1>5 DEF SelectForUpdate, UpdateDone, Search, Collect, CheckFound, AllChecked, SearchAgain, Answer
  <2> QED BY <2>1, <1>1
<1>6. CASE Erase(c)
  BY <1>6, DeleteKeeps DEF Erase
<1> QED BY <1>2, <1>3, <1>4, <1>5, <1>6 DEF Handle

LEMMA TickDetails == ASSUME IInv, Tick PROVE SameDetails(heap, heap') /\ UNCHANGED <<running, db, disk>>
<1>1. /\ heap' = [r \in DOMAIN heap |->
           IF r \in Range(db) \/ \E t \in checks : t.ptr = r
             THEN [heap[r] EXCEPT !.last = Older(@)] ELSE heap[r]]
      /\ UNCHANGED <<running, db, disk>>
  BY DEF Tick
<1>2. \A r \in DOMAIN heap : heap'[r] = heap[r] \/ heap'[r] = [heap[r] EXCEPT !.last = Older(@)]
  BY <1>1
<1>3. \A r \in DOMAIN heap : /\ DOMAIN heap'[r] = Fields /\ heap'[r].sid = heap[r].sid
                             /\ heap'[r].svc = heap[r].svc /\ heap'[r].perm = heap[r].perm
  BY <1>2 DEF IInv, Records, Fields
<1>4. DOMAIN heap' = DOMAIN heap /\ heap' = [r \in DOMAIN heap' |-> heap'[r]]
  BY <1>1
<1>5. Records(heap')
  BY <1>3, <1>4, IsSequence DEF IInv
<1> QED BY <1>1, <1>3, <1>4, <1>5 DEF SameDetails

LEMMA TickKeeps == ASSUME IInv, Tick PROVE IInv'
BY TickDetails, DetailsKeep

\* A restart reads the entries back, each under its own number.
LEMMA RestartKeeps == ASSUME IInv, DirectoryStart PROVE IInv'
<1>1. /\ db' = [i \in DOMAIN file |-> i] /\ UNCHANGED file
      /\ heap' = [r \in DOMAIN heap |-> IF r \in DOMAIN file THEN file[r] ELSE heap[r]]
  BY DEF DirectoryStart
<1>2. DOMAIN heap' = DOMAIN heap /\ heap' = [r \in DOMAIN heap' |-> heap'[r]]
  BY <1>1
<1>3. \A r \in DOMAIN heap' : DOMAIN heap'[r] = Fields
  BY <1>1 DEF IInv, Records, OnFile, Filed
<1>4. Records(heap')
  BY <1>2, <1>3, IsSequence DEF IInv
<1>5. \A i \in DOMAIN file : i \in DOMAIN heap' /\ heap'[i] = file[i] /\ file[i].sid = i
  BY <1>1 DEF IInv, OnFile, Filed
<1>6. Pointers' /\ FileIsCurrent'
  BY <1>1, <1>2, <1>5 DEF Pointers, FileIsCurrent
<1>7. OnFile'
  BY <1>1, <1>5 DEF IInv, OnFile, Filed
<1> QED BY <1>4, <1>6, <1>7 DEF IInv

LEMMA CrashKeeps == ASSUME IInv, DirectoryCrash PROVE IInv'
<1>1. running' = FALSE /\ db' = <<>> /\ UNCHANGED heap
  BY DEF DirectoryCrash
<1>2. OnFile'
  <2>1. CASE UNCHANGED disk
    BY <1>1, <2>1 DEF IInv, OnFile, disk
  <2>2. CASE file' = Unreadable
    BY <2>2 DEF OnFile, Filed, Unreadable
  <2>3. CASE Save(db, heap)
    BY <1>1, <2>3, SaveFiles DEF IInv, Pointers, OnFile
  <2> QED BY <2>1, <2>2, <2>3 DEF DirectoryCrash
<1> QED BY <1>1, <1>2 DEF IInv, Pointers, FileIsCurrent

LEMMA DirectoryKeeps == ASSUME IInv, DirNext PROVE IInv'
<1>1. CASE Scan
  BY <1>1, UnchangedKeeps DEF Scan
<1> QED BY <1>1, TickKeeps, RestartKeeps, CrashKeeps, CheckKeeps, HandleKeeps DEF DirNext

LEMMA NextHolds == ASSUME IInv, [Next]_vars PROVE IInv'
<1>1. CASE UNCHANGED vars
  BY <1>1, UnchangedKeeps DEF vars, dirVars, disk
<1>2. ASSUME NEW s, Launch(s) \/ Service(s) \/ Leave(s) \/ Crash(s) PROVE IInv'
  <2>1. UNCHANGED <<running, heap, db, disk>>
    BY <1>2 DEF Launch, Service, RegisterSelf, Register, Registered, DeregisterSelf, Deregister, Left,
                Leave, Crash
  <2> QED BY <2>1, UnchangedKeeps
<1>3. ASSUME NEW s, NEW perm, CliRegister(s, perm) \/ ManualUp(s) \/ ManualDown(s) PROVE IInv'
  <2>1. UNCHANGED <<running, heap, db, disk>>
    BY <1>3 DEF CliRegister, Register, ManualUp, ManualDown
  <2> QED BY <2>1, UnchangedKeeps
<1>4. ASSUME NEW s, NEW i, NEW secret, CliDeregister(s, i, secret) PROVE IInv'
  <2>1. UNCHANGED <<running, heap, db, disk>>
    BY <1>4 DEF CliDeregister, Deregister
  <2> QED BY <2>1, UnchangedKeeps
<1>5. ASSUME NEW u, CliPrints \/ InquireEndpoint(u) \/ EndpointResolved PROVE IInv'
  <2>1. UNCHANGED <<running, heap, db, disk>>
    BY <1>5 DEF CliPrints, InquireEndpoint, Inquire, EndpointResolved
  <2> QED BY <2>1, UnchangedKeeps
<1> QED BY <1>1, <1>2, <1>3, <1>4, <1>5, DirectoryKeeps DEF Next

\* A restart finds the services that are registered, unless the last write of the file has
\* failed: but for that, the file has the entries of the database, with what they say of
\* their service, whatever registers, is checked, is removed or crashes, and whatever
\* writes have failed before.
THEOREM FileCurrent == Spec => []FileIsCurrent
<1>1. CInit => IInv
  BY InitHolds
<1>2. IInv /\ [Next]_vars => IInv'
  BY NextHolds
<1>3. IInv => FileIsCurrent
  BY DEF IInv
<1> QED BY <1>1, <1>2, <1>3, PTL DEF Spec

-----------------------------------------------------------------------------
(* The checks under way: how a step changes them.                          *)

CheckFields == {"by", "sid", "ptr", "age", "imm", "left", "pc"}
Checks == \A t \in checks : DOMAIN t = CheckFields

\* A check goes on as the same, of the same caller and, but for a scan's, of the same record.
Goes(t, u) ==
  /\ DOMAIN u = CheckFields /\ u.sid = t.sid /\ u.by = t.by
  /\ t.by # "scan" => u.ptr = t.ptr
ChecksGo == \A u \in checks' : \E t \in checks : Goes(t, u)

LEMMA GoesOn == ASSUME NEW t, DOMAIN t = CheckFields PROVE Goes(t, t)
BY DEF Goes

LEMMA EndsGo ==
  ASSUME Checks, NEW t \in checks, NEW failed, NEW healthy, CheckEnds(t, failed, healthy)
  PROVE  ChecksGo
<1>1. ASSUME NEW u \in checks' PROVE \E v \in checks : Goes(v, u)
  <2>1. CASE u \in checks
    BY <2>1, GoesOn DEF Checks
  <2>2. CASE u \notin checks
    <3>1. u = [t EXCEPT !.pc = "remove"]
      BY <2>2, <1>1 DEF CheckEnds
    <3>2. Goes(t, u)
      BY <3>1 DEF Goes, Checks, CheckFields
    <3> QED BY <3>2
  <2> QED BY <2>1, <2>2
<1> QED BY <1>1 DEF ChecksGo

LEMMA StartCheckGoes == ASSUME Checks, NEW t \in checks, StartCheck(t) PROVE ChecksGo
<1> DEFINE r == IF t.by = "scan" THEN db[t.sid] ELSE t.ptr
           rec == heap[r]
<1>1. ASSUME NEW failed, NEW healthy, CheckEnds(t, failed, healthy) PROVE ChecksGo
  BY <1>1, EndsGo
<1>2. ASSUME NEW left, checks' = (checks \ {t}) \cup {[t EXCEPT !.ptr = r, !.pc = "probe", !.left = left]}
      PROVE  ChecksGo
  <2>1. ASSUME NEW u \in checks' PROVE \E v \in checks : Goes(v, u)
    <3>1. CASE u \in checks
      BY <3>1, GoesOn DEF Checks
    <3>2. CASE u = [t EXCEPT !.ptr = r, !.pc = "probe", !.left = left]
      <4>1. Goes(t, u)
        BY <3>2 DEF Goes, Checks, CheckFields
      <4> QED BY <4>1
    <3> QED BY <3>1, <3>2, <2>1, <1>2
  <2> QED BY <2>1 DEF ChecksGo
<1> QED BY <1>1, <1>2 DEF StartCheck

LEMMA NoAnswerGoes == ASSUME Checks, NEW t \in checks, NoAnswer(t) PROVE ChecksGo
<1>1. CASE checks' = (checks \ {t}) \cup {[t EXCEPT !.left = @ - 1]}
  <2>1. ASSUME NEW u \in checks' PROVE \E v \in checks : Goes(v, u)
    <3>1. CASE u \in checks
      BY <3>1, GoesOn DEF Checks
    <3>2. CASE u = [t EXCEPT !.left = @ - 1]
      <4>1. Goes(t, u)
        BY <3>2 DEF Goes, Checks, CheckFields
      <4> QED BY <4>1
    <3> QED BY <3>1, <3>2, <2>1, <1>1
  <2> QED BY <2>1 DEF ChecksGo
<1>2. CASE CheckEnds(t, heap'[t.ptr].failed, FALSE)
  BY <1>2, EndsGo
<1> QED BY <1>1, <1>2 DEF NoAnswer

LEMMA CheckGoes == ASSUME Checks, NEW t \in checks, Check(t) PROVE ChecksGo
<1>1. CASE SkipCheck(t) \/ RemoveUnhealthy(t)
  <2>1. checks' \subseteq checks
    BY <1>1 DEF SkipCheck, RemoveUnhealthy
  <2> QED BY <2>1, GoesOn DEF Checks, ChecksGo
<1>2. CASE CogmentAnswers(t) \/ TcpAnswers(t)
  <2>1. CheckEnds(t, 0, TRUE)
    BY <1>2 DEF CogmentAnswers, TcpAnswers
  <2> QED BY <2>1, EndsGo
<1> QED BY <1>1, <1>2, StartCheckGoes, NoAnswerGoes DEF Check

LEMMA HandleChecks == ASSUME Checks, NEW c, Handle(c) PROVE Checks'
<1>1. CASE Insert(c)
  BY <1>1 DEF Insert, CheckFields, Checks
<1>2. CASE CheckFound(c)
  BY <1>2 DEF CheckFound, CheckFields, Checks
<1>3. CASE UNCHANGED checks
  BY <1>3 DEF Checks
<1> QED BY <1>1, <1>2, <1>3 DEF Handle, SelectForUpdate, UpdateNext, WriteUpdate, UpdateDone, Erase,
           Search, Collect, AllChecked, SearchAgain, Answer

LEMMA NextChecks == ASSUME Checks, [Next]_vars PROVE Checks'
<1>1. CASE checks' \subseteq checks
  BY <1>1 DEF Checks
<1>2. CASE Tick
  <2>1. checks' = {[t EXCEPT !.age = @ + 1] : t \in checks}
    BY <1>2 DEF Tick
  <2> QED BY <2>1 DEF Checks
<1>3. ASSUME NEW t \in checks, Check(t) PROVE Checks'
  BY <1>3, CheckGoes DEF ChecksGo, Goes, Checks
<1>4. CASE Scan
  BY <1>4 DEF Scan, CheckFields, Checks
<1>5. ASSUME NEW c, Handle(c) PROVE Checks'
  BY <1>5, HandleChecks
<1>6. CASE DirectoryStart \/ DirectoryCrash \/ UNCHANGED vars
  BY <1>1, <1>6 DEF DirectoryStart, DirectoryCrash, vars, dirVars
<1>7. CASE \E s \in Processes : Launch(s) \/ Service(s) \/ Leave(s) \/ Crash(s)
  BY <1>1, <1>7 DEF Launch, Service, RegisterSelf, Register, Registered, DeregisterSelf, Deregister, Left, Leave, Crash
<1>8. ASSUME NEW s, NEW perm, NEW i, NEW secret,
             CliRegister(s, perm) \/ CliDeregister(s, i, secret) \/ ManualUp(s) \/ ManualDown(s)
      PROVE  Checks'
  BY <1>1, <1>8 DEF CliRegister, Register, CliDeregister, Deregister, ManualUp, ManualDown
<1>9. ASSUME NEW u, CliPrints \/ InquireEndpoint(u) \/ EndpointResolved PROVE Checks'
  BY <1>1, <1>9 DEF CliPrints, InquireEndpoint, Inquire, EndpointResolved
<1> QED BY <1>2, <1>3, <1>4, <1>5, <1>6, <1>7, <1>8, <1>9 DEF Next, DirNext

-----------------------------------------------------------------------------
(* What the resolver gets: from the search on, an entry that its inquiry   *)
(* has selected is one that had what it asked for, and the record that it  *)
(* is given is of its token.  Records keep their service, and only a       *)
(* restart, which forgets the inquiries, puts others in their place.       *)

EndpointFields == {"cat", "host", "type", "props", "id"}
RegisterFields == {"op", "svc", "perm", "sid", "ids", "cur", "keep", "ok", "pc"}
InquireFields == {"op", "pc", "token", "sid", "query", "ids", "tries", "found", "order"}
RegisterSteps == {"select", "update", "write", "insert"}

Known ==
  /\ \A r \in DOMAIN heap : heap[r].svc \in Services
  /\ \A i \in DOMAIN file : file[i].svc \in Services

\* The requests of all callers.
CallOK(now) ==
  /\ {"op", "pc"} \subseteq DOMAIN now
  /\ now.op = "register" => DOMAIN now = RegisterFields /\ now.svc \in Services
  /\ now.pc \in RegisterSteps => now.op = "register"
  /\ now.pc = "erase" => now.op = "deregister"
Calls ==
  /\ DOMAIN call = Callers /\ \A c \in Callers : CallOK(call[c])
  /\ ~running => checks = {} /\ \A c \in Callers : call[c] = Idle

HadAll(i, e, h) == \E q \in DOMAIN h : h[q].sid = i /\ e.props \subseteq Desc[h[q].svc].props
Good(r, e, h) ==
  r \in DOMAIN h /\ Desc[h[r].svc].token = Token /\ (e.id = 0 => HadAll(h[r].sid, e, h))

\* The inquiry of the resolver.
Inquiry(now, e, h) ==
  /\ DOMAIN now = InquireFields /\ now.op = "inquire" /\ now.token = Token
  /\ now.sid = e.id /\ now.query = [type |-> e.type, props |-> e.props]
  /\ DOMAIN e = EndpointFields
  /\ e.id = 0 => \A i \in now.ids : HadAll(i, e, h)
  /\ \A r \in now.found : Good(r, e, h)
  /\ \A k \in DOMAIN now.order : Good(now.order[k], e, h)
\* Its checks, while it waits for them.
InquiryCheck(t, now, e, h) == now # Idle /\ now.pc = "wait" /\ Good(t.ptr, e, h)
Inquires ==
  /\ call[Resolver] = Idle \/ Inquiry(call[Resolver], endpoint, heap)
  /\ \A t \in checks : t.by = Resolver => InquiryCheck(t, call[Resolver], endpoint, heap)

AInv == IInv /\ Checks /\ Known /\ Calls /\ Inquires

LEMMA AInitHolds == CInit => AInv
<1> SUFFICES ASSUME CInit PROVE AInv
  OBVIOUS
<1>1. IInv
  BY InitHolds
<1>2. /\ heap = <<>> /\ file = <<>> /\ checks = {} /\ running = TRUE
      /\ call = [c \in Callers |-> Idle]
  BY DEF CInit, Init
<1>3. Resolver \in Callers
  BY ClientsAssumption DEF ClientsAssumption
<1>4. Checks /\ Known /\ Inquires
  BY <1>2, <1>3 DEF Checks, Known, Inquires
<1>5. Calls
  BY <1>2 DEF Calls, CallOK, Idle, RegisterSteps
<1> QED BY <1>1, <1>4, <1>5 DEF AInv

\* The records go on with their service under their number.
Follows(h, g) ==
  DOMAIN h \subseteq DOMAIN g /\ \A q \in DOMAIN h : g[q].sid = h[q].sid /\ g[q].svc = h[q].svc

LEMMA GoodStays ==
  ASSUME NEW h, NEW g, Follows(h, g), NEW e
  PROVE  /\ \A i : HadAll(i, e, h) => HadAll(i, e, g)
         /\ \A r : Good(r, e, h) => Good(r, e, g)
<1>1. ASSUME NEW i, HadAll(i, e, h) PROVE HadAll(i, e, g)
  BY <1>1 DEF HadAll, Follows
<1>2. ASSUME NEW r, Good(r, e, h) PROVE Good(r, e, g)
  BY <1>1, <1>2 DEF Good, Follows
<1> QED BY <1>1, <1>2

LEMMA InquiryStays ==
  ASSUME NEW h, NEW g, Follows(h, g), NEW e, NEW now
  PROVE  /\ Inquiry(now, e, h) => Inquiry(now, e, g)
         /\ \A t : InquiryCheck(t, now, e, h) => InquiryCheck(t, now, e, g)
BY GoodStays DEF Inquiry, InquiryCheck

LEMMA AppendFollows ==
  ASSUME IInv, Known, NEW rec, rec.svc \in Services, heap' = Append(heap, rec)
  PROVE  Follows(heap, heap') /\ \A r \in DOMAIN heap' : heap'[r].svc \in Services
<1>1. PICK S : heap \in Seq(S)
  BY DEF IInv, Records
<1>2. heap \in Seq(S \cup {rec})
  BY <1>1
<1>3. /\ DOMAIN heap = 1..Len(heap) /\ Len(heap) \in Nat
      /\ DOMAIN heap' = 1..Len(heap) + 1 /\ heap'[Len(heap) + 1] = rec
      /\ \A q \in DOMAIN heap : heap'[q] = heap[q]
  BY <1>2
<1>4. Follows(heap, heap')
  BY <1>3 DEF Follows
<1>5. ASSUME NEW r \in DOMAIN heap' PROVE heap'[r].svc \in Services
  <2>1. r \in DOMAIN heap \/ r = Len(heap) + 1
    BY <1>3
  <2> QED BY <2>1, <1>3 DEF Known
<1> QED BY <1>4, <1>5

LEMMA DetailsFollow ==
  ASSUME Known, SameDetails(heap, heap')
  PROVE  Follows(heap, heap') /\ \A r \in DOMAIN heap' : heap'[r].svc \in Services
BY DEF Known, SameDetails, Follows

\* What is on file is of a service that has, or had, a record.
LEMMA KnownKeeps ==
  ASSUME IInv', \A r \in DOMAIN heap' : heap'[r].svc \in Services
  PROVE  Known'
BY DEF Known, IInv, OnFile, Filed

\* A step of one caller, or of none.
LEMMA CallerKeeps ==
  ASSUME Calls, running' = running, NEW c \in Callers, running, NEW now, CallOK(now),
         call' = [call EXCEPT ![c] = now]
  PROVE  Calls'
<1>1. DOMAIN call' = Callers /\ call'[c] = now /\ \A d \in Callers : d # c => call'[d] = call[d]
  BY DEF Calls
<1>2. \A d \in Callers : CallOK(call'[d])
  BY <1>1 DEF Calls
<1> QED BY <1>1, <1>2 DEF Calls

LEMMA CallsKeep ==
  ASSUME Calls, UNCHANGED <<running, call>>, running \/ checks' \subseteq checks PROVE Calls'
BY DEF Calls

\* The resolver's inquiry is not touched, and none of the new checks is its own.
LEMMA InquiresKeep ==
  ASSUME Inquires, Follows(heap, heap'), UNCHANGED endpoint, call'[Resolver] = call[Resolver],
         \A u \in checks' : (\E t \in checks : u.by = t.by /\ (t.by # "scan" => u.ptr = t.ptr)) \/ u.by # Resolver
  PROVE  Inquires'
<1>1. call[Resolver] = Idle \/ Inquiry(call[Resolver], endpoint, heap')
  BY InquiryStays DEF Inquires
<1>2. ASSUME NEW u \in checks', u.by = Resolver PROVE InquiryCheck(u, call[Resolver], endpoint, heap')
  <2>1. PICK t \in checks : u.by = t.by /\ (t.by # "scan" => u.ptr = t.ptr)
    BY <1>2
  <2>2. t.by = Resolver /\ u.ptr = t.ptr
    BY <1>2, <2>1, ClientsAssumption DEF ClientsAssumption
  <2>3. InquiryCheck(t, call[Resolver], endpoint, heap)
    BY <2>2 DEF Inquires
  <2>4. InquiryCheck(u, call[Resolver], endpoint, heap)
    BY <2>2, <2>3 DEF InquiryCheck
  <2> QED BY <2>4, InquiryStays
<1>3. call'[Resolver] = Idle \/ Inquiry(call'[Resolver], endpoint', heap')
  BY <1>1
<1>4. \A u \in checks' : u.by = Resolver => InquiryCheck(u, call'[Resolver], endpoint', heap')
  BY <1>2
<1> QED BY <1>3, <1>4 DEF Inquires

LEMMA EndsCall ==
  ASSUME AInv, NEW t \in checks, NEW failed, NEW healthy, CheckEnds(t, failed, healthy), ChecksGo,
         UNCHANGED <<running, endpoint>>, Follows(heap, heap')
  PROVE  Calls' /\ Inquires'
<1>1. running /\ DOMAIN call = Callers /\ \A c \in Callers : CallOK(call[c])
  BY DEF AInv, Calls
<1> DEFINE c == t.by
           found == call[c].found \cup IF healthy THEN {t.ptr} ELSE {}
           replied == [call[c] EXCEPT !.pc = "replied", !.ok = TRUE, !.sid = t.sid]
           new == IF call[c].op = "register" THEN replied ELSE [call[c] EXCEPT !.found = found]
<1>2. \A u \in checks' : \E v \in checks : u.by = v.by /\ (v.by # "scan" => u.ptr = v.ptr)
  BY DEF ChecksGo, Goes
<1>3. CASE t.by = "scan" \/ t.by \notin Callers
  <2>1. DOMAIN call' = Callers /\ \A d \in Callers : call'[d] = call[d]
    BY <1>1, <1>3 DEF CheckEnds
  <2>2. Calls'
    BY <2>1, <1>1 DEF Calls
  <2>3. call'[Resolver] = call[Resolver]
    BY <2>1, ClientsAssumption DEF ClientsAssumption
  <2> QED BY <2>2, <2>3, <1>2, InquiresKeep DEF AInv
<1>4. CASE t.by # "scan" /\ t.by \in Callers
  <2>1. call' = [call EXCEPT ![c] = new]
    BY <1>4 DEF CheckEnds
  <2>2. CallOK(new)
    <3>1. CASE call[c].op = "register"
      <4>1. new = [call[c] EXCEPT !.pc = "replied", !.ok = TRUE, !.sid = t.sid]
        BY <3>1
      <4> HIDE DEF new
      <4> QED BY <4>1, <3>1, <1>1, <1>4 DEF CallOK, RegisterFields, RegisterSteps
    <3>2. CASE call[c].op # "register"
      <4>1. new = [call[c] EXCEPT !.found = found]
        BY <3>2
      <4> HIDE DEF new, found
      <4> QED BY <4>1, <3>2, <1>1, <1>4 DEF CallOK
    <3> QED BY <3>1, <3>2
  <2>3. Calls'
    BY <1>1, <1>4, <2>1, <2>2, CallerKeeps DEF AInv
  <2>4. CASE c # Resolver
    <3>1. call'[Resolver] = call[Resolver]
      BY <1>1, <2>1, <2>4, ClientsAssumption DEF ClientsAssumption
    <3> QED BY <3>1, <2>3, <1>2, InquiresKeep DEF AInv
  <2>5. CASE c = Resolver
    <3>1. /\ Inquiry(call[c], endpoint, heap) /\ call[c].pc = "wait" /\ Good(t.ptr, endpoint, heap)
          /\ \A u \in checks : u.by = Resolver => Good(u.ptr, endpoint, heap)
      BY <2>5 DEF AInv, Inquires, InquiryCheck
    <3>2. new = [call[c] EXCEPT !.found = found] /\ \A r \in found : Good(r, endpoint, heap)
      BY <3>1 DEF Inquiry
    <3> HIDE DEF new, found
    <3>3. /\ DOMAIN new = DOMAIN call[c] /\ new.op = call[c].op /\ new.pc = call[c].pc /\ new.token = call[c].token
          /\ new.sid = call[c].sid /\ new.query = call[c].query /\ new.ids = call[c].ids
          /\ new.order = call[c].order /\ new.found = found
      BY <3>1, <3>2 DEF Inquiry, InquireFields
    <3>4. Inquiry(new, endpoint, heap)
      BY <3>1, <3>2, <3>3 DEF Inquiry
    <3>5. Inquiry(new, endpoint, heap') /\ new # Idle /\ call'[Resolver] = new
      <4>1. new.op # Idle.op
        BY <3>4 DEF Inquiry, Idle
      <4> QED BY <4>1, <3>4, InquiryStays, <1>1, <1>4, <2>1, <2>5
    <3>6. ASSUME NEW u \in checks', u.by = Resolver PROVE InquiryCheck(u, new, endpoint, heap')
      <4>1. PICK v \in checks : u.by = v.by /\ (v.by # "scan" => u.ptr = v.ptr)
        BY <1>2
      <4>2. Good(u.ptr, endpoint, heap)
        BY <4>1, <3>1, <3>6, <1>4, <2>5
      <4> QED BY <4>2, <3>1, <3>3, <3>5, GoodStays DEF InquiryCheck
    <3> QED BY <2>3, <3>5, <3>6 DEF Inquires
  <2> QED BY <2>4, <2>5
<1> QED BY <1>3, <1>4

LEMMA CheckAsked == ASSUME AInv, NEW t \in checks, Check(t), UNCHANGED endpoint PROVE AInv'
<1>1. running /\ UNCHANGED running /\ SameDetails(heap, heap')
  BY CheckDetails DEF AInv, Calls
<1>2. Follows(heap, heap') /\ \A r \in DOMAIN heap' : heap'[r].svc \in Services
  BY <1>1, DetailsFollow DEF AInv
<1>3. IInv' /\ ChecksGo /\ Checks'
  BY CheckKeeps, CheckGoes DEF AInv, ChecksGo, Goes, Checks
<1>4. Known'
  BY <1>1, <1>2, <1>3, KnownKeeps DEF AInv
<1>5. CASE UNCHANGED call
  <2>1. Calls'
    BY <1>1, <1>5, CallsKeep DEF AInv
  <2>2. Inquires'
    BY <1>2, <1>3, <1>5, InquiresKeep DEF AInv, ChecksGo, Goes
  <2> QED BY <2>1, <2>2, <1>3, <1>4 DEF AInv
<1>6. ASSUME NEW failed, NEW healthy, CheckEnds(t, failed, healthy) PROVE AInv'
  BY <1>1, <1>2, <1>3, <1>4, <1>6, EndsCall DEF AInv
<1> QED BY <1>5, <1>6 DEF Check, SkipCheck, StartCheck, CogmentAnswers, TcpAnswers, NoAnswer, RemoveUnhealthy

-----------------------------------------------------------------------------
LEMMA HandleHeap ==
  ASSUME AInv, NEW c \in Callers, Handle(c)
  PROVE  /\ running /\ UNCHANGED running /\ Follows(heap, heap')
         /\ \A r \in DOMAIN heap' : heap'[r].svc \in Services
<1>1. running /\ CallOK(call[c])
  <2>1. CASE ~running
    <3>1. call[c].pc = "idle"
      BY <2>1 DEF AInv, Calls, Idle
    <3> QED BY <3>1 DEF Handle, SelectForUpdate, UpdateNext, WriteUpdate, UpdateDone, Insert, Erase, Search, Collect, CheckFound,
                        AllChecked, SearchAgain, Answer
  <2> QED BY <2>1 DEF AInv, Calls
<1>2. UNCHANGED running
  BY DEF Handle, SelectForUpdate, UpdateNext, WriteUpdate, UpdateDone, Insert, Erase, Search, Collect, CheckFound,
         AllChecked, SearchAgain, Answer
<1>3. ASSUME UNCHANGED heap
      PROVE  Follows(heap, heap') /\ \A r \in DOMAIN heap' : heap'[r].svc \in Services
  BY <1>3 DEF AInv, Known, Follows
<1>4. ASSUME NEW rec, rec.svc = call[c].svc, call[c].pc \in RegisterSteps, heap' = Append(heap, rec)
      PROVE  Follows(heap, heap') /\ \A r \in DOMAIN heap' : heap'[r].svc \in Services
  <2>1. rec.svc \in Services
    BY <1>1, <1>4 DEF CallOK
  <2> QED BY <2>1, <1>4, AppendFollows DEF AInv
<1>5. CASE WriteUpdate(c)
  <2> DEFINE rec == NewRecord(call[c].cur, call[c].svc, call[c].keep, 0)
  <2>1. UNCHANGED heap \/ heap' = Append(heap, rec)
    BY <1>5 DEF WriteUpdate, UpdateRecord
  <2>2. rec.svc = call[c].svc /\ call[c].pc \in RegisterSteps
    BY <1>5 DEF NewRecord, WriteUpdate, RegisterSteps
  <2> HIDE DEF rec
  <2> QED BY <2>1, <2>2, <1>1, <1>2, <1>3, <1>4
<1>6. CASE Insert(c)
  <2> DEFINE rec == NewRecord(Len(heap) + 1, call[c].svc, call[c].perm \/ ForcePermanent, Oldest)
  <2>1. heap' = Append(heap, rec)
    BY <1>6 DEF Insert, InsertRecord
  <2>2. rec.svc = call[c].svc /\ call[c].pc \in RegisterSteps
    BY <1>6 DEF NewRecord, Insert, RegisterSteps
  <2> HIDE DEF rec
  <2> QED BY <2>1, <2>2, <1>1, <1>2, <1>4
<1>7. CASE UNCHANGED heap
  BY <1>1, <1>2, <1>3, <1>7
<1> QED BY <1>5, <1>6, <1>7 DEF Handle, SelectForUpdate, UpdateNext, UpdateDone, Erase, Search, Collect, CheckFound,
           AllChecked, SearchAgain, Answer

LEMMA HandleCall ==
  ASSUME AInv, NEW c \in Callers, Handle(c)
  PROVE  \E now : CallOK(now) /\ call' = [call EXCEPT ![c] = now]
<1>1. CallOK(call[c])
  BY DEF AInv, Calls
<1>2. CASE SelectForUpdate(c)
  <2> DEFINE ids == SelectByDetails(Desc[call[c].svc])
             now == [call[c] EXCEPT !.ids = ids, !.pc = IF ids = {} THEN "insert" ELSE "update"]
  <2>1. call' = [call EXCEPT ![c] = now]
    BY <1>2 DEF SelectForUpdate
  <2>2. CallOK(now)
    <3> HIDE DEF ids
    <3> QED BY <1>1, <1>2 DEF CallOK, SelectForUpdate, RegisterSteps, RegisterFields
  <2> QED BY <2>1, <2>2
<1>3. CASE UpdateNext(c)
  <2>1. PICK i : LET seen == [call[c] EXCEPT !.ids = @ \ {i}] IN
          \/ call' = [call EXCEPT ![c] = seen]
          \/ \E keep : call' = [call EXCEPT ![c] = [seen EXCEPT !.cur = i, !.keep = keep, !.pc = "write"]]
    BY <1>3 DEF UpdateNext
  <2> DEFINE seen == [call[c] EXCEPT !.ids = @ \ {i}]
  <2>2. CallOK(seen) /\ DOMAIN seen = RegisterFields /\ seen.op = "register" /\ seen.svc \in Services
    BY <1>1, <1>3 DEF CallOK, UpdateNext, RegisterSteps, RegisterFields
  <2> HIDE DEF seen
  <2>3. \A keep : CallOK([seen EXCEPT !.cur = i, !.keep = keep, !.pc = "write"])
    BY <2>2 DEF CallOK, RegisterFields
  <2>4. \/ call' = [call EXCEPT ![c] = seen]
        \/ \E keep : call' = [call EXCEPT ![c] = [seen EXCEPT !.cur = i, !.keep = keep, !.pc = "write"]]
    BY <2>1 DEF seen
  <2> QED BY <2>2, <2>3, <2>4
<1>4. CASE WriteUpdate(c)
  <2> DEFINE one == [call[c] EXCEPT !.sid = call[c].cur, !.pc = "update"]
             other == [call[c] EXCEPT !.pc = "replied"]
  <2>1. call' = [call EXCEPT ![c] = one] \/ call' = [call EXCEPT ![c] = other]
    BY <1>4 DEF WriteUpdate
  <2>2. CallOK(one) /\ CallOK(other)
    BY <1>1, <1>4 DEF CallOK, WriteUpdate, RegisterSteps, RegisterFields
  <2> HIDE DEF one, other
  <2> QED BY <2>1, <2>2
<1>5. CASE UpdateDone(c)
  <2> DEFINE one == [call[c] EXCEPT !.pc = "insert"]
             other == [call[c] EXCEPT !.pc = "replied", !.ok = TRUE]
  <2>1. call' = [call EXCEPT ![c] = one] \/ call' = [call EXCEPT ![c] = other]
    BY <1>5 DEF UpdateDone
  <2>2. CallOK(one) /\ CallOK(other)
    BY <1>1, <1>5 DEF CallOK, UpdateDone, RegisterSteps, RegisterFields
  <2> HIDE DEF one, other
  <2> QED BY <2>1, <2>2
<1>7. CASE Insert(c)
  <2> DEFINE now == [call[c] EXCEPT !.pc = "check"]
  <2>1. call' = [call EXCEPT ![c] = now]
    BY <1>7 DEF Insert
  <2>2. CallOK(now)
    BY <1>1 DEF CallOK, RegisterSteps, RegisterFields
  <2> QED BY <2>1, <2>2
<1>8. CASE Search(c)
  <2>1. PICK ids : call' = [call EXCEPT ![c].pc = "collect", ![c].found = {}, ![c].ids = ids]
    BY <1>8 DEF Search
  <2> DEFINE now == [call[c] EXCEPT !.pc = "collect", !.found = {}, !.ids = ids]
  <2>2. CallOK(now)
    BY <1>1 DEF CallOK, RegisterSteps, RegisterFields
  <2> QED BY <2>1, <2>2
<1>9. CASE Collect(c)
  <2>1. PICK i : call' = [call EXCEPT ![c].ids = @ \ {i},
                                      ![c].found = @ \cup IF Matches(c, i) THEN {db[i]} ELSE {}]
    BY <1>9 DEF Collect
  <2> DEFINE found == call[c].found \cup IF Matches(c, i) THEN {db[i]} ELSE {}
             now == [call[c] EXCEPT !.ids = @ \ {i}, !.found = found]
  <2>2. CallOK(now)
    <3> HIDE DEF found
    <3> QED BY <1>1, <1>9 DEF CallOK, Collect, RegisterSteps, RegisterFields
  <2> QED BY <2>1, <2>2
<1>10. CASE AllChecked(c)
  <2> DEFINE now == [call[c] EXCEPT !.pc = "sort"]
  <2>1. call' = [call EXCEPT ![c] = now]
    BY <1>10 DEF AllChecked
  <2>2. CallOK(now)
    BY <1>1 DEF CallOK, RegisterSteps, RegisterFields
  <2> QED BY <2>1, <2>2
<1>11. CASE SearchAgain(c)
  <2> DEFINE now == [call[c] EXCEPT !.pc = "search", !.tries = @ - 1]
  <2>1. call' = [call EXCEPT ![c] = now]
    BY <1>11 DEF SearchAgain
  <2>2. CallOK(now)
    BY <1>1 DEF CallOK, RegisterSteps, RegisterFields
  <2> QED BY <2>1, <2>2
<1>12. CASE Answer(c)
  <2>1. PICK order : call' = [call EXCEPT ![c].pc = "replied", ![c].order = order]
    BY <1>12 DEF Answer
  <2> DEFINE now == [call[c] EXCEPT !.pc = "replied", !.order = order]
  <2>2. CallOK(now)
    BY <1>1 DEF CallOK, RegisterSteps, RegisterFields
  <2> QED BY <2>1, <2>2
<1>13. CASE CheckFound(c)
  <2>1. PICK pc \in {"wait", "sort"} : \/ call' = [call EXCEPT ![c].pc = pc]
                                      \/ call' = [call EXCEPT ![c].pc = pc, ![c].found = {}]
    BY <1>13 DEF CheckFound
  <2> DEFINE one == [call[c] EXCEPT !.pc = pc]
             other == [call[c] EXCEPT !.pc = pc, !.found = {}]
  <2>2. CallOK(one) /\ CallOK(other)
    BY <1>1, <2>1 DEF CallOK, RegisterSteps, RegisterFields
  <2> HIDE DEF one, other
  <2>3. call' = [call EXCEPT ![c] = one] \/ call' = [call EXCEPT ![c] = other]
    BY <2>1 DEF one, other
  <2> QED BY <2>2, <2>3
<1>14. CASE Erase(c)
  <2> DEFINE now == [call[c] EXCEPT !.pc = "replied"]
  <2>1. call' = [call EXCEPT ![c] = now]
    BY <1>14 DEF Erase
  <2>2. CallOK(now)
    BY <1>1 DEF CallOK, RegisterSteps, RegisterFields
  <2> QED BY <2>1, <2>2
<1> QED BY <1>2, <1>3, <1>4, <1>5, <1>7, <1>8, <1>9, <1>10, <1>11, <1>12, <1>13, <1>14 DEF Handle

\* What a handler of another caller does leaves the inquiry alone.
LEMMA HandleOther ==
  ASSUME AInv, NEW c \in Callers, c # Resolver, Handle(c), UNCHANGED endpoint PROVE Inquires'
<1>1. PICK now : call' = [call EXCEPT ![c] = now]
  BY HandleCall
<1>2. call'[Resolver] = call[Resolver]
  BY <1>1, ClientsAssumption DEF AInv, Calls, ClientsAssumption
<1>3. Follows(heap, heap')
  BY HandleHeap
<1>4. ASSUME NEW u \in checks' PROVE u \in checks \/ u.by # Resolver
  <2>1. CASE Insert(c) \/ CheckFound(c)
    BY <2>1, <1>4 DEF Insert, CheckFound
  <2>2. CASE UNCHANGED checks
    BY <2>2, <1>4
  <2> QED BY <2>1, <2>2 DEF Handle, SelectForUpdate, UpdateNext, WriteUpdate, UpdateDone, Erase, Search,
                           Collect, AllChecked, SearchAgain, Answer
<1> QED BY <1>2, <1>3, <1>4, InquiresKeep DEF AInv

LEMMA SearchAsked == ASSUME AInv, Search(Resolver), UNCHANGED endpoint PROVE Inquires'
<1> DEFINE now == call[Resolver]
           ids == IF now.sid # 0 THEN {now.sid} ELSE SelectByDetails(now.query)
           new == [now EXCEPT !.pc = "collect", !.found = {}, !.ids = ids]
<1>1. Inquiry(now, endpoint, heap) /\ now.pc = "search" /\ UNCHANGED <<heap, checks>>
  BY DEF AInv, Inquires, Search, Idle
<1>2. call'[Resolver] = new
  BY ClientsAssumption DEF Search, AInv, Calls, ClientsAssumption
<1>3. endpoint.id = 0 => \A i \in ids : HadAll(i, endpoint, heap)
  <2> SUFFICES ASSUME endpoint.id = 0, NEW i \in ids PROVE HadAll(i, endpoint, heap)
    OBVIOUS
  <2>1. i \in DOMAIN db /\ now.query.props \subseteq Desc[heap[db[i]].svc].props
    BY <1>1 DEF Inquiry, SelectByDetails, Selects
  <2>2. db[i] \in DOMAIN heap /\ heap[db[i]].sid = i
    BY <2>1 DEF AInv, IInv, Pointers
  <2> QED BY <1>1, <2>1, <2>2 DEF HadAll, Inquiry
<1> HIDE DEF ids
<1>4. Inquiry(new, endpoint, heap)
  BY <1>1, <1>3 DEF Inquiry, InquireFields
<1>5. \A t \in checks : t.by # Resolver
  BY <1>1 DEF AInv, Inquires, InquiryCheck
<1> QED BY <1>1, <1>2, <1>4, <1>5 DEF Inquires

LEMMA CollectAsked == ASSUME AInv, Collect(Resolver), UNCHANGED endpoint PROVE Inquires'
<1> DEFINE now == call[Resolver]
<1>1. Inquiry(now, endpoint, heap) /\ now.pc = "collect" /\ UNCHANGED <<heap, checks>>
  BY DEF AInv, Inquires, Collect, Idle
<1>2. PICK i \in now.ids :
        call' = [call EXCEPT ![Resolver].ids = @ \ {i},
                             ![Resolver].found = @ \cup IF Matches(Resolver, i) THEN {db[i]} ELSE {}]
  BY DEF Collect
<1> DEFINE found == now.found \cup IF Matches(Resolver, i) THEN {db[i]} ELSE {}
           new == [now EXCEPT !.ids = @ \ {i}, !.found = found]
<1>3. ASSUME Matches(Resolver, i) PROVE Good(db[i], endpoint, heap)
  <2>1. i \in DOMAIN db /\ Desc[heap[db[i]].svc].token = Token
    BY <1>1, <1>3 DEF Matches, Inquiry
  <2>2. db[i] \in DOMAIN heap /\ heap[db[i]].sid = i
    BY <2>1 DEF AInv, IInv, Pointers
  <2>3. endpoint.id = 0 => HadAll(i, endpoint, heap)
    BY <1>1, <1>2 DEF Inquiry
  <2> QED BY <2>1, <2>2, <2>3 DEF Good
<1>4. \A r \in found : Good(r, endpoint, heap)
  BY <1>1, <1>3 DEF Inquiry
<1>5. call'[Resolver] = new
  BY <1>2, ClientsAssumption DEF AInv, Calls, ClientsAssumption
<1>6. Inquiry(new, endpoint, heap)
  <2> HIDE DEF found
  <2> QED BY <1>1, <1>4 DEF Inquiry, InquireFields
<1>7. \A t \in checks : t.by # Resolver
  BY <1>1 DEF AInv, Inquires, InquiryCheck
<1> QED BY <1>1, <1>5, <1>6, <1>7 DEF Inquires

LEMMA CheckFoundAsked == ASSUME AInv, CheckFound(Resolver), UNCHANGED endpoint PROVE Inquires'
<1> DEFINE now == call[Resolver]
           one == [now EXCEPT !.pc = "wait", !.found = {}]
           other == [now EXCEPT !.pc = "sort"]
<1>1. Inquiry(now, endpoint, heap) /\ now.pc = "collect" /\ UNCHANGED heap
  BY DEF AInv, Inquires, CheckFound, Idle
<1>2. \A r \in now.found : Good(r, endpoint, heap)
  BY <1>1 DEF Inquiry
<1>3. \A t \in checks : t.by # Resolver
  BY <1>1 DEF AInv, Inquires, InquiryCheck
<1>4. CASE CheckOnInquire
  <2>1. call'[Resolver] = one
    BY <1>4, ClientsAssumption DEF CheckFound, AInv, Calls, ClientsAssumption
  <2>2. Inquiry(one, endpoint, heap) /\ one.pc = "wait" /\ one.op # Idle.op
    BY <1>1 DEF Inquiry, InquireFields, Idle
  <2>3. ASSUME NEW u \in checks', u.by = Resolver PROVE u.ptr \in now.found
    BY <1>3, <1>4, <2>3 DEF CheckFound
  <2> HIDE DEF one
  <2>4. \A u \in checks' : u.by = Resolver => InquiryCheck(u, one, endpoint, heap)
    BY <1>2, <2>2, <2>3 DEF InquiryCheck
  <2> QED BY <1>1, <2>1, <2>2, <2>4 DEF Inquires
<1>5. CASE ~CheckOnInquire
  <2>1. call'[Resolver] = other /\ UNCHANGED checks
    BY <1>5, ClientsAssumption DEF CheckFound, AInv, Calls, ClientsAssumption
  <2>2. Inquiry(other, endpoint, heap)
    BY <1>1 DEF Inquiry, InquireFields
  <2> QED BY <1>1, <1>3, <2>1, <2>2 DEF Inquires
<1> QED BY <1>4, <1>5

LEMMA WaitedAsked == ASSUME AInv, AllChecked(Resolver) \/ SearchAgain(Resolver), UNCHANGED endpoint PROVE Inquires'
<1> DEFINE now == call[Resolver]
<1>1. Inquiry(now, endpoint, heap) /\ UNCHANGED <<heap, checks>>
  BY DEF AInv, Inquires, AllChecked, SearchAgain, Idle
<1>2. \A t \in checks : t.by # Resolver
  BY DEF AInv, Inquires, InquiryCheck, AllChecked, SearchAgain
<1>3. PICK pc, tries : call'[Resolver] = [now EXCEPT !.pc = pc, !.tries = tries]
  <2>1. CASE AllChecked(Resolver)
    <3>1. call'[Resolver] = [now EXCEPT !.pc = "sort"]
      BY <2>1, ClientsAssumption DEF AllChecked, AInv, Calls, ClientsAssumption
    <3>2. [now EXCEPT !.pc = "sort"] = [now EXCEPT !.pc = "sort", !.tries = now.tries]
      BY <1>1 DEF Inquiry, InquireFields
    <3> QED BY <3>1, <3>2
  <2>2. CASE SearchAgain(Resolver)
    <3>1. call'[Resolver] = [now EXCEPT !.pc = "search", !.tries = now.tries - 1]
      BY <2>2, ClientsAssumption DEF SearchAgain, AInv, Calls, ClientsAssumption
    <3> QED BY <3>1
  <2> QED BY <2>1, <2>2
<1>4. Inquiry([now EXCEPT !.pc = pc, !.tries = tries], endpoint, heap)
  BY <1>1 DEF Inquiry, InquireFields
<1> QED BY <1>1, <1>2, <1>3, <1>4 DEF Inquires

\* Whatever the order, the answer has what was found.
LEMMA AnswerAsked == ASSUME AInv, Answer(Resolver), UNCHANGED endpoint PROVE Inquires'
<1> DEFINE now == call[Resolver]
<1>1. Inquiry(now, endpoint, heap) /\ now.pc = "sort" /\ UNCHANGED <<heap, checks>>
  BY DEF AInv, Inquires, Answer, Idle
<1>2. \A t \in checks : t.by # Resolver
  BY <1>1 DEF AInv, Inquires, InquiryCheck
<1>3. PICK order \in SetToSeqs(IF LoadBalancing THEN LeastLoaded(now.found) ELSE now.found) :
        call' = [call EXCEPT ![Resolver].pc = "replied", ![Resolver].order = order]
  BY DEF Answer
<1>4. LeastLoaded(now.found) \subseteq now.found
  BY DEF LeastLoaded, Serviceable
<1>5. \A k \in DOMAIN order : order[k] \in now.found
  BY <1>3, <1>4 DEF SetToSeqs
<1> DEFINE new == [now EXCEPT !.pc = "replied", !.order = order]
<1>6. call'[Resolver] = new
  BY <1>3, ClientsAssumption DEF AInv, Calls, ClientsAssumption
<1>7. Inquiry(new, endpoint, heap)
  BY <1>1, <1>5 DEF Inquiry, InquireFields
<1> QED BY <1>1, <1>2, <1>6, <1>7 DEF Inquires

LEMMA HandleAsked == ASSUME AInv, NEW c \in Callers, Handle(c), UNCHANGED endpoint PROVE AInv'
<1>1. running /\ UNCHANGED running /\ Follows(heap, heap') /\ \A r \in DOMAIN heap' : heap'[r].svc \in Services
  BY HandleHeap
<1>2. IInv'
  BY HandleKeeps DEF AInv
<1>3. Known'
  BY <1>1, <1>2, KnownKeeps DEF AInv
<1>4. Calls'
  BY <1>1, HandleCall, CallerKeeps DEF AInv
<1>5. Checks'
  BY HandleChecks DEF AInv
<1>6. CASE c = Resolver
  <2>1. CallOK(call[c])
    BY DEF AInv, Calls
  <2>2. call[c].op \notin {"register", "deregister"}
    BY <1>6 DEF AInv, Inquires, Inquiry, Idle
  <2>3. ~(SelectForUpdate(c) \/ UpdateNext(c) \/ WriteUpdate(c) \/ UpdateDone(c) \/ Insert(c) \/ Erase(c))
    BY <2>1, <2>2 DEF CallOK, SelectForUpdate, UpdateNext, WriteUpdate, UpdateDone, Insert, Erase, RegisterSteps
  <2>4. Inquires'
    BY <1>6, <2>3, SearchAsked, CollectAsked, CheckFoundAsked, WaitedAsked, AnswerAsked DEF Handle
  <2> QED BY <1>2, <1>3, <1>4, <1>5, <2>4 DEF AInv
<1>7. CASE c # Resolver
  BY <1>2, <1>3, <1>4, <1>5, <1>7, HandleOther DEF AInv
<1> QED BY <1>6, <1>7

-----------------------------------------------------------------------------
(* Time, crashes, restarts, and the clients' steps                         *)

LEMMA TimeAsked == ASSUME AInv, Scan \/ Tick, IInv', Checks', UNCHANGED endpoint PROVE AInv'
<1>1. running /\ SameDetails(heap, heap') /\ UNCHANGED <<running, call>>
  <2>1. CASE Scan
    BY <2>1 DEF Scan, SameDetails, AInv, IInv
  <2>2. CASE Tick
    BY <2>2, TickDetails DEF AInv, Tick
  <2> QED BY <2>1, <2>2
<1>2. Follows(heap, heap') /\ \A r \in DOMAIN heap' : heap'[r].svc \in Services
  BY <1>1, DetailsFollow DEF AInv
<1>3. Known'
  BY <1>1, <1>2, KnownKeeps DEF AInv
<1>4. Calls'
  BY <1>1, CallsKeep DEF AInv
<1>5. ASSUME NEW u \in checks'
      PROVE (\E t \in checks : u.by = t.by /\ (t.by # "scan" => u.ptr = t.ptr)) \/ u.by # Resolver
  <2>1. CASE Scan
    <3>1. u \in checks \/ u.by = "scan"
      BY <2>1, <1>5 DEF Scan
    <3> QED BY <3>1, ClientsAssumption DEF ClientsAssumption
  <2>2. CASE Tick
    <3>1. PICK t \in checks : u = [t EXCEPT !.age = @ + 1]
      BY <2>2, <1>5 DEF Tick
    <3>2. u.by = t.by /\ u.ptr = t.ptr
      BY <3>1 DEF AInv, Checks, CheckFields
    <3> QED BY <3>2
  <2> QED BY <2>1, <2>2
<1>6. Inquires'
  BY <1>1, <1>2, <1>5, InquiresKeep DEF AInv
<1> QED BY <1>3, <1>4, <1>6 DEF AInv

LEMMA StopAsked ==
  ASSUME AInv, DirectoryStart \/ DirectoryCrash, IInv', Checks', UNCHANGED endpoint
  PROVE  AInv'
<1>1. Resolver \in Callers
  BY ClientsAssumption DEF ClientsAssumption
<1>2. checks' = {} /\ DOMAIN call' = Callers /\ \A c \in Callers : call'[c] = Idle
  BY DEF DirectoryStart, DirectoryCrash, AInv, Calls
<1>3. Calls'
  BY <1>2 DEF Calls, CallOK, Idle, RegisterSteps
<1>4. Inquires'
  BY <1>1, <1>2 DEF Inquires
<1>5. \A r \in DOMAIN heap' : heap'[r].svc \in Services
  <2>1. CASE DirectoryStart
    <3>1. heap' = [r \in DOMAIN heap |-> IF r \in DOMAIN file THEN file[r] ELSE heap[r]]
      BY <2>1 DEF DirectoryStart
    <3> QED BY <3>1 DEF AInv, Known
  <2>2. CASE UNCHANGED heap
    BY <2>2 DEF AInv, Known
  <2> QED BY <2>1, <2>2 DEF DirectoryCrash
<1> QED BY <1>3, <1>4, <1>5, KnownKeeps DEF AInv

\* A step of a client other than the resolver: at most its own call changes.
LEMMA ClientAsked ==
  ASSUME AInv, IInv', Checks', UNCHANGED <<running, heap, checks, endpoint>>,
         UNCHANGED call \/ \E c \in Callers \ {Resolver} : \E now :
                             running /\ CallOK(now) /\ call' = [call EXCEPT ![c] = now]
  PROVE  AInv'
<1>1. Known'
  BY KnownKeeps DEF AInv, Known
<1>2. Calls'
  BY CallsKeep, CallerKeeps DEF AInv
<1>3. call'[Resolver] = call[Resolver]
  BY ClientsAssumption DEF AInv, Calls, ClientsAssumption
<1>4. Inquires'
  BY <1>3 DEF AInv, Inquires
<1> QED BY <1>1, <1>2, <1>4 DEF AInv

LEMMA ListenCalls ==
  ASSUME AInv, NEW c \in Callers, Listen(c) \/ UNCHANGED call
  PROVE  UNCHANGED call \/ \E now : running /\ CallOK(now) /\ call' = [call EXCEPT ![c] = now]
<1>1. CallOK(Idle)
  BY DEF CallOK, Idle, RegisterSteps
<1>2. CASE Listen(c)
  <2>1. running
    BY <1>2 DEF AInv, Calls, Listen, Replied, Idle
  <2> QED BY <1>1, <1>2, <2>1 DEF Listen
<1> QED BY <1>2

LEMMA RegisterCalls ==
  ASSUME NEW c, NEW s \in Services, NEW perm, Register(c, s, perm)
  PROVE  \E now : running /\ CallOK(now) /\ call' = [call EXCEPT ![c] = now]
<1> DEFINE pc == CASE ~Desc[s].valid -> "replied" [] perm -> "select" [] OTHER -> "insert"
           now == [op |-> "register", svc |-> s, perm |-> perm, sid |-> 0, ids |-> {}, cur |-> 0,
                   keep |-> FALSE, ok |-> FALSE, pc |-> pc]
<1>1. running /\ call' = [call EXCEPT ![c] = now]
  BY DEF Register, FreeCaller
<1>2. CallOK(now)
  <2>1. pc \in {"replied", "select", "insert"}
    OBVIOUS
  <2> HIDE DEF pc
  <2> QED BY <2>1 DEF CallOK, RegisterFields
<1> QED BY <1>1, <1>2

LEMMA DeregisterCalls ==
  ASSUME NEW c, NEW token, NEW i, NEW secret, Deregister(c, token, i, secret)
  PROVE  \E now : running /\ CallOK(now) /\ call' = [call EXCEPT ![c] = now]
<1> DEFINE ok == MayDeregister(token, i, secret)
           pc == IF ok THEN "erase" ELSE "replied"
           now == [op |-> "deregister", pc |-> pc, ok |-> ok, sid |-> i]
<1>1. running /\ call' = [call EXCEPT ![c] = now]
  BY DEF Deregister, FreeCaller
<1>2. CallOK(now)
  <2>1. pc \in {"erase", "replied"}
    OBVIOUS
  <2> HIDE DEF ok, pc
  <2> QED BY <2>1 DEF CallOK, RegisterSteps
<1> QED BY <1>1, <1>2

LEMMA ServiceAsked ==
  ASSUME AInv, IInv', Checks', NEW s \in Processes, Launch(s) \/ Service(s) \/ Leave(s) \/ Crash(s)
  PROVE  AInv'
<1>1. s \in Services /\ s \in Callers \ {Resolver}
  BY ClientsAssumption DEF ClientsAssumption
<1>2. UNCHANGED <<running, heap, checks, endpoint>>
  BY DEF Launch, Service, RegisterSelf, Register, Registered, DeregisterSelf, Deregister, Left, Leave, Crash, cliVars
<1>3. UNCHANGED call \/ \E now : running /\ CallOK(now) /\ call' = [call EXCEPT ![s] = now]
  <2>1. CASE RegisterSelf(s)
    BY <1>1, <2>1, RegisterCalls DEF RegisterSelf
  <2>2. CASE DeregisterSelf(s)
    BY <2>2, DeregisterCalls DEF DeregisterSelf
  <2>3. CASE Registered(s) \/ Left(s)
    BY <1>1, <2>3, ListenCalls DEF Registered, Left
  <2>4. CASE Launch(s) \/ Leave(s) \/ Crash(s)
    BY <2>4 DEF Launch, Leave, Crash
  <2> QED BY <2>1, <2>2, <2>3, <2>4 DEF Service
<1> QED BY <1>1, <1>2, <1>3, ClientAsked

LEMMA CliAsked ==
  ASSUME AInv, IInv', Checks', NEW s \in Manual, NEW perm, NEW i, NEW secret,
         CliRegister(s, perm) \/ CliDeregister(s, i, secret) \/ ManualUp(s) \/ ManualDown(s)
  PROVE  AInv'
<1>1. s \in Services /\ Cli \in Callers \ {Resolver}
  BY ClientsAssumption DEF ClientsAssumption
<1>2. UNCHANGED <<running, heap, checks, endpoint>>
  BY DEF CliRegister, Register, CliDeregister, Deregister, ManualUp, ManualDown, cliVars
<1>3. UNCHANGED call \/ \E now : running /\ CallOK(now) /\ call' = [call EXCEPT ![Cli] = now]
  <2>1. CASE CliRegister(s, perm)
    BY <1>1, <2>1, RegisterCalls DEF CliRegister
  <2>2. CASE CliDeregister(s, i, secret)
    BY <2>2, DeregisterCalls DEF CliDeregister
  <2>3. CASE ManualUp(s) \/ ManualDown(s)
    BY <2>3 DEF ManualUp, ManualDown
  <2> QED BY <2>1, <2>2, <2>3
<1> QED BY <1>1, <1>2, <1>3, ClientAsked

LEMMA PrintsAsked == ASSUME AInv, IInv', Checks', CliPrints PROVE AInv'
<1>1. Cli \in Callers \ {Resolver}
  BY ClientsAssumption DEF ClientsAssumption
<1>2. UNCHANGED <<running, heap, checks, endpoint>>
  BY DEF CliPrints, cliVars
<1>3. UNCHANGED call \/ \E now : running /\ CallOK(now) /\ call' = [call EXCEPT ![Cli] = now]
  BY <1>1, ListenCalls DEF CliPrints
<1> QED BY <1>1, <1>2, <1>3, ClientAsked

\* The only endpoint that takes an inquiry has the fields that the directory is asked by.
LEMMA ParsedFields == ASSUME NEW u, Parse(u).cat = "discovery" PROVE DOMAIN Parse(u) = EndpointFields
<1>1. Invalid.cat = "invalid" /\ [Invalid EXCEPT !.cat = "client"].cat = "client"
  BY DEF Invalid
<1>2. ParseGrpc(u).cat # "discovery"
  BY <1>1 DEF ParseGrpc
<1>3. ParseClient(u).cat # "discovery"
  BY <1>1 DEF ParseClient
<1>4. ParseDiscovery(u).cat = "discovery" => DOMAIN ParseDiscovery(u) = EndpointFields
  BY <1>1 DEF ParseDiscovery, EndpointFields
<1> QED BY <1>1, <1>2, <1>3, <1>4 DEF Parse

LEMMA ResolverAsked ==
  ASSUME AInv, IInv', Checks', EndpointResolved \/ \E u \in Urls : InquireEndpoint(u)
  PROVE  AInv'
<1>1. Resolver \in Callers
  BY ClientsAssumption DEF ClientsAssumption
<1>2. UNCHANGED <<running, heap, checks>>
  BY DEF EndpointResolved, InquireEndpoint, Inquire
<1>3. Known'
  BY <1>2, KnownKeeps DEF AInv, Known
<1>4. CASE EndpointResolved
  <2>1. UNCHANGED call \/ \E now : running /\ CallOK(now) /\ call' = [call EXCEPT ![Resolver] = now]
    BY <1>1, <1>4, ListenCalls DEF EndpointResolved
  <2>2. Calls'
    BY <1>1, <1>2, <2>1, CallsKeep, CallerKeeps DEF AInv
  <2>3. call'[Resolver] = Idle
    BY <1>1, <1>4 DEF EndpointResolved, Listen, AInv, Calls
  <2>4. \A t \in checks : t.by # Resolver
    BY <1>4 DEF AInv, Inquires, InquiryCheck, EndpointResolved, Listen, Replied
  <2>5. Inquires'
    BY <1>2, <2>3, <2>4 DEF Inquires
  <2> QED BY <1>3, <2>2, <2>5 DEF AInv
<1>5. ASSUME NEW u, InquireEndpoint(u) PROVE AInv'
  <2> DEFINE e == Parse(u)
             now == [op |-> "inquire", pc |-> "search", token |-> Token, sid |-> e.id,
                     query |-> [type |-> e.type, props |-> e.props], ids |-> {},
                     tries |-> RegistrationLag, found |-> {}, order |-> <<>>]
  <2>1. running /\ endpoint' = e /\ call' = [call EXCEPT ![Resolver] = now]
    BY <1>5 DEF InquireEndpoint, Inquire, FreeCaller
  <2>2. DOMAIN e = EndpointFields
    BY <1>5, ParsedFields DEF InquireEndpoint
  <2> HIDE DEF e
  <2>3. CallOK(now) /\ Inquiry(now, e, heap)
    BY <2>2 DEF CallOK, Inquiry, RegisterSteps, InquireFields
  <2> HIDE DEF now
  <2>4. Calls'
    BY <1>1, <1>2, <2>1, <2>3, CallerKeeps DEF AInv
  <2>5. \A t \in checks : t.by # Resolver
    BY <1>5 DEF AInv, Inquires, InquiryCheck, InquireEndpoint
  <2>6. call'[Resolver] = now
    BY <1>1, <2>1 DEF AInv, Calls
  <2>7. Inquires'
    BY <1>2, <2>1, <2>3, <2>5, <2>6 DEF Inquires
  <2> QED BY <1>3, <2>4, <2>7 DEF AInv
<1> QED BY <1>4, <1>5

LEMMA NextAsked == ASSUME AInv, [Next]_vars PROVE AInv'
<1>1. IInv' /\ Checks'
  BY NextHolds, NextChecks DEF AInv
<1>2. CASE DirNext /\ UNCHANGED cliVars
  <2>1. UNCHANGED endpoint
    BY <1>2 DEF cliVars
  <2> QED BY <1>1, <1>2, <2>1, TimeAsked, StopAsked, CheckAsked, HandleAsked DEF DirNext
<1>3. CASE UNCHANGED vars
  <2>1. UNCHANGED <<running, heap, checks, endpoint, call>>
    BY <1>3 DEF vars, dirVars, cliVars
  <2> QED BY <1>1, <2>1, ClientAsked
<1> QED BY <1>1, <1>2, <1>3, ServiceAsked, CliAsked, PrintsAsked, ResolverAsked DEF Next

\* Each endpoint that is made of an answer is of a record that its inquiry found.
LEMMA AnsweredAsAsked == ASSUME AInv PROVE ResolvedAsAsked
<1> DEFINE order == call[Resolver].order
           given == Resolutions(endpoint, order)
<1> SUFFICES ASSUME endpoint # Invalid, Replied(Resolver), NEW k \in DOMAIN given
             PROVE  /\ IsResolved(given[k]) /\ Desc[given[k].host].token = Token
                    /\ endpoint.type \in {"unknown", Desc[given[k].host].type}
                    /\ endpoint.id = 0 =>
                         \E r \in DOMAIN heap : /\ heap[r].sid = heap[order[k]].sid
                                               /\ endpoint.props \subseteq Desc[heap[r].svc].props
  BY DEF ResolvedAsAsked
<1>1. Inquiry(call[Resolver], endpoint, heap)
  BY DEF AInv, Inquires, Replied, Idle
<1> DEFINE rec == heap[order[k]]
<1>2. /\ \A l \in DOMAIN order : Resolvable(endpoint, heap[order[l]].sid, Desc[heap[order[l]].svc].type)
      /\ k \in DOMAIN order /\ given[k] = Resolve(endpoint, rec.svc, Desc[rec.svc].type)
  <2> DEFINE able == \A l \in DOMAIN order : Resolvable(endpoint, heap[order[l]].sid, Desc[heap[order[l]].svc].type)
  <2>1. given = IF able THEN [l \in DOMAIN order |-> Resolve(endpoint, heap[order[l]].svc, Desc[heap[order[l]].svc].type)]
                ELSE <<>>
    BY DEF Resolutions
  <2>2. ASSUME ~able PROVE FALSE
    <3>1. given = <<>>
      BY <2>1, <2>2
    <3> QED BY <3>1
  <2> HIDE DEF given
  <2>3. given = [l \in DOMAIN order |-> Resolve(endpoint, heap[order[l]].svc, Desc[heap[order[l]].svc].type)]
    BY <2>1, <2>2
  <2>4. k \in DOMAIN order /\ given[k] = Resolve(endpoint, rec.svc, Desc[rec.svc].type)
    BY <2>3 DEF given
  <2> QED BY <2>2, <2>4
<1>3. Resolvable(endpoint, rec.sid, Desc[rec.svc].type)
  BY <1>2
<1>4. Good(order[k], endpoint, heap)
  BY <1>1, <1>2 DEF Inquiry
<1>5. given[k] = [endpoint EXCEPT !.host = rec.svc, !.type = Desc[rec.svc].type, !.id = 0]
  BY <1>2 DEF Resolve
<1>6. given[k].cat = endpoint.cat /\ given[k].host = rec.svc
  BY <1>1, <1>5 DEF Inquiry, EndpointFields
<1>7. rec.svc # NoHost
  BY <1>4, ClientsAssumption DEF Good, AInv, Known, ClientsAssumption
<1>8. IsResolved(given[k])
  BY <1>3, <1>6, <1>7 DEF IsResolved, Resolvable
<1> QED BY <1>3, <1>4, <1>6, <1>8 DEF Resolvable, Good, HadAll

\* Who asks for the endpoint of a type of service gets addresses of services of that
\* type and with its token, of entries that had the properties it asked for, whatever is
\* registered, updated, checked and removed while the inquiry waits.
THEOREM ResolvedAsAskedAlways == Spec => []ResolvedAsAsked
<1>1. CInit => AInv
  BY AInitHolds
<1>2. AInv /\ [Next]_vars => AInv'
  BY NextAsked
<1>3. AInv => ResolvedAsAsked
  BY AnsweredAsAsked
<1> QED BY <1>1, <1>2, <1>3, PTL DEF Spec
=============================================================================
