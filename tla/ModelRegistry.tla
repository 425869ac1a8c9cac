--------------------------- MODULE ModelRegistry ---------------------------
(***************************************************************************)
(* The model registry (cli/services/registry): an archive of files, a      *)
(* memory cache in front of it, with the latest version number of each     *)
(* model and a bounded LRU of versions, and the gRPC handlers that use     *)
(* them.  No lock covers more than one access to a file, to the LRU or to  *)
(* the latest numbers, and each such access is a step of a call.           *)
(*                                                                         *)
(* The hash of a version's data stands for the rest of its information.  A *)
(* file is opened, and emptied, before it is written: until then, or for   *)
(* good if the write fails or the process dies, it is Torn.  The small     *)
(* information file is emptied and written under a lock that its readers   *)
(* take; the data is read without one.                                     *)
(***************************************************************************)
EXTENDS Integers, Sequences, FiniteSets, Functions, FiniteSetsExt, SequencesExt

CONSTANTS
  Models, Payloads,  \* names of models; the data of versions
  Clients, UsedBy,   \* who calls, and the models each uses
  Ops,               \* per client: the methods it calls
  Asked,             \* the version numbers that are asked for: n, or -n for the nth last
  MaxItems,          \* the size of the LRU
  ListLimits,        \* versions_count, 0 for no limit
  MaxVersion,        \* bound: versions of a model
  MaxCrashes, MaxFailures \* bounds: crashes, failed writes

ASSUME RegistryAssumption ==
  /\ UsedBy \in [Clients -> SUBSET Models] /\ MaxItems \in Nat \ {0} /\ MaxVersion \in Nat
  /\ Asked \subseteq Int /\ ListLimits \subseteq Nat /\ {MaxCrashes, MaxFailures} \subseteq Nat

VARIABLES
  dirs, modelInfos,   \* the models with a directory, and with an information file
  infoFile, dataFile, \* per <<model, number>>: the hash in the one, the data in the other
  latest,             \* modelsLatestVersionNumber
  lru,                \* versionCache, the least recently used first
  ready,              \* "down", "starting" or "set" (backendPromise)
  call,               \* per client: its call and where the handler stands
  created,            \* per <<model, number>>: what a client was told it created (history)
  spoilt,             \* the <<model, number>>s that were taken while in use (history)
  crashes, failures

archiveVars == <<dirs, modelInfos, infoFile, dataFile>>
cacheVars == <<latest, lru>>
histVars == <<created, spoilt>>
vars == <<archiveVars, cacheVars, ready, call, histVars, crashes, failures>>

Idle == [op |-> "none", pc |-> "idle"]
Empty == [x \in {} |-> x]
Torn == "torn"

Init ==
  /\ dirs = {} /\ modelInfos = {} /\ infoFile = Empty /\ dataFile = Empty
  /\ latest = Empty /\ lru = <<>> /\ ready = "starting" /\ call = [c \in Clients |-> Idle]
  /\ created = Empty /\ spoilt = {} /\ crashes = 0 /\ failures = 0

Put(f, k, v) == [x \in DOMAIN f \cup {k} |-> IF x = k THEN v ELSE f[x]]
Without(f, K) == Restrict(f, DOMAIN f \ K)
Keys(m) == {m} \X (1..MaxVersion)

-----------------------------------------------------------------------------
(* The archive and the cache                                               *)

ArchivedNumbers(m) == {n \in 1..MaxVersion : <<m, n>> \in DOMAIN infoFile}
\* The number that an information file says, which is none when it is torn.
NumberIn(k) == IF infoFile[k] = Torn THEN 0 ELSE k[2]
\* retrieveModelNthToLastVersionInfo counts files, and answers the number in the file:
\* 0 also when there are not so many versions.
NthLastArchived(m, k) ==
  LET nums == SetToSortSeq(ArchivedNumbers(m), >)
  IN IF k < Len(nums) THEN NumberIn(<<m, nums[k + 1]>>) ELSE 0
\* The number of the file that is read for a number that is asked for.
ArchiveNumber(m, n) == IF n < 0 THEN NthLastArchived(m, -n - 1) ELSE n

\* Mutant: the key lacks the model.
CachedByNumber(m, n) == {i \in DOMAIN lru : lru[i].n = n}
Cached(m, n) == {i \in DOMAIN lru : lru[i].m = m /\ lru[i].n = n}
CachedNumbers(m) == {lru[i].n : i \in {j \in DOMAIN lru : lru[j].m = m}}
Drops(seq, m, N) == SelectSeq(seq, LAMBDA e : e.m # m \/ e.n \notin N)
\* Get makes an entry the most recently used, Add drops the least recently used.
LruGet(i) == lru' = Append(RemoveAt(lru, i), lru[i])
LruAdd(m, n, data, hash) ==
  LET all == Append(Drops(lru, m, {n}), [m |-> m, n |-> n, data |-> data, hash |-> hash]) IN
  lru' = IF Len(all) > MaxItems THEN Tail(all) ELSE all

\* What a number that is asked for means when `last` is the latest; -1 is what the
\* unsigned subtraction gives when it wraps.
Resolved(n, last) ==
  IF n >= 0 THEN n ELSE LET nth == -n - 1 IN IF nth > last + 1 THEN 0 ELSE last - nth

-----------------------------------------------------------------------------
(* Calls                                                                   *)

Request(op, m, arg, data, arch, limit) ==
  [op |-> op, m |-> m, arg |-> arg, data |-> data, hash |-> data, arch |-> arch, limit |-> limit,
   n |-> 0, told |-> 0, upto |-> 0, out |-> <<>>, last |-> 0, ok |-> FALSE, pc |-> "await"]

Reply(c, ok) == [call[c] EXCEPT !.pc = "replied", !.ok = ok]
Goto(c, pc) == [call[c] EXCEPT !.pc = pc]
Step(c, r) == call' = [call EXCEPT ![c] = r]
At(c, pc) == call[c].pc = pc

\* A request that is not valid (no header, no body, another size or hash than it said)
\* is answered at once.
Call(c, r) ==
  /\ ready # "down" /\ call[c] = Idle /\ r.op \in Ops[c]
  /\ Step(c, r)
  /\ UNCHANGED <<archiveVars, cacheVars, ready, histVars, crashes, failures>>
CreateVersion(c) ==
  \E m \in UsedBy[c], d \in Payloads, arch \in BOOLEAN :
    /\ \A n \in ArchivedNumbers(m) \cup CachedNumbers(m) : n < MaxVersion
    /\ (m \in DOMAIN latest => latest[m] < MaxVersion)
    /\ Call(c, Request("create", m, -1, d, arch, 0))
BadVersion(c) ==
  \E m \in UsedBy[c], d \in Payloads : Call(c, [Request("create", m, -1, d, TRUE, 0) EXCEPT !.pc = "replied"])
RetrieveVersion(c) ==
  \E m \in UsedBy[c], n \in Asked, op \in {"info", "data"} : Call(c, Request(op, m, n, "", TRUE, 0))
RetrieveVersionInfos(c) ==
  \E m \in UsedBy[c], n \in Asked \cap Nat, limit \in ListLimits :
    Call(c, Request("list", m, IF n = 0 THEN 1 ELSE n, "", TRUE, limit))
OtherCall(c) ==
  \E m \in UsedBy[c], op \in {"model", "models", "delete", "watch"} : Call(c, Request(op, m, -1, "", TRUE, 0))
DropCall(c) ==
  \E m \in UsedBy[c], n \in Asked : Call(c, Request("drop", m, n, "", TRUE, 0))

\* BackendPromise.Await: a call that comes before the backend is set waits until its
\* context is done, for the channel it waits on was never made.
Await(c) ==
  /\ At(c, "await") /\ ready = "set"
  /\ Step(c, Goto(c, CASE call[c].op = "model" -> "mkdir" [] call[c].op = "models" -> "models"
                       [] call[c].op = "delete" -> "removeAll" [] call[c].op = "watch" -> "hasModel"
                       [] OTHER -> "resolve"))
  /\ UNCHANGED <<archiveVars, cacheVars, ready, histVars, crashes, failures>>
AwaitStuck(c) ==
  /\ At(c, "await") /\ ready = "starting" /\ Step(c, Goto(c, "stuck"))
  /\ UNCHANGED <<archiveVars, cacheVars, ready, histVars, crashes, failures>>
GiveUp(c) ==
  /\ At(c, "stuck") /\ Step(c, Idle)
  /\ UNCHANGED <<archiveVars, cacheVars, ready, histVars, crashes, failures>>
Receive(c) ==
  /\ At(c, "replied") /\ Step(c, Idle)
  /\ UNCHANGED <<archiveVars, cacheVars, ready, histVars, crashes, failures>>

-----------------------------------------------------------------------------
(* Which version: resolveModelVersionNumbers                               *)

\* The versions that are being created, and the one that is being dropped.
Key(c) == <<call[c].m, call[c].n>>
Filing ==
  {"findInfo", "openInfo", "writeInfo", "openData", "writeData", "cache", "bump", "setLatest"}
Creating(c) == call[c].op = "create" /\ call[c].pc \in Filing
Dropping(c, k) == At(c, "dropData") /\ k = <<call[c].m, call[c].upto>>
Busy == {Key(c) : c \in {d \in Clients : Creating(d)}}
\* History: nothing has the number yet; for what is not archived, not even a file that
\* a creation left which failed.
Fresh(k, arch) ==
  /\ k \notin DOMAIN created /\ k \notin Busy /\ \A c \in Clients : ~Dropping(c, k)
  /\ arch \/ (k \notin DOMAIN infoFile /\ k \notin DOMAIN dataFile)

\* A creation takes the number after the latest; where no version is meant, a watcher
\* waits for one, a removal goes on, and the others fail.
WithLatest(c, last) ==
  LET r == call[c]
      n == Resolved(r.arg, last)
      k == <<r.m, n + 1>>
  IN
  /\ spoilt' = IF r.op = "create" /\ ~Fresh(k, r.arch) THEN spoilt \cup {k} ELSE spoilt
  /\ Step(c, CASE r.op = "create" -> [r EXCEPT !.n = n + 1, !.pc = IF r.arch THEN "findInfo" ELSE "cache"]
               [] r.op = "list" -> [r EXCEPT !.n = r.arg, !.upto = last, !.pc = "next"]
               [] r.op = "drop" -> [r EXCEPT !.n = n, !.pc = "dropInfo"]
               [] r.op = "watch" /\ n = 0 -> Goto(c, "sleep")
               [] r.op \in {"info", "data"} /\ n = 0 -> Reply(c, FALSE)
               [] OTHER -> [r EXCEPT !.n = n, !.pc = "lookup"])

NeedsLatest(r) == r.arg < 0 \/ r.op = "list"
Resolve(c) ==
  /\ At(c, "resolve")
  /\ IF ~NeedsLatest(call[c]) \/ call[c].m \in DOMAIN latest
       THEN WithLatest(c, IF NeedsLatest(call[c]) THEN latest[call[c].m] ELSE 0)
       ELSE Step(c, Goto(c, "resolveArchive")) /\ UNCHANGED spoilt
  /\ UNCHANGED <<archiveVars, cacheVars, ready, created, crashes, failures>>

ResolveArchive(c) ==
  /\ At(c, "resolveArchive")
  /\ Step(c, IF call[c].m \notin dirs THEN Reply(c, FALSE)
             ELSE [call[c] EXCEPT !.upto = NthLastArchived(call[c].m, 0), !.pc = "resolveCached"])
  /\ UNCHANGED <<archiveVars, cacheVars, ready, histVars, crashes, failures>>

ResolveCached(c) ==
  /\ At(c, "resolveCached")
  /\ WithLatest(c, Max({call[c].upto} \cup CachedNumbers(call[c].m)))
  /\ UNCHANGED <<archiveVars, cacheVars, ready, created, crashes, failures>>

-----------------------------------------------------------------------------
(* Reading: doRetrieveModelVersionInfo, doRetrieveModelVersionData         *)

\* A version was found, with the number it says it has, or not: the end of a call or an
\* item of a listing.
Found(c, told) ==
  CASE call[c].op = "list" -> [call[c] EXCEPT !.out = Append(@, told), !.n = @ + 1, !.pc = "next"]
    [] call[c].op = "watch" -> [Goto(c, "tell") EXCEPT !.told = told]
    [] OTHER -> [Reply(c, TRUE) EXCEPT !.told = told]
\* Mutant: a listing does not go past a version that is not there.
NotFoundStays(c) ==
  IF call[c].op = "list" THEN Goto(c, "next") ELSE Reply(c, FALSE)
NotFound(c) ==
  IF call[c].op = "list" THEN [call[c] EXCEPT !.n = @ + 1, !.pc = "next"] ELSE Reply(c, FALSE)

NextListed(c) ==
  /\ At(c, "next")
  /\ Step(c, IF call[c].n > call[c].upto \/ (Len(call[c].out) = call[c].limit /\ call[c].limit > 0)
             THEN Reply(c, TRUE) ELSE Goto(c, "lookup"))
  /\ UNCHANGED <<archiveVars, cacheVars, ready, histVars, crashes, failures>>

Lookup(c) ==
  /\ At(c, "lookup")
  /\ LET r == call[c]
         hits == Cached(r.m, r.n)
     IN IF hits = {} THEN Step(c, Goto(c, "readArchive")) /\ UNCHANGED lru
        ELSE \E i \in hits :
               /\ LruGet(i)
               /\ Step(c, [Found(c, r.n) EXCEPT !.data = lru[i].data, !.hash = lru[i].hash])
  /\ UNCHANGED <<archiveVars, latest, ready, histVars, crashes, failures>>

ReadArchive(c) ==
  /\ At(c, "readArchive")
  /\ LET r == call[c]
         k == <<r.m, ArchiveNumber(r.m, r.n)>>
     IN Step(c, CASE r.op = "data" /\ k \in DOMAIN dataFile ->
                       [r EXCEPT !.data = dataFile[k], !.n = k[2], !.pc = "readInfo"]
                  [] r.op # "data" /\ k \in DOMAIN infoFile ->
                       [r EXCEPT !.hash = infoFile[k], !.n = k[2], !.told = NumberIn(k), !.pc = "bump"]
                  [] OTHER -> NotFound(c))
  /\ UNCHANGED <<archiveVars, cacheVars, ready, histVars, crashes, failures>>

\* The data read is cached with the information that is there by then, under the number
\* that this says.
ReadInfo(c) ==
  /\ At(c, "readInfo")
  /\ LET r == call[c]
         k == <<r.m, ArchiveNumber(r.m, r.n)>>
     IN IF k \in DOMAIN infoFile
          THEN /\ LruAdd(r.m, NumberIn(k), r.data, infoFile[k])
               /\ Step(c, [r EXCEPT !.hash = infoFile[k], !.told = NumberIn(k), !.pc = "bump"])
          ELSE Step(c, Reply(c, TRUE)) /\ UNCHANGED lru
  /\ UNCHANGED <<archiveVars, latest, ready, histVars, crashes, failures>>

-----------------------------------------------------------------------------
(* updateCachedModelLatestVersionNumber: checked, then set                 *)

\* What follows; a creation wakes the watchers and replies.
Wake(c) == [w \in Clients |-> IF At(w, "asleep") THEN Goto(w, "awake") ELSE call[w]]
Bumped(c) ==
  IF call[c].op = "create"
    THEN /\ call' = [Wake(c) EXCEPT ![c] = Reply(c, TRUE)]
         /\ created' = IF call[c].n = 0 THEN created
                       ELSE Put(created, Key(c), [data |-> call[c].data, arch |-> call[c].arch])
    ELSE Step(c, Found(c, call[c].told)) /\ UNCHANGED created

Bump(c) ==
  /\ At(c, "bump")
  /\ IF call[c].m \notin DOMAIN latest \/ latest[call[c].m] < call[c].told
       THEN Step(c, Goto(c, "setLatest")) /\ UNCHANGED created
       ELSE Bumped(c)
  /\ UNCHANGED <<archiveVars, cacheVars, ready, spoilt, crashes, failures>>
SetLatest(c) ==
  /\ At(c, "setLatest")
  /\ latest' = Put(latest, call[c].m, call[c].told)
  /\ Bumped(c)
  /\ UNCHANGED <<archiveVars, lru, ready, spoilt, crashes, failures>>

-----------------------------------------------------------------------------
(* Creating a version: its information, its data, then the cache           *)

\* The information that is there is updated.  Where it is torn it gives the creation the
\* number 0 and no model: its files go astray, where nothing reads them.
FindInfo(c) ==
  /\ At(c, "findInfo")
  /\ Step(c, IF Key(c) \in DOMAIN infoFile /\ infoFile[Key(c)] = Torn
               THEN [call[c] EXCEPT !.n = 0, !.pc = "cache"] ELSE Goto(c, "openInfo"))
  /\ UNCHANGED <<archiveVars, cacheVars, ready, histVars, crashes, failures>>
\* The file is made before it is locked; what is there is emptied when it is written.
OpenInfo(c) ==
  /\ At(c, "openInfo")
  /\ dirs' = dirs \cup {call[c].m}
  /\ infoFile' = IF Key(c) \in DOMAIN infoFile THEN infoFile ELSE Put(infoFile, Key(c), Torn)
  /\ Step(c, Goto(c, "writeInfo"))
  /\ UNCHANGED <<modelInfos, dataFile, cacheVars, ready, histVars, crashes, failures>>
\* A file that was removed meanwhile is written all the same, for nobody to see.
WriteInfo(c) ==
  /\ At(c, "writeInfo")
  /\ infoFile' = IF Key(c) \in DOMAIN infoFile THEN Put(infoFile, Key(c), call[c].hash) ELSE infoFile
  /\ Step(c, Goto(c, "openData"))
  /\ UNCHANGED <<dirs, modelInfos, dataFile, cacheVars, ready, histVars, crashes, failures>>
\* The disk is full, or the files do not open: what was done stays.
InfoFails(c) ==
  /\ failures < MaxFailures /\ failures' = failures + 1
  /\ \/ At(c, "findInfo") /\ UNCHANGED <<dirs, infoFile>>
     \/ At(c, "openInfo") /\ dirs' \in {dirs, dirs \cup {call[c].m}} /\ UNCHANGED infoFile
     \/ At(c, "writeInfo") /\ UNCHANGED dirs
          /\ \/ UNCHANGED infoFile
             \/ Key(c) \in DOMAIN infoFile /\ infoFile' = Put(infoFile, Key(c), Torn)
  /\ Step(c, Reply(c, FALSE))
  /\ UNCHANGED <<modelInfos, dataFile, cacheVars, ready, histVars, crashes>>
\* Locked until it is written, but not for those who read it.
OpenData(c) ==
  /\ At(c, "openData") /\ call[c].m \in dirs
  /\ \A d \in Clients : At(d, "writeData") => Key(d) # Key(c)
  /\ dataFile' = Put(dataFile, Key(c), Torn)
  /\ Step(c, Goto(c, "writeData"))
  /\ UNCHANGED <<dirs, modelInfos, infoFile, cacheVars, ready, histVars, crashes, failures>>
WriteData(c) ==
  /\ At(c, "writeData")
  /\ dataFile' = IF Key(c) \in DOMAIN dataFile THEN Put(dataFile, Key(c), call[c].data) ELSE dataFile
  /\ Step(c, Goto(c, "cache"))
  /\ UNCHANGED <<dirs, modelInfos, infoFile, cacheVars, ready, histVars, crashes, failures>>
\* Mutant: the error is not looked at.
DataFailsUnseen(c) ==
  /\ \/ At(c, "openData") /\ call[c].m \notin dirs /\ UNCHANGED failures
     \/ call[c].pc \in {"openData", "writeData"} /\ failures < MaxFailures /\ failures' = failures + 1
  /\ Step(c, Goto(c, "cache"))
  /\ UNCHANGED <<archiveVars, cacheVars, ready, histVars, crashes>>
\* The disk is full, or the directory was removed: the information goes, the data that
\* was written stays.
DataFails(c) ==
  /\ \/ At(c, "openData") /\ call[c].m \notin dirs /\ UNCHANGED failures
     \/ call[c].pc \in {"openData", "writeData"} /\ failures < MaxFailures /\ failures' = failures + 1
  /\ infoFile' = Without(infoFile, {Key(c)})
  /\ Step(c, Reply(c, FALSE))
  /\ UNCHANGED <<dirs, modelInfos, dataFile, cacheVars, ready, histVars, crashes>>
AddToCache(c) ==
  /\ At(c, "cache")
  /\ LruAdd(call[c].m, call[c].n, call[c].data, call[c].hash)
  /\ Step(c, [Goto(c, "bump") EXCEPT !.told = call[c].n])
  /\ UNCHANGED <<archiveVars, latest, ready, histVars, crashes, failures>>

-----------------------------------------------------------------------------
(* Models, and what is deleted                                             *)

\* CreateOrUpdateModel: the directory, then the information file.
MakeDir(c) ==
  /\ At(c, "mkdir") /\ dirs' = dirs \cup {call[c].m}
  /\ Step(c, Goto(c, "writeModel"))
  /\ UNCHANGED <<modelInfos, infoFile, dataFile, cacheVars, ready, histVars, crashes, failures>>
WriteModelInfo(c) ==
  /\ At(c, "writeModel")
  /\ modelInfos' = modelInfos \cup ({call[c].m} \cap dirs)
  /\ Step(c, Reply(c, call[c].m \in dirs))
  /\ UNCHANGED <<dirs, infoFile, dataFile, cacheVars, ready, histVars, crashes, failures>>
\* RetrieveModels fails if any directory has no information file.
ListModels(c) ==
  /\ At(c, "models") /\ Step(c, Reply(c, dirs \subseteq modelInfos))
  /\ UNCHANGED <<archiveVars, cacheVars, ready, histVars, crashes, failures>>

RemoveAll(c) ==
  /\ At(c, "removeAll")
  /\ LET m == call[c].m IN
     IF m \in dirs
       THEN /\ dirs' = dirs \ {m} /\ modelInfos' = modelInfos \ {m}
            /\ infoFile' = Without(infoFile, Keys(m)) /\ dataFile' = Without(dataFile, Keys(m))
            /\ created' = Without(created, Keys(m)) /\ spoilt' = spoilt \cup (Busy \cap Keys(m))
            /\ Step(c, Goto(c, "forgetLatest"))
       ELSE Step(c, Reply(c, FALSE)) /\ UNCHANGED <<archiveVars, histVars>>
  /\ UNCHANGED <<cacheVars, ready, crashes, failures>>
\* deleteCachedModelLatestVersionNumber, whose test and removal are two steps.
ForgetLatest(c) ==
  /\ At(c, "forgetLatest") /\ latest' = Without(latest, {call[c].m})
  /\ Step(c, IF call[c].op = "delete" THEN Goto(c, "forgetVersions") ELSE Reply(c, TRUE))
  /\ UNCHANGED <<archiveVars, lru, ready, histVars, crashes, failures>>
ForgetVersions(c) ==
  /\ At(c, "forgetVersions") /\ lru' = Drops(lru, call[c].m, 1..MaxVersion)
  /\ Step(c, Reply(c, TRUE))
  /\ UNCHANGED <<archiveVars, latest, ready, histVars, crashes, failures>>

\* DeleteModelVersion of the backend, which no gRPC method calls.
DropInfo(c) ==
  /\ At(c, "dropInfo")
  /\ LET k == <<call[c].m, ArchiveNumber(call[c].m, call[c].n)>> IN
     /\ infoFile' = Without(infoFile, {k})
     /\ created' = Without(created, {k, Key(c)}) /\ spoilt' = spoilt \cup (Busy \cap {k, Key(c)})
     /\ Step(c, IF k \in DOMAIN infoFile THEN [Goto(c, "dropData") EXCEPT !.upto = k[2]]
                ELSE Goto(c, "dropCached"))
  /\ UNCHANGED <<dirs, modelInfos, dataFile, cacheVars, ready, crashes, failures>>
DropData(c) ==
  /\ At(c, "dropData") /\ dataFile' = Without(dataFile, {<<call[c].m, call[c].upto>>})
  /\ Step(c, Goto(c, "dropCached"))
  /\ UNCHANGED <<dirs, modelInfos, infoFile, cacheVars, ready, histVars, crashes, failures>>
DropCached(c) ==
  /\ At(c, "dropCached") /\ lru' = Drops(lru, call[c].m, {call[c].n})
  /\ Step(c, Goto(c, "dropLatest"))
  /\ UNCHANGED <<archiveVars, latest, ready, histVars, crashes, failures>>
DropLatest(c) ==
  /\ At(c, "dropLatest")
  /\ LET m == call[c].m IN
     Step(c, IF m \in DOMAIN latest /\ (call[c].n = -1 \/ call[c].n >= latest[m])
             THEN Goto(c, "forgetLatest") ELSE Reply(c, TRUE))
  /\ UNCHANGED <<archiveVars, cacheVars, ready, histVars, crashes, failures>>

-----------------------------------------------------------------------------
(* VersionUpdate                                                           *)

HasModel(c) ==
  /\ At(c, "hasModel")
  /\ Step(c, IF call[c].m \in dirs THEN Goto(c, "resolve") ELSE Reply(c, FALSE))
  /\ UNCHANGED <<archiveVars, cacheVars, ready, histVars, crashes, failures>>
\* The latest version is sent if it is later than what was sent before; the client may
\* have left.
Tell(c) ==
  /\ At(c, "tell")
  /\ \/ Step(c, [Goto(c, "sleep") EXCEPT !.last = Max({call[c].last, call[c].told})])
     \/ call[c].told > call[c].last /\ Step(c, Reply(c, FALSE))
  /\ UNCHANGED <<archiveVars, cacheVars, ready, histVars, crashes, failures>>
\* newVersion.Wait(): nothing is looked at between the lock and the wait.
Sleep(c) ==
  /\ At(c, "sleep") /\ Step(c, Goto(c, "asleep"))
  /\ UNCHANGED <<archiveVars, cacheVars, ready, histVars, crashes, failures>>
\* After a creation of any model; whoever left meanwhile is noticed only then.
Awake(c) ==
  /\ At(c, "awake") /\ \E left \in BOOLEAN : Step(c, IF left THEN Reply(c, TRUE) ELSE Goto(c, "resolve"))
  /\ UNCHANGED <<archiveVars, cacheVars, ready, histVars, crashes, failures>>

-----------------------------------------------------------------------------
Handle(c) ==
  \/ Await(c) \/ AwaitStuck(c)
  \/ Resolve(c) \/ ResolveArchive(c) \/ ResolveCached(c)
  \/ NextListed(c) \/ Lookup(c) \/ ReadArchive(c) \/ ReadInfo(c) \/ Bump(c) \/ SetLatest(c)
  \/ FindInfo(c) \/ OpenInfo(c) \/ WriteInfo(c) \/ InfoFails(c)
  \/ OpenData(c) \/ WriteData(c) \/ DataFails(c) \/ AddToCache(c)
  \/ MakeDir(c) \/ WriteModelInfo(c) \/ ListModels(c)
  \/ RemoveAll(c) \/ ForgetLatest(c) \/ ForgetVersions(c)
  \/ DropInfo(c) \/ DropData(c) \/ DropCached(c) \/ DropLatest(c)
  \/ HasModel(c) \/ Tell(c) \/ Sleep(c) \/ Awake(c)

Ask(c) == CreateVersion(c) \/ BadVersion(c) \/ RetrieveVersion(c) \/ RetrieveVersionInfos(c)
          \/ OtherCall(c) \/ DropCall(c)

\* SetBackend, from the goroutine that opens the archive.
SetBackend ==
  /\ ready = "starting" /\ ready' = "set"
  /\ UNCHANGED <<archiveVars, cacheVars, call, histVars, crashes, failures>>
\* The process goes away, with the memory cache and what is not archived; information
\* that was being written over may be torn.
Crash ==
  /\ ready # "down" /\ crashes < MaxCrashes /\ crashes' = crashes + 1 /\ ready' = "down"
  /\ latest' = Empty /\ lru' = <<>> /\ call' = [c \in Clients |-> Idle]
  /\ created' = Restrict(created, {k \in DOMAIN created : created[k].arch})
  /\ \E torn \in SUBSET {Key(c) : c \in {d \in Clients : At(d, "writeInfo")}} :
       infoFile' = [k \in DOMAIN infoFile |-> IF k \in torn THEN Torn ELSE infoFile[k]]
  /\ UNCHANGED <<dirs, modelInfos, dataFile, spoilt, failures>>
Restart ==
  /\ ready = "down" /\ ready' = "starting"
  /\ UNCHANGED <<archiveVars, cacheVars, call, histVars, crashes, failures>>

Next ==
  \/ \E c \in Clients : Ask(c) \/ Handle(c) \/ Receive(c) \/ GiveUp(c)
  \/ SetBackend \/ Crash \/ Restart

Spec == Init /\ [][Next]_vars

\* The server's threads run, and clients take their replies.
Fairness ==
  /\ \A c \in Clients : WF_vars(Handle(c)) /\ WF_vars(Receive(c))
  /\ WF_vars(SetBackend)
FairSpec == Spec /\ Fairness

-----------------------------------------------------------------------------
(* Properties                                                              *)

\* What a client was told is archived stays, with the data it sent, until it is
\* deleted: through crashes between and within the writes of the two files, writes that
\* fail, evictions, restarts and deletions of other versions.  Only a number that was
\* taken again while it was in use, or deleted while it was created, is not promised.
ArchivedSurvives ==
  \A k \in DOMAIN created \ spoilt : created[k].arch =>
    /\ k \in DOMAIN infoFile /\ infoFile[k] = created[k].data
    /\ k \in DOMAIN dataFile /\ dataFile[k] = created[k].data

\* A version that was created is found, with its own data, wherever it is by then; one
\* that is not archived may have been dropped from the cache, but not be another: not
\* one of another model in the cache, nor what a failed creation left in the files.  Of
\* a number that was taken over such a leftover, or twice, nothing is said.
ReadsWhatWasCreated ==
  \A c \in Clients :
    At(c, "replied") /\ call[c].op \in {"info", "data"} /\ Key(c) \in DOMAIN created \ spoilt =>
      LET v == created[Key(c)] IN
      IF call[c].ok THEN v.data = IF call[c].op = "data" THEN call[c].data ELSE call[c].hash
      ELSE ~v.arch

\* Every call that the server takes up ends, but for a watcher's.
CallsEnd == \A c \in Clients :
  [](call[c].pc \notin {"idle", "await", "stuck"} /\ call[c].op # "watch"
       => <>(call[c].pc \in {"idle", "replied"}))

\* "Set to 0 to create a new version" (types.go:41), as every call of CreateVersion
\* does: the number that a creation takes is not that of a version that was created.
CreatesNew ==
  \A c \in Clients : At(c, "openData") => Key(c) \notin DOMAIN created

============================================================================
