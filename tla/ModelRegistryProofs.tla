------------------------ MODULE ModelRegistryProofs ------------------------
(***************************************************************************)
(* What a client of the model registry was told is archived stays in the   *)
(* archive, for all models, clients, cache sizes, crashes and failures.    *)
(* Nothing is asked of the clients: no lock covers a creation, but while   *)
(* its number is not taken again nobody else is at the files of the        *)
(* version, for the others found it in use (spoilt) or have been there.    *)
(***************************************************************************)
EXTENDS ModelRegistry, TLAPS

\* A call has all its fields, and it stands where its method goes.
Fields ==
  {"op", "m", "arg", "data", "hash", "arch", "limit", "n", "told", "upto", "out", "last", "ok", "pc"}
IsCall(r) == r = [f \in Fields |-> r[f]]
Before == {"await", "stuck", "resolve", "resolveArchive", "resolveCached", "replied"}
ToFiles == {"findInfo", "openInfo", "writeInfo", "openData", "writeData"}
Placed(r) ==
  /\ r.op = "create" => r.pc \in Before \cup Filing /\ r.hash = r.data
  /\ r.pc \in ToFiles => r.op = "create" /\ r.arch
  /\ r.pc = "cache" => r.op = "create"
Calls ==
  /\ call = [c \in Clients |-> call[c]]
  /\ \A c \in Clients :
       call[c] = Idle \/ (IsCall(call[c]) /\ Placed(call[c]) /\ call[c].m \in UsedBy[c])

\* A creation whose number nobody took, before or after it, has it to itself...
Mine(c) == Creating(c) /\ call[c].n # 0 /\ Key(c) \notin spoilt
Alone(c) ==
  Mine(c) =>
    /\ Key(c) \notin DOMAIN created
    /\ \A d \in Clients : (Creating(d) /\ d # c => Key(d) # Key(c)) /\ ~Dropping(d, Key(c))
\* ... and has put in the files by now what it tells in the end.
InFile(f, k, v) == k \in DOMAIN f /\ f[k] = v
Filed(c) ==
  Mine(c) /\ call[c].arch =>
    /\ call[c].pc = "writeInfo" => \E v : InFile(infoFile, Key(c), v)
    /\ call[c].pc \in {"openData", "writeData", "cache", "bump", "setLatest"} =>
         InFile(infoFile, Key(c), call[c].data)
    /\ call[c].pc = "writeData" => \E v : InFile(dataFile, Key(c), v)
    /\ call[c].pc \in {"cache", "bump", "setLatest"} => InFile(dataFile, Key(c), call[c].data)
\* What a removal takes out is promised no more.
Gone(c) ==
  At(c, "dropData") /\ <<call[c].m, call[c].upto>> \notin spoilt =>
    <<call[c].m, call[c].upto>> \notin DOMAIN created
Numbered == \A k \in DOMAIN created : k[2] # 0
Inv ==
  Calls /\ Numbered /\ (\A c \in Clients : Alone(c) /\ Filed(c) /\ Gone(c)) /\ ArchivedSurvives

-----------------------------------------------------------------------------
(* Files and calls                                                         *)

LEMMA PutIs ==
  ASSUME NEW f, NEW k, NEW v
  PROVE  /\ InFile(Put(f, k, v), k, v)
         /\ \A j, u : j # k => (InFile(Put(f, k, v), j, u) <=> InFile(f, j, u))
         /\ DOMAIN Put(f, k, v) = DOMAIN f \cup {k}
  BY DEF Put, InFile

LEMMA WithoutIs ==
  ASSUME NEW f, NEW K
  PROVE  /\ \A j, u : InFile(Without(f, K), j, u) <=> InFile(f, j, u) /\ j \notin K
         /\ DOMAIN Without(f, K) = DOMAIN f \ K
         /\ \A j \in DOMAIN f \ K : Without(f, K)[j] = f[j]
  BY DEF Without, Restrict, InFile

\* A call that is neither a creation under way nor about to remove data.
Quiet(r) == r.pc # "dropData" /\ ~(r.op = "create" /\ r.pc \in Filing)
Good(c, r) == r = Idle \/ (IsCall(r) /\ Placed(r) /\ r.m \in UsedBy[c])

\* A handler at work has its call.
LEMMA AtWork ==
  ASSUME Inv, NEW c \in Clients, call[c].pc # "idle"
  PROVE  IsCall(call[c]) /\ Placed(call[c]) /\ call[c].m \in UsedBy[c]
  BY DEF Inv, Calls, Idle

LEMMA StepCalls ==
  ASSUME Inv, NEW c \in Clients, NEW r, Good(c, r), Step(c, r)
  PROVE  Calls' /\ call'[c] = r /\ \A d \in Clients \ {c} : call'[d] = call[d]
  BY DEF Inv, Calls, Step, Good

LEMMA Survives ==
  ASSUME ArchivedSurvives
  PROVE  \A k \in DOMAIN created \ spoilt : created[k].arch =>
           InFile(infoFile, k, created[k].data) /\ InFile(dataFile, k, created[k].data)
  BY DEF ArchivedSurvives, InFile

LEMMA SurvivesNext ==
  ASSUME \A k \in DOMAIN created' \ spoilt' : created'[k].arch =>
           InFile(infoFile', k, created'[k].data) /\ InFile(dataFile', k, created'[k].data)
  PROVE  ArchivedSurvives'
  BY DEF ArchivedSurvives, InFile

\* A step of a call that does not get in the way of the creations of others: their
\* files stay, and it goes on with another version than theirs.
LEMMA ClientStep ==
  ASSUME Inv, NEW c \in Clients, NEW r, Good(c, r), Step(c, r),
         spoilt \subseteq spoilt', DOMAIN created' \subseteq DOMAIN created,
         Alone(c)', Filed(c)', Gone(c)', ArchivedSurvives',
         \A d \in Clients \ {c} : Mine(d) /\ Key(d) \notin spoilt' =>
           /\ r.op = "create" /\ r.pc \in Filing => <<r.m, r.n>> # Key(d)
           /\ r.pc = "dropData" => <<r.m, r.upto>> # Key(d)
           /\ \A v : InFile(infoFile, Key(d), v) => InFile(infoFile', Key(d), v)
           /\ \A v : InFile(dataFile, Key(d), v) => InFile(dataFile', Key(d), v)
  PROVE  Inv'
  <1>1. Calls' /\ call'[c] = r /\ \A d \in Clients \ {c} : call'[d] = call[d]
    BY StepCalls
  <1>2. Numbered'
    BY DEF Inv, Numbered
  <1>3. ASSUME NEW d \in Clients \ {c}
        PROVE  Alone(d)' /\ Filed(d)' /\ Gone(d)'
    <2>1. call'[d] = call[d] /\ Key(d)' = Key(d) /\ (Mine(d)' => Mine(d) /\ Key(d) \notin spoilt')
      BY <1>1 DEF Key, Mine, Creating
    <2>2. Alone(d) /\ Filed(d) /\ Gone(d)
      BY DEF Inv
    <2>3. Alone(d)'
      <3> SUFFICES ASSUME Mine(d)', NEW e \in Clients
                   PROVE  /\ Key(d) \notin DOMAIN created'
                          /\ Creating(e)' /\ e # d => Key(e)' # Key(d)
                          /\ ~(At(e, "dropData")' /\ Key(d) = <<call'[e].m, call'[e].upto>>)
        BY <2>1 DEF Alone, Dropping
      <3>1. CASE e = c
        BY <1>1, <2>1, <2>2, <3>1 DEF Alone, Creating, Key, At
      <3>2. CASE e # c
        BY <1>1, <2>1, <2>2, <3>2 DEF Alone, Creating, Key, At, Dropping
      <3>3. QED
        BY <3>1, <3>2
    <2>4. Filed(d)'
      BY <2>1, <2>2 DEF Filed
    <2>5. Gone(d)'
      BY <2>1, <2>2 DEF Gone, At
    <2>6. QED
      BY <2>3, <2>4, <2>5
  <1>4. QED
    BY <1>1, <1>2, <1>3 DEF Inv

\* A step that changes the call only.
LEMMA QuietStep ==
  ASSUME Inv, NEW c \in Clients, NEW r, Good(c, r), Quiet(r), Step(c, r),
         UNCHANGED <<infoFile, dataFile, created, spoilt>>
  PROVE  Inv'
  <1>1. call'[c] = r
    BY StepCalls
  <1>2. Alone(c)' /\ Filed(c)' /\ Gone(c)'
    BY <1>1 DEF Quiet, Alone, Filed, Gone, Mine, Creating, At
  <1>3. ArchivedSurvives'
    BY DEF Inv, ArchivedSurvives
  <1>4. QED
    BY <1>2, <1>3, ClientStep DEF Quiet

\* Going on elsewhere, or replying.
LEMMA GotoIs ==
  ASSUME Inv, NEW c \in Clients, call[c].pc # "idle", NEW p
  PROVE  LET r == Goto(c, p) IN
         /\ IsCall(r) /\ r.pc = p /\ r.op = call[c].op /\ r.m = call[c].m /\ r.n = call[c].n
         /\ r.data = call[c].data /\ r.hash = call[c].hash /\ r.arch = call[c].arch
  BY AtWork DEF Goto, IsCall, Fields

LEMMA ReplyIs ==
  ASSUME Inv, NEW c \in Clients, call[c].pc # "idle", NEW ok
  PROVE  /\ IsCall(Reply(c, ok)) /\ Reply(c, ok).pc = "replied"
         /\ \A f \in Fields \ {"pc", "ok"} : Reply(c, ok)[f] = call[c][f]
  BY AtWork DEF Reply, IsCall, Fields

\* Somewhere that is not the business of a creation, a reply, or away.
LEMMA GotoQuiet ==
  ASSUME Inv, NEW c \in Clients, call[c].pc # "idle", NEW p,
         \/ p \in Before
         \/ call[c].op # "create" /\ p \notin ToFiles \cup {"cache", "dropData"}
  PROVE  Good(c, Goto(c, p)) /\ Quiet(Goto(c, p))
  <1> DEFINE r == Goto(c, p)
  <1> HIDE DEF r
  <1>1. IsCall(r) /\ r.pc = p
    BY GotoIs DEF r
  <1>2. /\ r.op = call[c].op /\ r.m = call[c].m /\ r.hash = call[c].hash /\ r.data = call[c].data
        /\ r.arch = call[c].arch
    BY GotoIs DEF r
  <1>3. Placed(call[c]) /\ call[c].m \in UsedBy[c]
    BY AtWork
  <1>4. Placed(r) /\ Quiet(r)
    BY <1>1, <1>2, <1>3 DEF Placed, Quiet, Before, Filing, ToFiles
  <1>5. QED
    BY <1>1, <1>2, <1>3, <1>4 DEF Good, r

LEMMA ReplyQuiet ==
  ASSUME Inv, NEW c \in Clients, call[c].pc # "idle", NEW ok
  PROVE  Good(c, Reply(c, ok)) /\ Quiet(Reply(c, ok))
  <1> DEFINE r == Reply(c, ok)
  <1> HIDE DEF r
  <1>1. IsCall(r) /\ r.pc = "replied" /\ \A f \in Fields \ {"pc", "ok"} : r[f] = call[c][f]
    BY ReplyIs DEF r
  <1>2. /\ r.op = call[c].op /\ r.m = call[c].m /\ r.hash = call[c].hash /\ r.data = call[c].data
        /\ r.arch = call[c].arch
    BY <1>1 DEF Fields
  <1>3. Placed(call[c]) /\ call[c].m \in UsedBy[c]
    BY AtWork
  <1>4. Placed(r) /\ Quiet(r)
    BY <1>1, <1>2, <1>3 DEF Placed, Quiet, Before, Filing, ToFiles
  <1>5. QED
    BY <1>1, <1>2, <1>3, <1>4 DEF Good, r

LEMMA IdleQuiet == ASSUME NEW c \in Clients PROVE Good(c, Idle) /\ Quiet(Idle)
  BY DEF Good, Quiet, Idle, Filing

-----------------------------------------------------------------------------
(* The steps of a call that leave the files alone                          *)

LEMMA AskStep == ASSUME Inv, NEW c \in Clients, Ask(c) PROVE Inv'
  <1>1. ASSUME NEW op, NEW m \in UsedBy[c], NEW arg, NEW data, NEW arch, NEW limit
        PROVE  LET r == Request(op, m, arg, data, arch, limit) IN Good(c, r) /\ Quiet(r)
    BY DEF Request, Good, IsCall, Fields, Placed, Quiet, Before, Filing, ToFiles
  <1>2. ASSUME NEW m \in UsedBy[c], NEW d
        PROVE  LET r == [Request("create", m, -1, d, TRUE, 0) EXCEPT !.pc = "replied"]
               IN  Good(c, r) /\ Quiet(r)
    BY DEF Request, Good, IsCall, Fields, Placed, Quiet, Before, Filing, ToFiles
  <1>3. ASSUME NEW r, Call(c, r), Good(c, r), Quiet(r)
        PROVE  Inv'
    BY <1>3, QuietStep DEF Call, archiveVars, histVars
  <1>4. CASE CreateVersion(c)
    BY <1>1, <1>3, <1>4 DEF CreateVersion
  <1>5. CASE BadVersion(c)
    BY <1>2, <1>3, <1>5 DEF BadVersion
  <1>6. CASE RetrieveVersion(c)
    BY <1>1, <1>3, <1>6 DEF RetrieveVersion
  <1>7. CASE RetrieveVersionInfos(c)
    BY <1>1, <1>3, <1>7 DEF RetrieveVersionInfos
  <1>8. CASE OtherCall(c)
    BY <1>1, <1>3, <1>8 DEF OtherCall
  <1>9. CASE DropCall(c)
    BY <1>1, <1>3, <1>9 DEF DropCall
  <1>10. QED
    BY <1>4, <1>5, <1>6, <1>7, <1>8, <1>9 DEF Ask

LEMMA AwaitSteps ==
  ASSUME Inv, NEW c \in Clients, Await(c) \/ AwaitStuck(c) \/ GiveUp(c) \/ Receive(c)
  PROVE  Inv'
  <1>1. UNCHANGED <<infoFile, dataFile, created, spoilt>> /\ call[c].pc # "idle"
    BY DEF Await, AwaitStuck, GiveUp, Receive, At, archiveVars, histVars
  <1>2. CASE Await(c)
    <2>1. PICK p : Step(c, Goto(c, p)) /\ (p = "resolve" \/ (call[c].op # "create" /\
                     p \in {"mkdir", "models", "removeAll", "hasModel"}))
      BY <1>2 DEF Await
    <2>2. QED
      BY <1>1, <2>1, GotoQuiet, QuietStep DEF Before, ToFiles
  <1>3. CASE AwaitStuck(c)
    BY <1>1, <1>3, GotoQuiet, QuietStep DEF AwaitStuck, Before
  <1>4. CASE GiveUp(c) \/ Receive(c)
    BY <1>1, <1>4, IdleQuiet, QuietStep DEF GiveUp, Receive
  <1>5. QED
    BY <1>2, <1>3, <1>4

\* A creation takes a number.
LEMMA TakesNumber ==
  ASSUME Inv, NEW c \in Clients, call[c].pc \in {"resolve", "resolveCached"}, call[c].op = "create",
         NEW n, NEW r, r = [call[c] EXCEPT !.n = n, !.pc = IF call[c].arch THEN "findInfo" ELSE "cache"],
         Step(c, r),
         spoilt' = IF Fresh(<<call[c].m, n>>, call[c].arch) THEN spoilt ELSE spoilt \cup {<<call[c].m, n>>},
         UNCHANGED <<infoFile, dataFile, created>>
  PROVE  Inv'
  <1> DEFINE q == call[c]
             k == <<q.m, n>>
  <1>1. IsCall(q) /\ Placed(q) /\ q.m \in UsedBy[c]
    BY AtWork
  <1>2. /\ IsCall(r) /\ r.op = "create" /\ r.m = q.m /\ r.n = n /\ r.arch = q.arch
        /\ r.data = q.data /\ r.hash = q.hash /\ r.pc = IF q.arch THEN "findInfo" ELSE "cache"
    <2> HIDE DEF q
    <2>1. r = [q EXCEPT !.n = n, !.pc = IF q.arch THEN "findInfo" ELSE "cache"] /\ q.op = "create"
      BY DEF q
    <2>2. QED
      BY <1>1, <2>1 DEF IsCall, Fields
  <1>3. Good(c, r)
    BY <1>1, <1>2 DEF Good, Placed, Filing, ToFiles
  <1>4. call'[c] = r /\ \A d \in Clients \ {c} : call'[d] = call[d]
    BY <1>3, StepCalls
  <1>5. Key(c)' = k /\ spoilt \subseteq spoilt' /\ (k \notin spoilt' => Fresh(k, q.arch))
    BY <1>2, <1>4 DEF Key
  <1>6. Fresh(k, q.arch) =>
          k \notin DOMAIN created /\ \A d \in Clients : (Creating(d) => Key(d) # k) /\ ~Dropping(d, k)
    BY DEF Fresh, Busy
  <1> HIDE DEF q, k
  <1>7. Alone(c)'
    <2> SUFFICES ASSUME Mine(c)', NEW d \in Clients
                 PROVE  /\ k \notin DOMAIN created'
                        /\ Creating(d)' /\ d # c => Key(d)' # k
                        /\ ~(At(d, "dropData")' /\ k = <<call'[d].m, call'[d].upto>>)
      BY <1>5 DEF Alone, Dropping
    <2>1. k \notin DOMAIN created /\ (Creating(d) => Key(d) # k) /\ ~Dropping(d, k)
      BY <1>5, <1>6 DEF Mine
    <2>2. CASE d = c
      BY <1>2, <1>4, <2>1, <2>2 DEF At
    <2>3. CASE d # c
      BY <1>4, <2>1, <2>3 DEF At, Creating, Key, Dropping
    <2>4. QED
      BY <2>2, <2>3
  <1>8. Filed(c)' /\ Gone(c)'
    BY <1>2, <1>4 DEF Filed, Gone, At
  <1>9. ArchivedSurvives'
    BY <1>5 DEF Inv, ArchivedSurvives
  <1>10. \A d \in Clients \ {c} : Mine(d) /\ Key(d) \notin spoilt' => <<r.m, r.n>> # Key(d)
    <2>1. <<r.m, r.n>> = k
      BY <1>2 DEF k, q
    <2>2. QED
      BY <1>5, <1>6, <2>1 DEF Mine
  <1>11. r.pc # "dropData"
    BY <1>2
  <1>12. QED
    BY <1>3, <1>5, <1>7, <1>8, <1>9, <1>10, <1>11, ClientStep

\* A call learns which version is meant: a creation takes its number, others read on.
LEMMA WithLatestStep ==
  ASSUME Inv, NEW c \in Clients, NEW last, WithLatest(c, last),
         call[c].pc \in {"resolve", "resolveCached"}, UNCHANGED <<infoFile, dataFile, created>>
  PROVE  Inv'
  <1> DEFINE q == call[c]
  <1> HIDE DEF q
  <1>1. IsCall(q) /\ Placed(q) /\ q.m \in UsedBy[c] /\ q.pc # "idle"
    BY AtWork DEF q
  <1>2. ASSUME NEW n, NEW u, NEW p, q.op # "create",
               p \notin ToFiles \cup {"cache", "dropData"}
        PROVE  /\ Good(c, [q EXCEPT !.n = n, !.pc = p]) /\ Quiet([q EXCEPT !.n = n, !.pc = p])
               /\ Good(c, [q EXCEPT !.n = n, !.upto = u, !.pc = p])
               /\ Quiet([q EXCEPT !.n = n, !.upto = u, !.pc = p])
    BY <1>1, <1>2 DEF IsCall, Fields, Good, Quiet, Placed, Filing, Before, ToFiles
  <1>3. CASE q.op = "create"
    <2> DEFINE n == Resolved(call[c].arg, last)
               k == <<call[c].m, n + 1>>
               r == [call[c] EXCEPT !.n = n + 1, !.pc = IF call[c].arch THEN "findInfo" ELSE "cache"]
    <2>1. /\ spoilt' = IF Fresh(k, call[c].arch) THEN spoilt ELSE spoilt \cup {k}
          /\ Step(c, r)
      BY <1>3 DEF WithLatest, q
    <2>2. QED
      BY <1>3, <2>1, TakesNumber DEF q
  <1>4. CASE q.op # "create"
    <2>1. \/ \E n, u, p : /\ p \in {"next", "dropInfo", "lookup"}
                          /\ \/ Step(c, [q EXCEPT !.n = n, !.pc = p])
                             \/ Step(c, [q EXCEPT !.n = n, !.upto = u, !.pc = p])
          \/ Step(c, Goto(c, "sleep")) \/ Step(c, Reply(c, FALSE))
      BY <1>4 DEF WithLatest, q
    <2>2. spoilt' = spoilt
      BY <1>4 DEF WithLatest, q
    <2>3. CASE Step(c, Goto(c, "sleep"))
      BY <1>1, <1>4, <2>2, <2>3, GotoQuiet, QuietStep DEF q, ToFiles
    <2>4. CASE Step(c, Reply(c, FALSE))
      BY <1>1, <2>2, <2>4, ReplyQuiet, QuietStep DEF q
    <2>5. ASSUME NEW n, NEW u, NEW p, p \in {"next", "dropInfo", "lookup"},
                 \/ Step(c, [q EXCEPT !.n = n, !.pc = p])
                 \/ Step(c, [q EXCEPT !.n = n, !.upto = u, !.pc = p])
          PROVE  Inv'
      <3>1. p \notin ToFiles \cup {"cache", "dropData"}
        BY <2>5 DEF ToFiles
      <3>2. QED
        BY <1>2, <1>4, <2>2, <2>5, <3>1, QuietStep
    <2>6. QED
      BY <2>1, <2>3, <2>4, <2>5
  <1>5. QED
    BY <1>3, <1>4

LEMMA ResolveSteps ==
  ASSUME Inv, NEW c \in Clients, Resolve(c) \/ ResolveArchive(c) \/ ResolveCached(c)
  PROVE  Inv'
  <1>1. UNCHANGED <<infoFile, dataFile, created>>
        /\ call[c].pc \in {"resolve", "resolveArchive", "resolveCached"}
    BY DEF Resolve, ResolveArchive, ResolveCached, At, archiveVars, histVars
  <1>2. CASE Resolve(c)
    <2>1. /\ call[c].pc = "resolve"
          /\ \/ \E last : WithLatest(c, last)
             \/ Step(c, Goto(c, "resolveArchive")) /\ UNCHANGED spoilt
      BY <1>2 DEF Resolve, At
    <2>2. QED
      BY <1>1, <2>1, WithLatestStep, GotoQuiet, QuietStep DEF Before
  <1>3. CASE ResolveArchive(c)
    <2> DEFINE q == call[c]
    <2> HIDE DEF q
    <2>1. IsCall(q) /\ Placed(q) /\ q.m \in UsedBy[c]
      BY <1>1, AtWork DEF q
    <2>2. ASSUME NEW u
          PROVE  LET r == [q EXCEPT !.upto = u, !.pc = "resolveCached"] IN Good(c, r) /\ Quiet(r)
      BY <2>1 DEF IsCall, Fields, Good, Quiet, Placed, Filing, Before, ToFiles
    <2>3. \/ Step(c, Reply(c, FALSE))
          \/ \E u : Step(c, [q EXCEPT !.upto = u, !.pc = "resolveCached"])
      BY <1>3 DEF ResolveArchive, q
    <2>4. spoilt' = spoilt
      BY <1>3 DEF ResolveArchive, histVars
    <2>5. QED
      BY <1>1, <2>2, <2>3, <2>4, ReplyQuiet, QuietStep
  <1>4. CASE ResolveCached(c)
    <2>1. call[c].pc = "resolveCached" /\ \E last : WithLatest(c, last)
      BY <1>4 DEF ResolveCached, At
    <2>2. QED
      BY <1>1, <2>1, WithLatestStep
  <1>5. QED
    BY <1>2, <1>3, <1>4

\* A version was read, or not: nothing of it concerns a creation.
LEMMA FoundQuiet ==
  ASSUME Inv, NEW c \in Clients, call[c].pc # "idle", call[c].op # "create", NEW n
  PROVE  /\ Good(c, Found(c, n)) /\ Quiet(Found(c, n))
         /\ Found(c, n).op # "create"
         /\ Good(c, NotFound(c)) /\ Quiet(NotFound(c))
         /\ \A d, h : LET r == [Found(c, n) EXCEPT !.data = d, !.hash = h] IN Good(c, r) /\ Quiet(r)
  <1> DEFINE q == call[c]
  <1> HIDE DEF q
  <1>1. IsCall(q) /\ Placed(q) /\ q.m \in UsedBy[c]
    BY AtWork DEF q
  <1>2. ASSUME NEW r, IsCall(r), r.op # "create", r.m \in UsedBy[c],
               r.pc \in {"next", "tell", "replied"}
        PROVE  /\ Good(c, r) /\ Quiet(r)
               /\ \A d, h : LET s == [r EXCEPT !.data = d, !.hash = h] IN Good(c, s) /\ Quiet(s)
    <2>1. Good(c, r) /\ Quiet(r)
      BY <1>2 DEF Good, Quiet, Placed, Filing, ToFiles
    <2>2. ASSUME NEW d, NEW h
          PROVE  LET s == [r EXCEPT !.data = d, !.hash = h] IN Good(c, s) /\ Quiet(s)
      <3> DEFINE s == [r EXCEPT !.data = d, !.hash = h]
      <3>1. IsCall(s) /\ s.op = r.op /\ s.m = r.m /\ s.pc = r.pc
        BY <1>2 DEF IsCall, Fields
      <3> HIDE DEF s
      <3>2. Good(c, s) /\ Quiet(s)
        BY <1>2, <3>1 DEF Good, Quiet, Placed, Filing, ToFiles
      <3>3. QED
        BY <3>2 DEF s
    <2>3. QED
      BY <2>1, <2>2
  <1>3. /\ IsCall(Found(c, n)) /\ Found(c, n).op = q.op /\ Found(c, n).m = q.m
        /\ Found(c, n).pc \in {"next", "tell", "replied"}
    <2>1. /\ IsCall([q EXCEPT !.out = Append(q.out, n), !.n = q.n + 1, !.pc = "next"])
          /\ [q EXCEPT !.out = Append(q.out, n), !.n = q.n + 1, !.pc = "next"].op = q.op
          /\ [q EXCEPT !.out = Append(q.out, n), !.n = q.n + 1, !.pc = "next"].m = q.m
          /\ [q EXCEPT !.out = Append(q.out, n), !.n = q.n + 1, !.pc = "next"].pc = "next"
      BY <1>1 DEF IsCall, Fields
    <2>2. LET r == [Goto(c, "tell") EXCEPT !.told = n] IN
          IsCall(r) /\ r.pc = "tell" /\ r.op = q.op /\ r.m = q.m
      BY <1>1 DEF IsCall, Fields, Goto, q
    <2>3. LET r == [Reply(c, TRUE) EXCEPT !.told = n] IN
          IsCall(r) /\ r.pc = "replied" /\ r.op = q.op /\ r.m = q.m
      BY <1>1 DEF IsCall, Fields, Reply, q
    <2>4. Found(c, n) \in {[q EXCEPT !.out = Append(q.out, n), !.n = q.n + 1, !.pc = "next"],
                           [Goto(c, "tell") EXCEPT !.told = n], [Reply(c, TRUE) EXCEPT !.told = n]}
      BY DEF Found, q
    <2>5. QED
      BY <2>1, <2>2, <2>3, <2>4
  <1>4. /\ IsCall(NotFound(c)) /\ NotFound(c).op = q.op /\ NotFound(c).m = q.m
        /\ NotFound(c).pc \in {"next", "replied"}
    <2>1. LET r == [q EXCEPT !.n = q.n + 1, !.pc = "next"] IN
          IsCall(r) /\ r.pc = "next" /\ r.op = q.op /\ r.m = q.m
      BY <1>1 DEF IsCall, Fields
    <2>2. IsCall(Reply(c, FALSE)) /\ Reply(c, FALSE).pc = "replied"
          /\ Reply(c, FALSE).op = q.op /\ Reply(c, FALSE).m = q.m
      BY <1>1 DEF IsCall, Fields, Reply, q
    <2>3. NotFound(c) \in {[q EXCEPT !.n = q.n + 1, !.pc = "next"], Reply(c, FALSE)}
      BY DEF NotFound, q
    <2>4. QED
      BY <2>1, <2>2, <2>3
  <1>5. QED
    BY <1>1, <1>2, <1>3, <1>4 DEF q

LEMMA ReadSteps ==
  ASSUME Inv, NEW c \in Clients, NextListed(c) \/ Lookup(c) \/ ReadArchive(c) \/ ReadInfo(c)
  PROVE  Inv'
  <1> DEFINE q == call[c]
  <1> HIDE DEF q
  <1>1. /\ UNCHANGED <<infoFile, dataFile, created, spoilt>> /\ call[c].pc # "idle"
        /\ call[c].pc \in {"next", "lookup", "readArchive", "readInfo"}
    BY DEF NextListed, Lookup, ReadArchive, ReadInfo, At, archiveVars, histVars
  <1>2. IsCall(q) /\ Placed(q) /\ q.m \in UsedBy[c] /\ q.op # "create" /\ call[c].op # "create"
    BY <1>1, AtWork DEF q, Placed, Before, Filing, ToFiles
  <1>3. CASE NextListed(c)
    <2>1. Step(c, Reply(c, TRUE)) \/ Step(c, Goto(c, "lookup"))
      BY <1>3 DEF NextListed
    <2>2. QED
      BY <1>1, <1>2, <2>1, ReplyQuiet, GotoQuiet, QuietStep DEF ToFiles
  <1>4. CASE Lookup(c)
    <2>1. \/ Step(c, Goto(c, "readArchive"))
          \/ \E n, d, h : Step(c, [Found(c, n) EXCEPT !.data = d, !.hash = h])
      BY <1>4 DEF Lookup
    <2>2. QED
      BY <1>1, <1>2, <2>1, FoundQuiet, GotoQuiet, QuietStep DEF ToFiles
  <1>5. CASE ReadArchive(c)
    <2>1. ASSUME NEW d, NEW n, NEW u
          PROVE  LET r == [q EXCEPT !.data = d, !.n = n, !.pc = "readInfo"]
                     s == [q EXCEPT !.hash = d, !.n = n, !.told = u, !.pc = "bump"]
                 IN  Good(c, r) /\ Quiet(r) /\ Good(c, s) /\ Quiet(s)
      BY <1>2 DEF IsCall, Fields, Good, Quiet, Placed, Filing, ToFiles
    <2>2. \/ \E d, n : Step(c, [q EXCEPT !.data = d, !.n = n, !.pc = "readInfo"])
          \/ \E d, n, u : Step(c, [q EXCEPT !.hash = d, !.n = n, !.told = u, !.pc = "bump"])
          \/ Step(c, NotFound(c))
      BY <1>5 DEF ReadArchive, q
    <2>3. QED
      BY <1>1, <1>2, <2>1, <2>2, FoundQuiet, QuietStep
  <1>6. CASE ReadInfo(c)
    <2>1. ASSUME NEW h, NEW u
          PROVE  LET r == [q EXCEPT !.hash = h, !.told = u, !.pc = "bump"] IN Good(c, r) /\ Quiet(r)
      BY <1>2 DEF IsCall, Fields, Good, Quiet, Placed, Filing, ToFiles
    <2>2. \/ \E h, u : Step(c, [q EXCEPT !.hash = h, !.told = u, !.pc = "bump"])
          \/ Step(c, Reply(c, TRUE))
      BY <1>6 DEF ReadInfo, q
    <2>3. QED
      BY <1>1, <2>1, <2>2, ReplyQuiet, QuietStep
  <1>7. QED
    BY <1>3, <1>4, <1>5, <1>6

\* The cache, the models and the watchers are not the files of a version.
LEMMA OtherSteps ==
  ASSUME Inv, NEW c \in Clients,
         \/ MakeDir(c) \/ WriteModelInfo(c) \/ ListModels(c) \/ ForgetLatest(c)
         \/ ForgetVersions(c) \/ DropCached(c) \/ DropLatest(c)
         \/ HasModel(c) \/ Tell(c) \/ Sleep(c) \/ Awake(c)
  PROVE  Inv'
  <1> DEFINE q == call[c]
  <1> HIDE DEF q
  <1>1. /\ UNCHANGED <<infoFile, dataFile, created, spoilt>>
        /\ call[c].pc \in {"mkdir", "writeModel", "models", "forgetLatest", "forgetVersions",
                           "dropCached", "dropLatest", "hasModel", "tell", "sleep", "awake"}
    BY DEF MakeDir, WriteModelInfo, ListModels, ForgetLatest, ForgetVersions, DropCached,
           DropLatest, HasModel, Tell, Sleep, Awake, At, archiveVars, histVars
  <1>2. call[c].pc # "idle" /\ call[c].op # "create"
    BY <1>1, AtWork DEF Placed, Before, Filing, ToFiles
  <1>3. \/ \E ok : Step(c, Reply(c, ok))
        \/ \E p \in {"writeModel", "forgetVersions", "forgetLatest", "dropLatest", "resolve",
                     "sleep", "asleep"} : Step(c, Goto(c, p))
        \/ \E l : Step(c, [Goto(c, "sleep") EXCEPT !.last = l])
    BY DEF MakeDir, WriteModelInfo, ListModels, ForgetLatest, ForgetVersions, DropCached,
           DropLatest, HasModel, Tell, Sleep, Awake
  <1>4. ASSUME NEW p \in {"writeModel", "forgetVersions", "forgetLatest", "dropLatest", "resolve",
                          "sleep", "asleep"}, Step(c, Goto(c, p))
        PROVE  Inv'
    BY <1>1, <1>2, <1>4, GotoQuiet, QuietStep DEF ToFiles
  <1>5. ASSUME NEW l, Step(c, [Goto(c, "sleep") EXCEPT !.last = l])
        PROVE  Inv'
    <2>1. IsCall(q) /\ q.m \in UsedBy[c] /\ q.op # "create"
      BY <1>2, AtWork DEF q
    <2>2. LET r == [Goto(c, "sleep") EXCEPT !.last = l] IN Good(c, r) /\ Quiet(r)
      BY <2>1 DEF Goto, IsCall, Fields, Good, Quiet, Placed, Filing, ToFiles, q
    <2>3. QED
      BY <1>1, <1>5, <2>2, QuietStep
  <1>6. QED
    BY <1>1, <1>2, <1>3, <1>4, <1>5, ReplyQuiet, QuietStep

-----------------------------------------------------------------------------
(* The steps that change files, and what clients are told                  *)

\* A creation goes on with its version, or with none (0), or ends, and changes no file
\* but those of its version.
LEMMA CreationStep ==
  ASSUME Inv, NEW c \in Clients, Creating(c), NEW r, Good(c, r), Step(c, r),
         Quiet(r) \/ (Creating(c) /\ r.op = "create" /\ r.m = call[c].m /\ r.n \in {call[c].n, 0}
                      /\ r.pc \in Filing),
         UNCHANGED <<created, spoilt>>,
         \A k : k # Key(c) =>
           /\ \A v : InFile(infoFile, k, v) => InFile(infoFile', k, v)
           /\ \A v : InFile(dataFile, k, v) => InFile(dataFile', k, v),
         Filed(c)'
  PROVE  Inv'
  <1>1. call'[c] = r /\ \A d \in Clients \ {c} : call'[d] = call[d]
    BY StepCalls
  <1>2. r.pc # "dropData"
    BY DEF Quiet, Filing
  <1>3. Mine(c)' => Mine(c) /\ Key(c)' = Key(c)
    BY <1>1 DEF Mine, Creating, Key, Quiet
  <1>4. Alone(c)'
    <2> SUFFICES ASSUME Mine(c)', NEW d \in Clients
                 PROVE  /\ Key(c) \notin DOMAIN created
                        /\ Creating(d)' /\ d # c => Key(d)' # Key(c)
                        /\ ~(At(d, "dropData")' /\ Key(c) = <<call'[d].m, call'[d].upto>>)
      BY <1>3 DEF Alone, Dropping
    <2>1. Alone(c) /\ Mine(c)
      BY <1>3 DEF Inv
    <2>2. CASE d = c
      BY <1>1, <1>2, <2>1, <2>2 DEF Alone, At
    <2>3. CASE d # c
      BY <1>1, <2>1, <2>3 DEF Alone, At, Creating, Key, Dropping
    <2>4. QED
      BY <2>2, <2>3
  <1>5. Gone(c)'
    BY <1>1, <1>2 DEF Gone, At
  <1>6. \A k \in DOMAIN created \ spoilt : k # Key(c)
    BY DEF Inv, Alone, Mine, Numbered, Key
  <1>7. ArchivedSurvives'
    BY <1>6, Survives, SurvivesNext DEF Inv
  <1>8. ASSUME NEW d \in Clients \ {c}, Mine(d)
        PROVE  /\ Key(d) # Key(c)
               /\ r.op = "create" /\ r.pc \in Filing => <<r.m, r.n>> # Key(d)
    <2>1. Key(c) # Key(d)
      BY <1>8 DEF Inv, Alone
    <2>2. call[d].n # 0
      BY <1>8 DEF Mine
    <2>3. QED
      BY <2>1, <2>2 DEF Key, Quiet
  <1>9. QED
    BY <1>2, <1>4, <1>5, <1>7, <1>8, <1>3, ClientStep

\* A creation at its files.
LEMMA AtFiles ==
  ASSUME Inv, NEW c \in Clients, call[c].pc \in ToFiles \cup {"cache"}
  PROVE  /\ Creating(c) /\ IsCall(call[c]) /\ Placed(call[c]) /\ call[c].m \in UsedBy[c]
         /\ call[c].hash = call[c].data /\ (call[c].pc # "cache" => call[c].arch)
  <1>1. call[c].pc # "idle" /\ call[c].pc \in Filing
    BY DEF ToFiles, Filing
  <1>2. IsCall(call[c]) /\ Placed(call[c]) /\ call[c].m \in UsedBy[c]
    BY <1>1, AtWork
  <1>3. QED
    BY <1>1, <1>2 DEF Placed, Creating

\* The call after a step of the creation that goes on.
LEMMA GoesOn ==
  ASSUME Inv, NEW c \in Clients, call[c].pc \in ToFiles \cup {"cache"},
         NEW p \in (ToFiles \ {"findInfo"}) \cup {"cache"}, call[c].arch, Step(c, Goto(c, p))
  PROVE  LET r == Goto(c, p) IN
         /\ Good(c, r) /\ r.op = "create" /\ r.m = call[c].m /\ r.n = call[c].n /\ r.pc = p
         /\ p \in Filing /\ call'[c] = r /\ Key(c)' = Key(c)
         /\ call'[c].data = call[c].data
  <1> DEFINE r == Goto(c, p)
  <1>1. call[c].pc # "idle"
    BY DEF ToFiles
  <1> HIDE DEF r
  <1>2. /\ IsCall(r) /\ r.pc = p /\ r.op = call[c].op /\ r.m = call[c].m /\ r.n = call[c].n
        /\ r.data = call[c].data /\ r.hash = call[c].hash /\ r.arch = call[c].arch
    BY <1>1, GotoIs DEF r
  <1>3. call[c].op = "create" /\ call[c].m \in UsedBy[c] /\ call[c].hash = call[c].data /\ p \in Filing
    BY AtFiles DEF Creating, Filing, ToFiles
  <1>4. Good(c, r)
    BY <1>2, <1>3 DEF Good, Placed
  <1>5. call'[c] = r
    BY <1>4, StepCalls DEF r
  <1>6. QED
    BY <1>2, <1>3, <1>4, <1>5 DEF Key, r

LEMMA FindInfoStep ==
  ASSUME Inv, NEW c \in Clients, FindInfo(c)
  PROVE  Inv'
  <1>1. /\ call[c].pc = "findInfo" /\ UNCHANGED <<infoFile, dataFile, created, spoilt>>
        /\ \/ Step(c, [call[c] EXCEPT !.n = 0, !.pc = "cache"]) \/ Step(c, Goto(c, "openInfo"))
    BY DEF FindInfo, At, archiveVars, histVars
  <1>2. /\ Creating(c) /\ IsCall(call[c]) /\ Placed(call[c]) /\ call[c].m \in UsedBy[c]
        /\ call[c].hash = call[c].data /\ call[c].arch
    BY <1>1, AtFiles DEF ToFiles
  <1>3. CASE Step(c, Goto(c, "openInfo"))
    <2> DEFINE r == Goto(c, "openInfo")
    <2>1. /\ Good(c, r) /\ r.op = "create" /\ r.m = call[c].m /\ r.n = call[c].n
          /\ r.pc = "openInfo" /\ r.pc \in Filing /\ call'[c] = r
      BY <1>1, <1>2, <1>3, GoesOn DEF ToFiles
    <2> HIDE DEF r
    <2>2. Filed(c)'
      BY <2>1 DEF Filed
    <2>3. QED
      BY <1>1, <1>2, <1>3, <2>1, <2>2, CreationStep DEF r
  <1>4. CASE Step(c, [call[c] EXCEPT !.n = 0, !.pc = "cache"])
    <2> DEFINE q == call[c]
               r == [q EXCEPT !.n = 0, !.pc = "cache"]
    <2>1. /\ IsCall(r) /\ r.op = q.op /\ r.m = q.m /\ r.n = 0 /\ r.pc = "cache"
          /\ r.hash = q.hash /\ r.data = q.data
      <3> HIDE DEF q
      <3>1. IsCall(q)
        BY <1>2 DEF q
      <3>2. QED
        BY <3>1 DEF IsCall, Fields
    <2> HIDE DEF r
    <2>2. Good(c, r) /\ r.op = "create" /\ r.pc \in Filing
      BY <1>2, <2>1 DEF Good, Placed, Filing, ToFiles, Creating
    <2>3. call'[c] = r
      BY <1>4, <2>2, StepCalls DEF r
    <2>4. Filed(c)'
      BY <2>1, <2>3 DEF Filed, Mine
    <2>5. QED
      BY <1>1, <1>2, <1>4, <2>1, <2>2, <2>4, CreationStep DEF r
  <1>5. QED
    BY <1>1, <1>3, <1>4

LEMMA OpenInfoStep ==
  ASSUME Inv, NEW c \in Clients, OpenInfo(c)
  PROVE  Inv'
  <1> DEFINE r == Goto(c, "writeInfo")
  <1>1. /\ call[c].pc = "openInfo" /\ UNCHANGED <<dataFile, created, spoilt>> /\ Step(c, r)
        /\ \/ infoFile' = Put(infoFile, Key(c), Torn)
           \/ infoFile' = infoFile /\ Key(c) \in DOMAIN infoFile
    BY DEF OpenInfo, At, histVars
  <1>2. Creating(c) /\ call[c].arch
    BY <1>1, AtFiles DEF ToFiles
  <1>3. /\ Good(c, r) /\ r.op = "create" /\ r.m = call[c].m /\ r.n = call[c].n
        /\ r.pc = "writeInfo" /\ r.pc \in Filing /\ call'[c] = r /\ Key(c)' = Key(c)
    BY <1>1, <1>2, GoesOn DEF ToFiles
  <1> HIDE DEF r
  <1>4. /\ \E v : InFile(infoFile', Key(c), v)
        /\ \A k : k # Key(c) => \A v : InFile(infoFile, k, v) => InFile(infoFile', k, v)
    <2>1. CASE infoFile' = Put(infoFile, Key(c), Torn)
      BY <2>1, PutIs
    <2>2. CASE infoFile' = infoFile /\ Key(c) \in DOMAIN infoFile
      BY <2>2 DEF InFile
    <2>3. QED
      BY <1>1, <2>1, <2>2
  <1>5. Filed(c)'
    BY <1>3, <1>4 DEF Filed
  <1>6. QED
    BY <1>1, <1>2, <1>3, <1>4, <1>5, CreationStep

LEMMA WriteInfoStep ==
  ASSUME Inv, NEW c \in Clients, WriteInfo(c)
  PROVE  Inv'
  <1> DEFINE r == Goto(c, "openData")
  <1>1. /\ call[c].pc = "writeInfo" /\ UNCHANGED <<dataFile, created, spoilt>> /\ Step(c, r)
        /\ infoFile' = IF Key(c) \in DOMAIN infoFile THEN Put(infoFile, Key(c), call[c].hash)
                       ELSE infoFile
    BY DEF WriteInfo, At, histVars
  <1>2. Creating(c) /\ call[c].arch /\ call[c].hash = call[c].data
    BY <1>1, AtFiles DEF ToFiles
  <1>3. /\ Good(c, r) /\ r.op = "create" /\ r.m = call[c].m /\ r.n = call[c].n
        /\ r.pc = "openData" /\ r.pc \in Filing /\ call'[c] = r /\ Key(c)' = Key(c)
        /\ call'[c].data = call[c].data
    BY <1>1, <1>2, GoesOn DEF ToFiles
  <1> HIDE DEF r
  <1>4. \A k : k # Key(c) => \A v : InFile(infoFile, k, v) => InFile(infoFile', k, v)
    BY <1>1, PutIs
  <1>5. Mine(c)' => InFile(infoFile', Key(c), call[c].data)
    <2>1. Mine(c)' => Mine(c)
      BY <1>1, <1>2, <1>3 DEF Mine, Key
    <2>2. Mine(c) => Key(c) \in DOMAIN infoFile
      BY <1>1, <1>2 DEF Inv, Filed, InFile
    <2>3. QED
      BY <1>1, <1>2, <2>1, <2>2, PutIs
  <1>6. Filed(c)'
    BY <1>3, <1>5 DEF Filed
  <1>7. QED
    BY <1>1, <1>2, <1>3, <1>4, <1>6, CreationStep

LEMMA OpenDataStep ==
  ASSUME Inv, NEW c \in Clients, OpenData(c)
  PROVE  Inv'
  <1> DEFINE r == Goto(c, "writeData")
  <1>1. /\ call[c].pc = "openData" /\ UNCHANGED <<infoFile, created, spoilt>> /\ Step(c, r)
        /\ dataFile' = Put(dataFile, Key(c), Torn)
    BY DEF OpenData, At, histVars
  <1>2. Creating(c) /\ call[c].arch
    BY <1>1, AtFiles DEF ToFiles
  <1>3. /\ Good(c, r) /\ r.op = "create" /\ r.m = call[c].m /\ r.n = call[c].n
        /\ r.pc = "writeData" /\ r.pc \in Filing /\ call'[c] = r /\ Key(c)' = Key(c)
        /\ call'[c].data = call[c].data
    BY <1>1, <1>2, GoesOn DEF ToFiles
  <1> HIDE DEF r
  <1>4. /\ \E v : InFile(dataFile', Key(c), v)
        /\ \A k : k # Key(c) => \A v : InFile(dataFile, k, v) => InFile(dataFile', k, v)
    BY <1>1, PutIs
  <1>5. Mine(c)' => InFile(infoFile', Key(c), call[c].data)
    <2>1. Mine(c)' => Mine(c) /\ call[c].arch
      BY <1>1, <1>2, <1>3 DEF Mine, Key
    <2>2. QED
      BY <1>1, <2>1 DEF Inv, Filed
  <1>6. Filed(c)'
    BY <1>3, <1>4, <1>5 DEF Filed
  <1>7. QED
    BY <1>1, <1>2, <1>3, <1>4, <1>6, CreationStep

LEMMA WriteDataStep ==
  ASSUME Inv, NEW c \in Clients, WriteData(c)
  PROVE  Inv'
  <1> DEFINE r == Goto(c, "cache")
  <1>1. /\ call[c].pc = "writeData" /\ UNCHANGED <<infoFile, created, spoilt>> /\ Step(c, r)
        /\ dataFile' = IF Key(c) \in DOMAIN dataFile THEN Put(dataFile, Key(c), call[c].data)
                       ELSE dataFile
    BY DEF WriteData, At, histVars
  <1>2. Creating(c) /\ call[c].arch
    BY <1>1, AtFiles DEF ToFiles
  <1>3. /\ Good(c, r) /\ r.op = "create" /\ r.m = call[c].m /\ r.n = call[c].n
        /\ r.pc = "cache" /\ r.pc \in Filing /\ call'[c] = r /\ Key(c)' = Key(c)
        /\ call'[c].data = call[c].data
    BY <1>1, <1>2, GoesOn DEF ToFiles
  <1> HIDE DEF r
  <1>4. \A k : k # Key(c) => \A v : InFile(dataFile, k, v) => InFile(dataFile', k, v)
    BY <1>1, PutIs
  <1>5. Mine(c)' => /\ InFile(infoFile', Key(c), call[c].data)
                    /\ InFile(dataFile', Key(c), call[c].data)
    <2>1. Mine(c)' => Mine(c) /\ call[c].arch
      BY <1>1, <1>2, <1>3 DEF Mine, Key
    <2>2. Mine(c) => Key(c) \in DOMAIN dataFile /\ InFile(infoFile, Key(c), call[c].data)
      BY <1>1, <1>2 DEF Inv, Filed, InFile
    <2>3. QED
      BY <1>1, <2>1, <2>2, PutIs
  <1>6. Filed(c)'
    BY <1>3, <1>5 DEF Filed
  <1>7. QED
    BY <1>1, <1>2, <1>3, <1>4, <1>6, CreationStep

\* What fails leaves its files behind, but nobody is told of them.
LEMMA FailSteps ==
  ASSUME Inv, NEW c \in Clients, InfoFails(c) \/ DataFails(c)
  PROVE  Inv'
  <1>1. /\ call[c].pc \in ToFiles /\ UNCHANGED <<dataFile, created, spoilt>>
        /\ Step(c, Reply(c, FALSE))
        /\ \/ infoFile' = infoFile \/ infoFile' = Put(infoFile, Key(c), Torn)
           \/ infoFile' = Without(infoFile, {Key(c)})
    BY DEF InfoFails, DataFails, At, histVars, ToFiles
  <1>2. Creating(c) /\ call[c].pc # "idle"
    BY <1>1, AtFiles DEF ToFiles
  <1>3. Good(c, Reply(c, FALSE)) /\ Quiet(Reply(c, FALSE))
    BY <1>2, ReplyQuiet
  <1>4. call'[c] = Reply(c, FALSE)
    BY <1>1, <1>3, StepCalls
  <1>5. Filed(c)'
    BY <1>3, <1>4 DEF Quiet, Filed, Mine, Creating
  <1>6. \A k : k # Key(c) => \A v : InFile(infoFile, k, v) => InFile(infoFile', k, v)
    BY <1>1, PutIs, WithoutIs
  <1>7. QED
    BY <1>1, <1>2, <1>3, <1>5, <1>6, CreationStep

\* A creation that goes on with what is filed: to the latest number, to its end.
LEMMA CreationGoesOn ==
  ASSUME Inv, NEW c \in Clients, call[c].pc \in {"cache", "bump"}, call[c].op = "create",
         NEW p \in {"bump", "setLatest"}, NEW t,
         NEW r, r \in {Goto(c, p), [Goto(c, p) EXCEPT !.told = t]}, Step(c, r),
         UNCHANGED <<infoFile, dataFile, created, spoilt>>
  PROVE  Inv'
  <1>1. /\ Creating(c) /\ IsCall(call[c]) /\ Placed(call[c]) /\ call[c].m \in UsedBy[c]
        /\ call[c].hash = call[c].data
    BY AtWork DEF Placed, Creating, Filing
  <1>2. /\ IsCall(r) /\ r.pc = p /\ r.op = "create" /\ r.m = call[c].m /\ r.n = call[c].n
        /\ r.data = call[c].data /\ r.hash = call[c].hash /\ r.arch = call[c].arch
    <2> DEFINE q == call[c]
    <2>1. r \in {[q EXCEPT !.pc = p], [[q EXCEPT !.pc = p] EXCEPT !.told = t]} /\ q.op = "create"
      BY DEF Goto
    <2>2. IsCall(q)
      BY <1>1
    <2> HIDE DEF q
    <2>3. /\ IsCall(r) /\ r.pc = p /\ r.op = q.op /\ r.m = q.m /\ r.n = q.n
          /\ r.data = q.data /\ r.hash = q.hash /\ r.arch = q.arch
      BY <2>1, <2>2 DEF IsCall, Fields
    <2>4. QED
      BY <2>1, <2>3 DEF q
  <1>3. Good(c, r) /\ r.pc \in Filing
    BY <1>1, <1>2 DEF Good, Placed, Filing, ToFiles
  <1>4. call'[c] = r /\ Key(c)' = Key(c)
    BY <1>2, <1>3, StepCalls DEF Key
  <1>5. Filed(c)'
    <2>1. Mine(c)' => Mine(c)
      BY <1>1, <1>2, <1>4 DEF Mine
    <2>2. QED
      BY <1>2, <1>4, <2>1 DEF Inv, Filed
  <1>6. QED
    BY <1>1, <1>2, <1>3, <1>5, CreationStep

LEMMA AddToCacheStep ==
  ASSUME Inv, NEW c \in Clients, AddToCache(c)
  PROVE  Inv'
  <1>1. /\ UNCHANGED <<infoFile, dataFile, created, spoilt>> /\ call[c].pc = "cache"
        /\ Step(c, [Goto(c, "bump") EXCEPT !.told = call[c].n])
    BY DEF AddToCache, At, archiveVars, histVars
  <1>2. call[c].op = "create"
    BY <1>1, AtFiles DEF Creating
  <1>3. QED
    BY <1>1, <1>2, CreationGoesOn

\* A client is told what the files have.
LEMMA BumpedStep ==
  ASSUME Inv, NEW c \in Clients, call[c].pc \in {"bump", "setLatest"}, Bumped(c),
         UNCHANGED <<infoFile, dataFile, spoilt>>
  PROVE  Inv'
  <1>1. CASE call[c].op # "create"
    <2>1. Step(c, Found(c, call[c].told)) /\ UNCHANGED created
      BY <1>1 DEF Bumped
    <2>2. QED
      BY <1>1, <2>1, FoundQuiet, QuietStep
  <1>2. CASE call[c].op = "create"
    <2> DEFINE r == Reply(c, TRUE)
               version == [data |-> call[c].data, arch |-> call[c].arch]
    <2>1. /\ call' = [Wake(c) EXCEPT ![c] = r]
          /\ created' = IF call[c].n = 0 THEN created ELSE Put(created, Key(c), version)
      BY <1>2 DEF Bumped
    <2>2. Good(c, r) /\ Quiet(r)
      BY ReplyQuiet
    <2>3. /\ version.data = call[c].data /\ version.arch = call[c].arch
          /\ call[c].n # 0 => InFile(created', Key(c), version)
          /\ \A k \in DOMAIN created' :
               k # Key(c) \/ call[c].n = 0 => k \in DOMAIN created /\ created'[k] = created[k]
      <3>1. version.data = call[c].data /\ version.arch = call[c].arch
        OBVIOUS
      <3> HIDE DEF version
      <3>2. CASE call[c].n = 0
        BY <2>1, <3>1, <3>2
      <3>3. CASE call[c].n # 0
        <4>1. created' = Put(created, Key(c), version)
          BY <2>1, <3>3
        <4>2. QED
          BY <3>1, <3>3, <4>1 DEF Put, InFile
      <3>4. QED
        BY <3>2, <3>3
    <2>4. Creating(c) /\ (call[c].n # 0 /\ Key(c) \notin spoilt => Mine(c))
      BY <1>2 DEF Creating, Mine, Filing
    <2> HIDE DEF r, version
    <2>5. /\ call'[c] = r /\ call' = [d \in Clients |-> call'[d]]
          /\ \A d \in Clients \ {c} :
               call'[d] = IF At(d, "asleep") THEN Goto(d, "awake") ELSE call[d]
      BY <2>1 DEF Wake
    <2>6. \A d \in Clients : Good(d, call'[d]) /\ (Quiet(call'[d]) \/ (d # c /\ call'[d] = call[d]))
      <3> SUFFICES ASSUME NEW d \in Clients
                   PROVE  Good(d, call'[d]) /\ (Quiet(call'[d]) \/ (d # c /\ call'[d] = call[d]))
        OBVIOUS
      <3>1. CASE d = c
        BY <2>2, <2>5, <3>1
      <3>2. CASE d # c /\ At(d, "asleep")
        <4>1. call[d].op # "create" /\ call[d].pc # "idle"
          BY <3>2, AtWork DEF At, Placed, Before, Filing
        <4>2. Good(d, Goto(d, "awake")) /\ Quiet(Goto(d, "awake"))
          BY <4>1, GotoQuiet DEF ToFiles
        <4>3. QED
          BY <2>5, <3>2, <4>2
      <3>3. CASE d # c /\ ~At(d, "asleep")
        BY <2>5, <3>3 DEF Inv, Calls, Good
      <3>4. QED
        BY <3>1, <3>2, <3>3
    <2>7. Calls'
      BY <2>5, <2>6 DEF Calls, Good
    <2>8. Numbered'
      BY <2>3 DEF Inv, Numbered, Key
    <2>9. ASSUME NEW d \in Clients
          PROVE  Alone(d)' /\ Filed(d)' /\ Gone(d)'
      <3>1. CASE Quiet(call'[d])
        BY <3>1 DEF Quiet, Alone, Filed, Gone, Mine, Creating, At
      <3>2. CASE d # c /\ call'[d] = call[d]
        <4>1. Mine(d)' => Mine(d)
          BY <3>2 DEF Mine, Creating, Key
        <4>2. Key(d)' = Key(d)
          BY <3>2 DEF Key
        <4>3. Alone(d) /\ Filed(d) /\ Gone(d)
          BY DEF Inv
        <4>4. Filed(d)'
          BY <3>2, <4>1, <4>2, <4>3 DEF Filed
        <4>5. Mine(d) => Key(c) # Key(d)
          BY <2>4, <3>2, <4>3 DEF Alone
        <4>6. Alone(d)'
          <5> SUFFICES ASSUME Mine(d)', NEW e \in Clients
                       PROVE  /\ Key(d) \notin DOMAIN created'
                              /\ Creating(e)' /\ e # d => Key(e)' # Key(d)
                              /\ ~(At(e, "dropData")' /\ Key(d) = <<call'[e].m, call'[e].upto>>)
            BY <4>2 DEF Alone, Dropping
          <5>1. Key(d) \notin DOMAIN created'
            BY <2>3, <4>1, <4>3, <4>5 DEF Alone
          <5>2. CASE Quiet(call'[e])
            BY <5>1, <5>2 DEF Quiet, Creating, At
          <5>3. CASE call'[e] = call[e]
            BY <4>1, <4>3, <5>1, <5>3 DEF Alone, Creating, Key, At, Dropping
          <5>4. QED
            BY <2>6, <5>2, <5>3
        <4>7. Gone(d)'
          <5> DEFINE k == <<call[d].m, call[d].upto>>
          <5>1. SUFFICES ASSUME At(d, "dropData"), k \notin spoilt
                         PROVE  k \notin DOMAIN created'
            BY <3>2 DEF Gone, At
          <5>2. k \notin DOMAIN created
            BY <4>3, <5>1 DEF Gone
          <5>3. k = Key(c) /\ call[c].n # 0 => Dropping(d, Key(c)) /\ Mine(c)
            BY <2>4, <5>1 DEF Dropping
          <5>4. k # Key(c) \/ call[c].n = 0
            BY <5>3 DEF Inv, Alone
          <5>5. QED
            BY <2>3, <5>2, <5>4
        <4>8. QED
          BY <4>4, <4>6, <4>7
      <3>3. QED
        BY <2>6, <3>1, <3>2
    <2>10. ArchivedSurvives'
      <3>1. ASSUME NEW k \in DOMAIN created' \ spoilt', created'[k].arch
            PROVE  InFile(infoFile', k, created'[k].data) /\ InFile(dataFile', k, created'[k].data)
        <4>1. CASE k = Key(c) /\ call[c].n # 0
          <5>1. created'[k] = version /\ call[c].arch /\ Mine(c)
            BY <2>3, <2>4, <3>1, <4>1 DEF InFile
          <5>2. InFile(infoFile, Key(c), call[c].data) /\ InFile(dataFile, Key(c), call[c].data)
            BY <5>1 DEF Inv, Filed
          <5>3. QED
            BY <2>3, <4>1, <5>1, <5>2
        <4>2. CASE k # Key(c) \/ call[c].n = 0
          <5>1. k \in DOMAIN created /\ created'[k] = created[k]
            BY <2>3, <4>2
          <5>2. QED
            BY <3>1, <5>1, Survives DEF Inv
        <4>3. QED
          BY <4>1, <4>2
      <3>2. QED
        BY <3>1, SurvivesNext
    <2>11. QED
      BY <2>7, <2>8, <2>9, <2>10 DEF Inv
  <1>3. QED
    BY <1>1, <1>2

LEMMA BumpSteps ==
  ASSUME Inv, NEW c \in Clients, Bump(c) \/ SetLatest(c)
  PROVE  Inv'
  <1>1. call[c].pc \in {"bump", "setLatest"} /\ UNCHANGED <<infoFile, dataFile, spoilt>>
    BY DEF Bump, SetLatest, At, archiveVars
  <1>2. CASE Bumped(c)
    BY <1>1, <1>2, BumpedStep
  <1>3. CASE Step(c, Goto(c, "setLatest")) /\ UNCHANGED created /\ call[c].pc = "bump"
    <2>1. CASE call[c].op = "create"
      BY <1>1, <1>3, <2>1, CreationGoesOn
    <2>2. CASE call[c].op # "create"
      BY <1>1, <1>3, <2>2, GotoQuiet, QuietStep DEF ToFiles
    <2>3. QED
      BY <2>1, <2>2
  <1>4. QED
    BY <1>2, <1>3 DEF Bump, SetLatest, At

\* Files go, and what was created of them is promised no more; a creation under way of
\* one of them finds its number spoilt.
LEMMA RemovalStep ==
  ASSUME Inv, NEW c \in Clients, NEW r, Good(c, r), Step(c, r), ~Creating(c),
         ~(r.op = "create" /\ r.pc \in Filing),
         NEW I, NEW K, I \subseteq K,
         infoFile' = Without(infoFile, I), dataFile' \in {dataFile, Without(dataFile, K)},
         created' = Without(created, K), spoilt' = spoilt \cup (Busy \cap K),
         r.pc = "dropData" => <<r.m, r.upto>> \in K
  PROVE  Inv'
  <1>1. call'[c] = r
    BY StepCalls
  <1>2. /\ \A k, v : k \notin K => (InFile(infoFile, k, v) => InFile(infoFile', k, v))
        /\ \A k, v : k \notin K => (InFile(dataFile, k, v) => InFile(dataFile', k, v))
    <2>1. \A k, v : k \notin K => (InFile(infoFile, k, v) => InFile(infoFile', k, v))
      <3>1. \A k : k \notin K => k \notin I
        OBVIOUS
      <3>2. QED
        BY <3>1, WithoutIs
    <2>2. CASE dataFile' = dataFile
      BY <2>1, <2>2 DEF InFile
    <2>3. CASE dataFile' = Without(dataFile, K)
      <3>1. \A k, v : k \notin K => (InFile(dataFile, k, v) => InFile(dataFile', k, v))
        BY <2>3, WithoutIs
      <3>2. QED
        BY <2>1, <3>1
    <2>4. QED
      BY <2>2, <2>3
  <1>3. DOMAIN created' = DOMAIN created \ K /\ \A k \in DOMAIN created' : created'[k] = created[k]
    BY WithoutIs
  <1>4. Alone(c)' /\ Filed(c)'
    BY <1>1 DEF Alone, Filed, Mine, Creating
  <1>5. Gone(c)'
    BY <1>1, <1>3 DEF Gone, At
  <1>6. ArchivedSurvives'
    BY <1>2, <1>3, Survives, SurvivesNext DEF Inv
  <1>7. ASSUME NEW d \in Clients, Mine(d), Key(d) \notin spoilt'
        PROVE  Key(d) \notin K
    BY <1>7 DEF Busy, Mine
  <1>8. QED
    BY <1>2, <1>3, <1>4, <1>5, <1>6, <1>7, ClientStep

LEMMA RemoveAllStep ==
  ASSUME Inv, NEW c \in Clients, RemoveAll(c)
  PROVE  Inv'
  <1> DEFINE K == Keys(call[c].m)
             r == Goto(c, "forgetLatest")
  <1>1. call[c].pc = "removeAll"
    BY DEF RemoveAll, At
  <1>2. call[c].op # "create"
    BY <1>1, AtWork DEF Placed, Before, Filing
  <1>3. CASE Step(c, Reply(c, FALSE)) /\ UNCHANGED <<infoFile, dataFile, created, spoilt>>
    BY <1>1, <1>3, ReplyQuiet, QuietStep
  <1>4. CASE /\ infoFile' = Without(infoFile, K) /\ dataFile' = Without(dataFile, K)
             /\ created' = Without(created, K) /\ spoilt' = spoilt \cup (Busy \cap K) /\ Step(c, r)
    <2>1. Good(c, r) /\ Quiet(r)
      BY <1>1, <1>2, GotoQuiet DEF ToFiles
    <2>2. ~Creating(c)
      BY <1>2 DEF Creating
    <2> HIDE DEF K, r
    <2>3. QED
      BY <1>4, <2>1, <2>2, RemovalStep DEF Quiet
  <1>5. QED
    BY <1>3, <1>4 DEF RemoveAll, archiveVars, histVars

LEMMA DropInfoStep ==
  ASSUME Inv, NEW c \in Clients, DropInfo(c)
  PROVE  Inv'
  <1> DEFINE k == <<call[c].m, ArchiveNumber(call[c].m, call[c].n)>>
             q == call[c]
             K == {k, Key(c)}
             I == {k}
  <1>1. /\ call[c].pc = "dropInfo" /\ UNCHANGED dataFile
        /\ infoFile' = Without(infoFile, I) /\ created' = Without(created, K)
        /\ spoilt' = spoilt \cup (Busy \cap K)
        /\ \/ Step(c, [Goto(c, "dropData") EXCEPT !.upto = k[2]]) \/ Step(c, Goto(c, "dropCached"))
    BY DEF DropInfo, At
  <1>2. /\ call[c].op # "create" /\ ~Creating(c) /\ call[c].pc # "idle"
        /\ IsCall(q) /\ q.m \in UsedBy[c]
    BY <1>1, AtWork DEF Placed, Before, Filing, Creating
  <1>3. PICK r : /\ Step(c, r)
                 /\ r \in {[[q EXCEPT !.pc = "dropData"] EXCEPT !.upto = k[2]], [q EXCEPT !.pc = "dropCached"]}
    BY <1>1 DEF Goto
  <1>4. /\ IsCall(r) /\ r.op = q.op /\ r.m = q.m /\ r.pc \in {"dropData", "dropCached"}
        /\ r.pc = "dropData" => r.upto = k[2]
    <2> HIDE DEF q, k
    <2>1. QED
      BY <1>2, <1>3 DEF IsCall, Fields
  <1>5. Good(c, r)
    BY <1>2, <1>4 DEF Good, Placed, ToFiles
  <1>6. r.pc = "dropData" => <<r.m, r.upto>> \in K
    BY <1>4
  <1>7. I \subseteq K
    OBVIOUS
  <1>8. ~(r.op = "create" /\ r.pc \in Filing)
    BY <1>2, <1>4
  <1> HIDE DEF K, I, q, k
  <1>9. QED
    BY <1>1, <1>2, <1>3, <1>5, <1>6, <1>7, <1>8, RemovalStep

LEMMA DropDataStep ==
  ASSUME Inv, NEW c \in Clients, DropData(c)
  PROVE  Inv'
  <1> DEFINE k0 == <<call[c].m, call[c].upto>>
             r == Goto(c, "dropCached")
  <1>1. /\ call[c].pc = "dropData" /\ dataFile' = Without(dataFile, {k0})
        /\ UNCHANGED <<infoFile, created, spoilt>> /\ Step(c, r)
    BY DEF DropData, At, histVars
  <1>2. call[c].op # "create"
    BY <1>1, AtWork DEF Placed, Before, Filing
  <1>3. Good(c, r) /\ Quiet(r)
    BY <1>1, <1>2, GotoQuiet DEF ToFiles
  <1>4. call'[c] = r
    BY <1>1, <1>3, StepCalls
  <1>5. k0 \notin spoilt => k0 \notin DOMAIN created
    BY <1>1 DEF Inv, Gone, At
  <1>6. \A d \in Clients : Mine(d) => Key(d) # k0
    BY <1>1 DEF Inv, Alone, Dropping, At
  <1> HIDE DEF k0, r
  <1>7. \A k, v : k # k0 => (InFile(dataFile, k, v) => InFile(dataFile', k, v))
    BY <1>1, WithoutIs
  <1>8. ArchivedSurvives'
    BY <1>1, <1>5, <1>7, Survives, SurvivesNext DEF Inv
  <1>9. Alone(c)' /\ Filed(c)' /\ Gone(c)'
    BY <1>3, <1>4 DEF Quiet, Alone, Filed, Gone, Mine, Creating, At
  <1>10. QED
    BY <1>1, <1>3, <1>6, <1>7, <1>8, <1>9, ClientStep DEF Quiet

-----------------------------------------------------------------------------
(* What is archived survives                                               *)

\* Only what is archived is still promised after a crash, which tears no information
\* but that of a creation at work.
LEMMA CrashStep ==
  ASSUME Inv, Crash
  PROVE  Inv'
  <1>1. /\ call' = [c \in Clients |-> Idle] /\ UNCHANGED <<dataFile, spoilt>>
        /\ created' = Restrict(created, {k \in DOMAIN created : created[k].arch})
    BY DEF Crash
  <1>2. PICK torn \in SUBSET {Key(c) : c \in {d \in Clients : At(d, "writeInfo")}} :
          infoFile' = [k \in DOMAIN infoFile |-> IF k \in torn THEN Torn ELSE infoFile[k]]
    BY DEF Crash
  <1>3. /\ Calls'
        /\ \A c \in Clients : Alone(c)' /\ Filed(c)' /\ Gone(c)'
    BY <1>1 DEF Calls, Alone, Filed, Gone, Mine, Creating, At, Idle
  <1>4. /\ DOMAIN created' \subseteq DOMAIN created
        /\ \A k \in DOMAIN created' : created'[k] = created[k]
    BY <1>1 DEF Restrict
  <1>5. Numbered'
    BY <1>4 DEF Inv, Numbered
  <1>6. \A k \in DOMAIN created \ spoilt : k \notin torn
    <2> SUFFICES ASSUME NEW c \in Clients, At(c, "writeInfo"), Key(c) \in DOMAIN created \ spoilt
                 PROVE  FALSE
      BY <1>2
    <2>1. Creating(c)
      BY AtFiles DEF At, ToFiles
    <2>2. call[c].n # 0
      BY DEF Inv, Numbered, Key
    <2>3. QED
      BY <2>1, <2>2 DEF Mine, Inv, Alone
  <1>7. \A k, v : k \notin torn => (InFile(infoFile, k, v) => InFile(infoFile', k, v))
    BY <1>2 DEF InFile
  <1>8. ArchivedSurvives'
    BY <1>1, <1>4, <1>6, <1>7, Survives, SurvivesNext DEF Inv
  <1>9. QED
    BY <1>3, <1>5, <1>8 DEF Inv

LEMMA InvKept ==
  ASSUME Inv, UNCHANGED <<call, infoFile, dataFile, created, spoilt>>
  PROVE  Inv'
  <1>1. \A c \in Clients :
          /\ Creating(c)' = Creating(c) /\ Key(c)' = Key(c) /\ Mine(c)' = Mine(c)
          /\ At(c, "dropData")' = At(c, "dropData")
    BY DEF Creating, Key, Mine, At
  <1>2. \A c \in Clients : Alone(c)' /\ Filed(c)' /\ Gone(c)'
    BY <1>1 DEF Inv, Alone, Filed, Gone, Dropping
  <1>3. Calls' /\ Numbered' /\ ArchivedSurvives'
    BY DEF Inv, Calls, Numbered, ArchivedSurvives
  <1>4. QED
    BY <1>2, <1>3 DEF Inv

LEMMA InvInit == Init => Inv
  BY DEF Init, Inv, Calls, Numbered, Alone, Filed, Gone, Mine, Creating, At, Idle,
         ArchivedSurvives, Empty

LEMMA InvStep == Inv /\ [Next]_vars => Inv'
  <1> SUFFICES ASSUME Inv, [Next]_vars
               PROVE  Inv'
    OBVIOUS
  <1>1. ASSUME NEW c \in Clients, Ask(c) \/ Handle(c) \/ Receive(c) \/ GiveUp(c)
        PROVE  Inv'
    BY <1>1, AskStep, AwaitSteps, ResolveSteps, ReadSteps, OtherSteps, FindInfoStep, OpenInfoStep,
       WriteInfoStep, OpenDataStep, WriteDataStep, FailSteps, AddToCacheStep, BumpSteps,
       RemoveAllStep, DropInfoStep, DropDataStep
    DEF Handle
  <1>2. CASE Crash
    BY <1>2, CrashStep
  <1>3. CASE SetBackend \/ Restart \/ UNCHANGED vars
    BY <1>3, InvKept DEF SetBackend, Restart, vars, archiveVars, histVars
  <1>4. QED
    BY <1>1, <1>2, <1>3 DEF Next

\* What a client was told is archived stays in the archive with the data it sent,
\* through crashes, failed and torn writes, evictions and the calls of any number of
\* clients, with and without models of their own (fileSystemBackend.go,
\* memoryCacheBackend.go), but for the numbers that were taken while in use.
THEOREM ArchivedStays == Spec => []ArchivedSurvives
  <1>1. Inv => ArchivedSurvives
    BY DEF Inv
  <1>2. QED
    BY <1>1, InvInit, InvStep, PTL DEF Spec
=============================================================================
