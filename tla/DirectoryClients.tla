-------------------------- MODULE DirectoryClients -------------------------
(***************************************************************************)
(* The directory with those who use it: the services, which register when  *)
(* they start and deregister when they stop (ManageRegistration), the      *)
(* command line client, which may register a service as permanent, and a   *)
(* client that resolves endpoints (InquireEndpoint).                       *)
(***************************************************************************)
EXTENDS Directory, Endpoint

CONSTANTS
  Processes, \* the services that run ManageRegistration, each its own caller
  Manual,    \* the services registered on the command line
  CliPermanent, \* whether they are registered as permanent: a set of BOOLEANs
  Cli,       \* the command line's caller
  Resolver,  \* the caller that resolves endpoints
  Token,     \* its authentication token
  Urls       \* the endpoints it is configured with

ASSUME ClientsAssumption ==
  /\ Processes \cup Manual \subseteq Services /\ NoHost \notin Services
  /\ Callers = Processes \cup {Cli, Resolver} /\ "scan" \notin Callers
  /\ Resolver \notin Processes \cup {Cli}
  /\ Desc \in [Services -> [type : Types, props : SUBSET (STRING \X STRING), token : STRING,
                            net : {"cogment", "tcp", "none"}, valid : BOOLEAN]]

VARIABLES
  proc,      \* per process: where ManageRegistration stands
  mine,      \* per process: the id it was given
  endpoint   \* the endpoint being resolved

cliVars == <<proc, mine, endpoint>>
vars == <<dirVars, cliVars>>

CInit ==
  /\ Init /\ proc = [s \in Processes |-> "down"] /\ mine = [s \in Processes |-> 0]
  /\ endpoint = Invalid

Listen(c) == Replied(c) /\ call' = [call EXCEPT ![c] = Idle]

-----------------------------------------------------------------------------
(* ManageRegistration                                                      *)

\* The service listens before it registers, and waits for the directory.
Launch(s) ==
  /\ proc[s] = "down" /\ s \notin up /\ Len(heap) < MaxRecords
  /\ proc' = [proc EXCEPT ![s] = "joining"] /\ up' = up \cup {s}
  /\ UNCHANGED <<running, heap, db, disk, checks, call, scan, crashes, mine, endpoint>>

RegisterSelf(s) ==
  /\ proc[s] = "joining" /\ Register(s, s, FALSE)
  /\ proc' = [proc EXCEPT ![s] = "waiting"]
  /\ UNCHANGED <<mine, endpoint>>

\* A service whose registration fails stops, as when the directory goes away.
Registered(s) ==
  /\ proc[s] = "waiting" /\ (Listen(s) \/ (call[s] = Idle /\ UNCHANGED call))
  /\ IF Replied(s) /\ call[s].ok
       THEN /\ proc' = [proc EXCEPT ![s] = "serving"] /\ mine' = [mine EXCEPT ![s] = call[s].sid]
            /\ UNCHANGED up
       ELSE /\ proc' = [proc EXCEPT ![s] = "down"] /\ up' = up \ {s} /\ UNCHANGED mine
  /\ UNCHANGED <<running, heap, db, disk, checks, scan, crashes, endpoint>>

\* The context is done: deregisterService, with its timeout.
Leave(s) ==
  /\ proc[s] = "serving" /\ proc' = [proc EXCEPT ![s] = "leaving"] /\ up' = up \ {s}
  /\ UNCHANGED <<running, heap, db, disk, checks, call, scan, crashes, mine, endpoint>>

DeregisterSelf(s) ==
  /\ proc[s] = "leaving" /\ Deregister(s, Desc[s].token, mine[s], mine[s])
  /\ UNCHANGED cliVars

\* Answered or timed out.
Left(s) ==
  /\ proc[s] = "leaving" /\ (Listen(s) \/ (call[s] = Idle /\ UNCHANGED call))
  /\ proc' = [proc EXCEPT ![s] = "down"] /\ mine' = [mine EXCEPT ![s] = 0]
  /\ UNCHANGED <<running, heap, db, disk, checks, scan, up, crashes, endpoint>>

\* A service that crashes, or one that its process or the network makes unreachable
\* for a while.
Crash(s) ==
  /\ proc[s] = "serving" /\ proc' = [proc EXCEPT ![s] = "down"] /\ up' = up \ {s}
  /\ mine' = [mine EXCEPT ![s] = 0]
  /\ UNCHANGED <<running, heap, db, disk, checks, call, scan, crashes, endpoint>>

-----------------------------------------------------------------------------
(* The command line                                                        *)
(* (secret 0 stands for one that is not the entry's).                      *)

CliRegister(s, perm) ==
  /\ Len(heap) < MaxRecords /\ Register(Cli, s, perm) /\ UNCHANGED cliVars

CliDeregister(s, i, secret) ==
  /\ Deregister(Cli, Desc[s].token, i, secret) /\ UNCHANGED cliVars

CliPrints ==
  /\ Listen(Cli)
  /\ UNCHANGED <<running, heap, db, disk, checks, scan, up, crashes, cliVars>>

\* A service that is registered by hand starts and stops on its own.
ManualUp(s) ==
  /\ s \notin up /\ up' = up \cup {s}
  /\ UNCHANGED <<running, heap, db, disk, checks, call, scan, crashes, cliVars>>
ManualDown(s) ==
  /\ s \in up /\ up' = up \ {s}
  /\ UNCHANGED <<running, heap, db, disk, checks, call, scan, crashes, cliVars>>

-----------------------------------------------------------------------------
(* InquireEndpoint                                                         *)

\* Only a discovery endpoint that has no address yet takes an inquiry.
InquireEndpoint(u) ==
  /\ call[Resolver] = Idle /\ endpoint = Invalid
  /\ Parse(u).cat = "discovery" /\ ~IsResolved(Parse(u))
  /\ endpoint' = Parse(u)
  /\ Inquire(Resolver, Token, endpoint'.id, [type |-> endpoint'.type, props |-> endpoint'.props])
  /\ UNCHANGED <<proc, mine>>

\* What is made of the directory's answer, each service checked against what was
\* asked for: the endpoints, or <<>> for an error.
Resolutions(e, order) ==
  IF \A k \in DOMAIN order : Resolvable(e, heap[order[k]].sid, Desc[heap[order[k]].svc].type)
    THEN [k \in DOMAIN order |-> Resolve(e, heap[order[k]].svc, Desc[heap[order[k]].svc].type)]
    ELSE <<>>

EndpointResolved ==
  /\ endpoint # Invalid /\ (Listen(Resolver) \/ (call[Resolver] = Idle /\ UNCHANGED call))
  /\ endpoint' = Invalid
  /\ UNCHANGED <<running, heap, db, disk, checks, scan, up, crashes, proc, mine>>

-----------------------------------------------------------------------------
Service(s) == RegisterSelf(s) \/ Registered(s) \/ DeregisterSelf(s) \/ Left(s)

Next ==
  \/ DirNext /\ UNCHANGED cliVars
  \/ \E s \in Processes : Launch(s) \/ Service(s) \/ Leave(s) \/ Crash(s)
  \/ \E s \in Manual : \/ \E perm \in CliPermanent : CliRegister(s, perm)
                       \/ \E i \in DOMAIN heap : \E secret \in {0, i} : CliDeregister(s, i, secret)
                       \/ ManualUp(s) \/ ManualDown(s)
  \/ CliPrints
  \/ \E u \in Urls : InquireEndpoint(u)
  \/ EndpointResolved

Spec == CInit /\ [][Next]_vars

\* The directory's threads run and its time passes, however many checks keep up with
\* it; services go on with what they do and clients read the replies.
Fairness ==
  /\ WF_vars((Scan \/ DirectoryStart) /\ UNCHANGED cliVars)
  /\ SF_vars(Tick /\ UNCHANGED cliVars)
  /\ \A i \in Ids : \A c \in Callers \cup {"scan"} :
       WF_vars(\E t \in checks : t.sid = i /\ t.by = c /\ Check(t) /\ UNCHANGED cliVars)
  /\ \A c \in Callers : WF_vars(Handle(c) /\ UNCHANGED cliVars)
  /\ \A s \in Processes : WF_vars(Service(s))
  /\ WF_vars(CliPrints) /\ WF_vars(EndpointResolved)

FairSpec == Spec /\ Fairness

-----------------------------------------------------------------------------
(* Properties                                                              *)

\* A restart finds the services that are registered, unless the last change could not
\* be written, which nobody is told: but for that, the file has the entries of the
\* database, with what they say of their service.
FileIsCurrent ==
  running /\ ~unsaved =>
    /\ DOMAIN file = DOMAIN db
    /\ \A i \in DOMAIN db : /\ file[i].sid = i /\ file[i].svc = heap[db[i]].svc
                            /\ file[i].perm = heap[db[i]].perm

\* What directory.proto says of a permanent registration, that no health checks will be
\* performed and the service stays until it is deregistered: when one is confirmed, no
\* check is about to remove its entry.
PermanentStays ==
  \A c \in Callers :
    Replied(c) /\ call[c].op = "register" /\ call[c].ok /\ call[c].perm =>
      ~\E t \in checks : t.pc = "remove" /\ t.sid = call[c].sid

\* A service that stays away is forgotten, unless it is permanent or has no address.
Lingers(i) ==
  /\ running /\ i \in DOMAIN db /\ ~heap[db[i]].perm
  /\ heap[db[i]].svc \notin up /\ Desc[heap[db[i]].svc].net # "none"
AbsentForgotten == \A i \in Ids : ~<>[]Lingers(i)

\* A service that is there does not stay out of inquiries for ever, after failures of
\* its own, or of the directory, which suspects every entry it reloads.
Unlisted(i) ==
  running /\ i \in DOMAIN db /\ heap[db[i]].svc \in up /\ heap[db[i]].failed # 0
PresentListed == \A i \in Ids : ~<>[]Unlisted(i)

\* Who asks for the endpoint of a type of service gets addresses of services of that
\* type and with its token, of entries that had the properties it asked for: an entry
\* may have been given to a service without them since the inquiry selected it.
ResolvedAsAsked ==
  endpoint # Invalid /\ Replied(Resolver) =>
    LET order == call[Resolver].order
        given == Resolutions(endpoint, order)
    IN \A k \in DOMAIN given :
         /\ IsResolved(given[k]) /\ Desc[given[k].host].token = Token
         /\ endpoint.type \in {"unknown", Desc[given[k].host].type}
         /\ endpoint.id = 0 => \E r \in DOMAIN heap : /\ heap[r].sid = heap[order[k]].sid
                                                     /\ endpoint.props \subseteq Desc[heap[r].svc].props

=============================================================================
