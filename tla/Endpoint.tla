------------------------------ MODULE Endpoint -----------------------------
(***************************************************************************)
(* Endpoints (cli/utils/endpoint): where a service is, either an address   *)
(* or what to ask the directory for.  A URL is a record of its parts       *)
(* [scheme, host, path, query, extra, port]: `query` is a set of pairs of  *)
(* a name and a value, `extra` says that it has a part no endpoint takes.  *)
(***************************************************************************)
EXTENDS Naturals, FiniteSets

CONSTANT Types  \* the names of the service types

NoHost == "no host"
ServiceID == "__id"  \* ServiceIDPropertyName

\* The service id among the properties, 0 if there is none.
IdIn(props) == IF \E p \in props : p[1] = ServiceID
               THEN (CHOOSE p \in props : p[1] = ServiceID)[2] ELSE 0

Invalid == [cat |-> "invalid", host |-> NoHost, type |-> "none", props |-> {}, id |-> 0]

\* grpc://<hostname>:<port>
ParseGrpc(u) ==
  IF u.path # "" \/ u.query # {} \/ u.extra \/ ~u.port THEN Invalid
  ELSE [cat |-> "grpc", host |-> u.host, type |-> "unknown", props |-> {}, id |-> 0]

\* cogment://discover/<type>?prop=value or cogment://discover/service?__id=n
BadService(u) == u.path = "service" /\ (IdIn(u.query) = 0 \/ Cardinality(u.query) > 1)
ParseDiscovery(u) ==
  IF u.extra \/ u.path \notin Types \cup {"", "service"} \/ BadService(u) THEN Invalid
  ELSE [cat |-> "discovery", host |-> NoHost, props |-> u.query,
        type |-> IF u.path \in Types THEN u.path ELSE "unknown",
        id |-> IF u.path = "service" THEN IdIn(u.query) ELSE 0]

\* cogment://client
ParseClient(u) ==
  IF u.path # "" \/ u.query # {} \/ u.extra THEN Invalid ELSE [Invalid EXCEPT !.cat = "client"]

Parse(u) ==
  CASE u.scheme = "grpc" -> ParseGrpc(u)
    [] u.scheme = "cogment" /\ u.host = "discover" -> ParseDiscovery(u)
    [] u.scheme = "cogment" /\ u.host = "client" -> ParseClient(u)
    [] OTHER -> Invalid

IsResolved(e) == e.cat = "grpc" \/ (e.cat = "discovery" /\ e.host # NoHost)

\* Whether the service that the directory answered with is one that was asked for.
Resolvable(e, sid, type) ==
  e.cat = "discovery" /\ e.host = NoHost /\ e.type \in {"unknown", type} /\ e.id \in {0, sid}

\* The endpoint with an address; only its properties still name the id asked for.
Resolve(e, host, type) == [e EXCEPT !.host = host, !.type = type, !.id = 0]

\* The URL an endpoint is written as: the address that a discovery endpoint was
\* resolved to is not part of it.
NoURL == [scheme |-> "", host |-> "", path |-> "", query |-> {}, extra |-> FALSE, port |-> FALSE]
URL(e) ==
  CASE e.cat = "grpc" -> [NoURL EXCEPT !.scheme = "grpc", !.host = e.host, !.port = TRUE]
    [] e.cat = "discovery" ->
         [NoURL EXCEPT !.scheme = "cogment", !.host = "discover", !.query = e.props,
            !.path = CASE e.id # 0 -> "service" [] e.id = 0 /\ e.type \in Types -> e.type
                       [] OTHER -> ""]
    [] e.cat = "client" -> [NoURL EXCEPT !.scheme = "cogment", !.host = "client"]
    [] OTHER -> NoURL

\* What MarshalText keeps: an endpoint that was not resolved through the directory.
IsText(e) == e.cat # "invalid" /\ (e.cat = "discovery" => e.host = NoHost)
=============================================================================
