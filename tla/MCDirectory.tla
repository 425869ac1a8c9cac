---------------------------- MODULE MCDirectory ----------------------------
(* A process that manages its registration and a service registered by     *)
(* hand, of the same type, and one client that resolves an endpoint.       *)
EXTENDS DirectoryClients

CONSTANTS s, m, cli, res

MCServices == {s, m}
MCTypes == {"actor"}
MCDesc == [x \in Services |->
  [type |-> "actor", props |-> IF x = s THEN {<<"version", "2">>} ELSE {}, token |-> "t", valid |-> TRUE,
   net |-> IF x = s THEN "cogment" ELSE "tcp"]]
OnlyS == {s}
OnlyM == {m}
OnlyTrue == {TRUE}
MCCallers == {s, cli, res}
OneLoad == {0}
ActorUrl == [scheme |-> "cogment", host |-> "discover", path |-> "actor", query |-> {},
             extra |-> FALSE, port |-> FALSE]
OtherUrl == [ActorUrl EXCEPT !.query = {<<"version", "2">>}]
IdUrl == [ActorUrl EXCEPT !.path = "service", !.query = {<<ServiceID, 1>>}]
MCUrls == {OtherUrl, IdUrl}

ASSUME \A u \in MCUrls \cup {ActorUrl} \cup {NoURL} : IsText(Parse(u)) => Parse(URL(Parse(u))) = Parse(u)

\* Bound: a behaviour has a user of the command line, with crashes of the directory; or
\* writes of the file that fail, then a crash, as services come up; or a client that
\* resolves by id; or both users, one of whom resolves by properties while no time passes.
VARIABLE user
MCInit == CInit /\ user \in {"cli", "disk", "resolver", "both"}
MCNext == /\ Next /\ UNCHANGED user
          /\ user \in {"cli", "disk"} => endpoint' = Invalid
          /\ user = "resolver" => call'[Cli] = Idle /\ endpoint' \in {Invalid, Parse(IdUrl)}
          /\ user = "both" => endpoint' \in {Invalid, Parse(OtherUrl)} /\ scan' = "first"
                              /\ call'[Cli].op # "deregister"
          /\ user = "both" => up \subseteq up'
          /\ user = "disk" => /\ m \in up => m \in up'
                              /\ proc[s] = "serving" => proc'[s] = "serving"
          /\ user # "disk" => failures' = 0
          /\ user \notin {"cli", "disk"} => crashes' = 0
MCSpec == MCInit /\ [][MCNext]_<<vars, user>> /\ Fairness
============================================================================
