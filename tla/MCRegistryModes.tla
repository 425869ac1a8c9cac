-------------------------- MODULE MCRegistryModes --------------------------
(* Trainers that use the registry in one of several ways.                  *)
EXTENDS MCModelRegistry

\* Bounds: what the trainers do in a behaviour, chosen when it starts.
VARIABLE mode
Doing == [restart |-> (a :> {"model", "create", "data", "info", "list"}) @@ (b :> {}),
          read |-> (a :> {"model", "create", "data", "info", "list"}) @@ (b :> {"model", "create"}),
          delete |-> (a :> {"model", "create", "data", "delete", "drop", "models"}) @@ (b :> {"model"}),
          watch |-> (a :> {"model", "create"}) @@ (b :> {"model", "watch", "create"})]
MCInit == Init /\ mode \in {"restart", "read", "delete", "watch"}
MCNext ==
  /\ Next /\ UNCHANGED mode
  /\ \A c \in Clients : call'[c] # Idle =>
       /\ call'[c].op \in Doing[mode][c]
       /\ c = b => call'[c].data \in {d1, ""} /\ (call'[c].arch => call'[c].op # "create" \/ mode = "watch")
  /\ mode # "restart" => crashes' = 0
  /\ mode = "watch" => failures' = 0
MCSpec == MCInit /\ [][MCNext]_<<vars, mode>> /\ Fairness
============================================================================
