-------------------------- MODULE MCModelRegistry --------------------------
(* Trainers with a model each, which share the cache.                      *)
EXTENDS ModelRegistry, TLC

CONSTANTS a, b, m1, m2, d1, d2

MCClients == {a, b}
MCModels == {m1, m2}
MCPayloads == {d1, d2}
OwnModel == (a :> {m1}) @@ (b :> {m2})
AllOps == {"model", "create", "info", "data", "list", "models", "delete", "drop", "watch"}
MCOps == [c \in MCClients |-> AllOps]
MCAsked == {1, -1, -2}
MCLimits == {0, 1}

\* One trainer that creates the versions of a model and looks them up.
OneModel == [c \in MCClients |-> {m1}]
Alone == (a :> {"model", "create", "info"}) @@ (b :> {})
\* The process only stops when no call is under way.
OrderlySpec == Init /\ [][Next /\ (crashes' # crashes => \A c \in Clients : call[c] = Idle)]_vars
============================================================================
