------------------------------ MODULE MCStore ------------------------------
(* Two trials of two actors, and the ways in which the datastore is used.  *)
EXTENDS StoreClients

CONSTANTS t, u, v, lists, plain, exporter

MCActors == <<[name |-> "ann", class |-> "pilot", impl |-> "human"],
              [name |-> "bob", class |-> "pilot", impl |-> "agent"]>>

Tick(tick, state) ==
  [tick |-> tick, state |-> state, observations |-> <<"o">>, actorsMap |-> <<1, 1>>,
   actions |-> <<"x", "y">>, rewards |-> <<>>, messages |-> <<>>]
Source(sender, data) == [sender |-> sender, value |-> 2, confidence |-> 1, data |-> data]
Name(n) == [class |-> "", name |-> n]

\* A tick with everything in it: a shared observation, rewards for one actor,
\* for a class and for all, a message to an actor and one to the environment.
Full(tick) ==
  [tick |-> tick, state |-> "running", observations |-> <<"o">>, actorsMap |-> <<1, 1>>,
   actions |-> <<"x", "y">>,
   rewards |-> <<[to |-> Name("ann"), sources |-> <<Source("bob", "d"), Source("env", Blank)>>],
                 [to |-> [class |-> "pilot", name |-> "*"], sources |-> <<Source("ann", "e")>>]>>,
   messages |-> <<[to |-> Name("bob"), sender |-> "ann", payload |-> "m"],
                  [to |-> Name("env"), sender |-> "bob", payload |-> "n"]>>]

\* A trial of three ticks, one that ends at once, and one that is only imported.
Short == [x \in {t, u, v} |->
  CASE x = t -> <<Tick(1, "running"), Tick(2, "running"), Tick(3, "ended")>>
    [] x = u -> <<Tick(1, "ended")>>
    [] x = v -> <<>>]
Rich == [x \in {t, u, v} |-> IF x = t THEN <<Full(1)>> ELSE <<>>]
MCScripts == {Short, Rich}

NoFilter == [names |-> {}, classes |-> {}, impls |-> {}, fields |-> {}]
MCFilters ==
  {NoFilter, [NoFilter EXCEPT !.names = {"ann"}], [NoFilter EXCEPT !.impls = {"agent"}],
   [NoFilter EXCEPT !.classes = {"driver"}], [NoFilter EXCEPT !.names = {"ann", "bob"}, !.impls = {"human"}]}
    \cup {[NoFilter EXCEPT !.fields = {f}] : f \in Fields}
    \cup {[NoFilter EXCEPT !.names = {n}, !.fields = {f, "action"}] :
            n \in {"ann", "bob"}, f \in {"sentMessages", "receivedRewards"}}
MCWanted == {[ids |-> {}, kinds |-> {}], [ids |-> {t, v}, kinds |-> {}], [ids |-> {}, kinds |-> {"k"}]}
MCKinds == {"k", "l"}
MCOld == {<<>>, <<t, u>>}
MCPrefixed == [x \in {t, u, v} |-> IF x = t THEN v ELSE x]

\* Bounds: what is done in a behaviour, chosen when it starts.
VARIABLE mode
Modes == {"migrate", "retrieve", "page", "transfer", "content"}
MCInit ==
  /\ CInit /\ mode \in Modes /\ (mode = "content" <=> script = Rich)
  /\ mode # "migrate" => index = <<>>
Uses(x) == IF mode \in {"migrate", "retrieve"} THEN x \in {t, u}
           ELSE IF mode = "transfer" THEN x \in {t, v} ELSE mode = "page" \/ x = t
Streamed(x, kind) ==
  CASE mode = "migrate" -> x = t
    [] mode = "retrieve" -> kind \in {"log", "ended"}
    [] mode \in {"transfer", "content"} -> x = t /\ kind \in {"log", "ended"}
    [] OTHER -> FALSE
MCNext ==
  /\ CNext /\ UNCHANGED mode
  /\ \A x \in Trials : trials'[x] # trials[x] =>
       /\ Uses(x)
       /\ mode # "page" /\ trials'[x] # None => trials'[x].kind = "k"
       /\ trials[x] = None /\ (mode = "retrieve" \/ (mode = "transfer" /\ x = t)) => streams'[x].kind = "log"
       /\ trials'[x] = None => mode \in {"migrate", "page"} \/ x = t
       \* Samples come in the order of the ticks.
       /\ trials[x] = None => streams[x].next = 1
       /\ trials[x] = None /\ mode = "transfer" /\ x = v => import' # import
  /\ \A x \in Trials : streams'[x] = NoStream \/
       /\ Streamed(x, streams'[x].kind)
       /\ streams[x] = NoStream /\ mode # "migrate" => trials[x] = None
  /\ mode = "page" \/ lister' = lister
  /\ lister'[lists].timed => lister'[lists].want.ids # {}
  /\ mode \in {"retrieve", "content"} \/ request'[plain] = NoRequest
  /\ mode = "retrieve" => request'[plain].is # "left" /\ Observed(plain)' \in {{}, {t}, {t, u}}
  /\ mode = "transfer" \/ export' = export
  /\ export.is = "idle" => u \notin export'.of
  /\ mode # "content" => request'[plain].filter \in {None, NoFilter}
  /\ mode # "migrate" => crashes' = crashes
MCSpec == MCInit /\ [][MCNext]_<<allVars, mode>> /\ CFairness
============================================================================
