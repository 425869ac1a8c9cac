--------------------------- MODULE StoredSamples ---------------------------
(***************************************************************************)
(* The samples the trial datastore keeps: how datalogServer.go translates  *)
(* what the orchestrator logs of a tick (a DatalogSample) into a stored    *)
(* sample, whose payloads are in one table the actors' entries point into, *)
(* and how trialSampleFilter.go cuts a sample down to the actors and the   *)
(* fields a client asks for.  Positions start at 1 and 0 is no position;   *)
(* the actor 0 is the environment (-1 in the code).                        *)
(***************************************************************************)
EXTENDS Integers, FiniteSets, SequencesExt

CONSTANTS
  Actors, \* the trial's actors: a sequence of [name, class, impl]
  Blank   \* an empty payload, and the absence of a reward

Fields == {"observation", "action", "reward", "receivedRewards", "sentRewards",
           "receivedMessages", "sentMessages"}

\* actorIndexFromActorName: an unknown name is taken for the environment.
IndexOf(name) ==
  LET at == {i \in DOMAIN Actors : Actors[i].name = name}
  IN IF at = {} THEN 0 ELSE CHOOSE i \in at : TRUE

\* The actors a reward goes to: all of them, in the order `order` (the code
\* iterates over a map), those of a class, one of a class, or one.
Receivers(to, order) ==
  IF to.name = "*" /\ to.class \in {"", "*"} THEN order
  ELSE IF to.class # ""
    THEN SelectSeq([i \in DOMAIN Actors |-> i],
                   LAMBDA i : Actors[i].class = to.class /\ to.name \in {"*", Actors[i].name})
  ELSE SelectSeq(<<IndexOf(to.name)>>, LAMBDA i : i # 0)

EmptySample(x, log) ==
  [trial |-> x, tick |-> log.tick, state |-> log.state, payloads |-> <<>>,
   actors |-> [i \in DOMAIN Actors |->
     [actor |-> i, observation |-> 0, action |-> 0, reward |-> Blank, receivedRewards |-> <<>>,
      sentRewards |-> <<>>, receivedMessages |-> <<>>, sentMessages |-> <<>>]]]

\* An observation may be shared by several actors, there is one action each.
WithObservations(s, log) ==
  [s EXCEPT
     !.payloads = @ \o log.observations,
     !.actors = [i \in DOMAIN @ |->
       [@[i] EXCEPT !.observation = IF i \in DOMAIN log.actorsMap
                                    THEN Len(s.payloads) + log.actorsMap[i] ELSE @]]]

WithActions(s, log) ==
  [s EXCEPT
     !.payloads = @ \o log.actions,
     !.actors = [i \in DOMAIN @ |->
       [@[i] EXCEPT !.action = IF i \in DOMAIN log.actions THEN Len(s.payloads) + i ELSE @]]]

\* Every source of every reward, with an actor it is for.
Granted(log, order) ==
  FlattenSeq([r \in DOMAIN log.rewards |->
    LET to == Receivers(log.rewards[r].to, order)
    IN FlattenSeq([n \in DOMAIN to |->
         [k \in DOMAIN log.rewards[r].sources |-> <<to[n], log.rewards[r].sources[k]>>]])])

\* A source is received by the actor and, when it comes from one, sent by it.
WithSource(s, grant) ==
  LET to == grant[1]
      src == grant[2]
      from == IndexOf(src.sender)
      at == IF src.data = Blank THEN 0 ELSE Len(s.payloads) + 1
      entry(peer) == [peer |-> peer, value |-> src.value, confidence |-> src.confidence, data |-> at]
      received == [s EXCEPT
        !.payloads = IF at = 0 THEN @ ELSE Append(@, src.data),
        !.actors[to].receivedRewards = Append(@, entry(from))]
  IN IF from = 0 THEN received
     ELSE [received EXCEPT !.actors[from].sentRewards = Append(@, entry(to))]

\* The average of the values weighted by the positive confidences, as the two
\* sums whose quotient it is; without a positive confidence it is 0.
Average(sources) ==
  LET sure == SelectSeq(sources, LAMBDA src : src.confidence > 0)
  IN <<FoldLeft(LAMBDA sum, src : sum + src.value * src.confidence, 0, sure),
       FoldLeft(LAMBDA sum, src : sum + src.confidence, 0, sure)>>

WithRewards(s, log, order) ==
  LET grants == Granted(log, order)
      rewarded == UNION {ToSet(Receivers(log.rewards[r].to, order)) : r \in DOMAIN log.rewards}
      sourcesOf(i) == LET own == SelectSeq(grants, LAMBDA g : g[1] = i)
                      IN [k \in DOMAIN own |-> own[k][2]]
      entries == FoldLeft(WithSource, s, grants)
  IN [entries EXCEPT !.actors = [i \in DOMAIN @ |->
       [@[i] EXCEPT !.reward = IF i \in rewarded THEN Average(sourcesOf(i)) ELSE @]]]

\* Mutant: the receiver's position is one too low.
WithMessageAfter(s, message) ==
  LET to == IF message.to.class = "" THEN IndexOf(message.to.name) ELSE 0
      from == IndexOf(message.sender)
      sent == [s EXCEPT !.payloads = Append(@, message.payload)]
      at == Len(sent.payloads)
      received == IF to = 0 THEN sent
                  ELSE [sent EXCEPT !.actors[to].receivedMessages =
                                      Append(@, [peer |-> from, data |-> Len(s.payloads)])]
  IN IF from = 0 THEN received
     ELSE [received EXCEPT !.actors[from].sentMessages = Append(@, [peer |-> to, data |-> at])]

WithMessage(s, message) ==
  LET to == IF message.to.class = "" THEN IndexOf(message.to.name) ELSE 0
      from == IndexOf(message.sender)
      at == Len(s.payloads) + 1
      sent == [s EXCEPT !.payloads = Append(@, message.payload)]
      received == IF to = 0 THEN sent
                  ELSE [sent EXCEPT !.actors[to].receivedMessages =
                                      Append(@, [peer |-> from, data |-> at])]
  IN IF from = 0 THEN received
     ELSE [received EXCEPT !.actors[from].sentMessages = Append(@, [peer |-> to, data |-> at])]

\* trialSampleFromDatalogSample: what is logged fills the table and the entries.
StoredSample(x, log, order) ==
  LET empty == EmptySample(x, log)
      full == FoldLeft(WithMessage,
                       WithRewards(WithActions(WithObservations(empty, log), log), log, order),
                       log.messages)
  IN [empty EXCEPT !.payloads = full.payloads, !.actors = full.actors]

-----------------------------------------------------------------------------
(* The filter of a retrieval: the names, the classes and the               *)
(* implementations of the actors, and the fields; an empty set selects all.*)

Selects(set, e) == set = {} \/ e \in set

\* newActorsFilter, newFieldsFilter
SelectedActors(filter) ==
  {i \in DOMAIN Actors : /\ Selects(filter.names, Actors[i].name)
                         /\ Selects(filter.classes, Actors[i].class)
                         /\ Selects(filter.impls, Actors[i].impl)}
SelectedFields(filter) == {f \in Fields : Selects(filter.fields, f)}

\* The positions of the payload table that an actor's entry points to.
Positions(entry, fields) ==
  LET of(f) == CASE f \in {"observation", "action"} -> {entry[f]}
                 [] f = "reward" -> {}
                 [] OTHER -> {item.data : item \in ToSet(entry[f])}
  IN UNION {of(f) : f \in fields} \ {0}

Absent(f) == IF f \in {"observation", "action"} THEN 0 ELSE IF f = "reward" THEN Blank ELSE <<>>

FilteredActor(entry, fields) ==
  [f \in DOMAIN entry |-> IF f \in fields \cup {"actor"} THEN entry[f] ELSE Absent(f)]

\* The payloads that are not selected are left out, the others keep their
\* positions.
Filtered(s, filter) ==
  LET actors == SelectedActors(filter)
      fields == SelectedFields(filter)
      kept == SelectSeq(s.actors, LAMBDA entry : entry.actor \in actors)
      used == UNION {Positions(kept[k], fields) : k \in DOMAIN kept}
  IN IF actors = DOMAIN Actors /\ filter.fields = {} THEN s
     ELSE [s EXCEPT !.actors = [k \in DOMAIN kept |-> FilteredActor(kept[k], fields)],
                    !.payloads = [p \in DOMAIN @ |-> IF p \in used THEN @[p] ELSE Blank]]

-----------------------------------------------------------------------------
(* What a client is given, said of what was logged and without the table.  *)

Content(s, at) == IF at = 0 THEN Blank ELSE s.payloads[at]
Contents(s, list) == [k \in DOMAIN list |-> <<list[k].peer, Content(s, list[k].data)>>]

\* The actors a name with wildcards means (common.proto:143,155).
Means(to, i) ==
  /\ to.class \in {"", "*", Actors[i].class} /\ to.name \in {"*", Actors[i].name}
  /\ to.class = "*" => to.name = "*"

\* The sources of the rewards meant for i, from anyone or from a sender.
SourcesFor(log, i, Sender(_)) ==
  LET rewards == SelectSeq(log.rewards, LAMBDA r : Means(r.to, i))
      sources == FlattenSeq([k \in DOMAIN rewards |-> rewards[k].sources])
  IN SelectSeq(sources, LAMBDA src : Sender(src.sender))

Sources(s, list) ==
  [k \in DOMAIN list |-> <<list[k].value, list[k].confidence, Content(s, list[k].data)>>]
Plain(sources) ==
  [k \in DOMAIN sources |-> <<sources[k].value, sources[k].confidence, sources[k].data>>]

EntryAsLogged(s, log, entry, fields) ==
  LET i == entry.actor
      me(name) == name = Actors[i].name
      in == SelectSeq(log.messages, LAMBDA m : m.to.class = "" /\ me(m.to.name))
      out == SelectSeq(log.messages, LAMBDA m : me(m.sender))
  IN /\ "observation" \in fields => Content(s, entry.observation) =
          IF i \in DOMAIN log.actorsMap THEN log.observations[log.actorsMap[i]] ELSE Blank
     /\ "action" \in fields => Content(s, entry.action) =
          IF i \in DOMAIN log.actions THEN log.actions[i] ELSE Blank
     /\ "reward" \in fields =>
          (entry.reward = Blank <=> \A r \in DOMAIN log.rewards : ~Means(log.rewards[r].to, i))
     /\ "receivedRewards" \in fields =>
          Sources(s, entry.receivedRewards) = Plain(SourcesFor(log, i, LAMBDA name : TRUE))
     /\ "sentRewards" \in fields => \A j \in DOMAIN Actors :
          Sources(s, SelectSeq(entry.sentRewards, LAMBDA item : item.peer = j))
            = Plain(SourcesFor(log, j, me))
     /\ "receivedMessages" \in fields => Contents(s, entry.receivedMessages) =
          [k \in DOMAIN in |-> <<IndexOf(in[k].sender), in[k].payload>>]
     /\ "sentMessages" \in fields => Contents(s, entry.sentMessages) =
          [k \in DOMAIN out |-> <<IF out[k].to.class = "" THEN IndexOf(out[k].to.name) ELSE 0,
                                  out[k].payload>>]
     /\ \A f \in Fields \ fields : entry[f] = Absent(f)

AsLogged(s, log, filter) ==
  LET actors == SelectedActors(filter)
      fields == SelectedFields(filter)
      shown == UNION {Positions(s.actors[k], fields) : k \in DOMAIN s.actors}
  IN /\ s.tick = log.tick /\ s.state = log.state
     /\ {s.actors[k].actor : k \in DOMAIN s.actors} = actors
     /\ \A k \in DOMAIN s.actors : EntryAsLogged(s, log, s.actors[k], fields)
     /\ \/ actors = DOMAIN Actors /\ filter.fields = {}
        \/ \A p \in DOMAIN s.payloads : s.payloads[p] # Blank => p \in shown
=============================================================================
