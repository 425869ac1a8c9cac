--------------------------- MODULE WebProxyProofs ---------------------------
(***************************************************************************)
(* For any number of clients, ticks, rewards and trials: the orchestrator  *)
(* gets one action of its tick for each observation, the clients get each  *)
(* reward once and in order, and what a client is told is news to it.      *)
(***************************************************************************)
EXTENDS WebProxy, TLAPS

Statuses == {"joined", "started", "waitForRecvEvent", "waitForSentEvent", "left", "ended"}
RecvEvents == [tick : Nat, rewards : Seq(Nat)]
SentEvents == [tick : Nat, by : Callers \cup {"nobody"}]
ActorTrials == [status : Statuses, recv : RecvEvents, sent : SentEvents]
Places == {"none", "starting", "open", "acting", "over"}

Types ==
  /\ trials \in Seq(ActorTrials) /\ listed \in 0..Len(trials)
  /\ stream \in [is : Places, tick : Nat, rewards : Seq(Nat)]
  /\ sent \in Nat /\ told \in Seq(RecvEvents) /\ actions \in Seq(SentEvents)

\* The trials that the orchestrator plays: the stream plays one at most, although
\* the list may lose it to a client that removes another of its name.
Playing(ts, n) == ts[n].status \in {"started", "waitForRecvEvent", "waitForSentEvent"}
OnePlays(ts) == \A m, n \in DOMAIN ts : Playing(ts, m) /\ Playing(ts, n) => m = n
NonePlays(ts) == \A n \in DOMAIN ts : ~Playing(ts, n)

\* While the stream waits for the action of its last observation, that trial has
\* the observation without an action, or with one of its tick.
Asked(trial, tick) ==
  /\ trial.status # "started"
  /\ trial.status = "waitForSentEvent" => trial.recv.tick = tick /\ trial.sent.tick <= tick
  /\ trial.status = "waitForRecvEvent" => trial.sent.tick = tick /\ trial.sent.by \in Callers
AskedAll(ts, tick) == \A n \in DOMAIN ts : Playing(ts, n) => Asked(ts[n], tick)

Paired ==
  /\ OnePlays(trials)
  /\ stream.is = "none" => NonePlays(trials)
  /\ stream.is \in {"none", "starting", "open"} => Len(actions) = Len(told)
  /\ stream.is = "acting" => /\ Len(told) = Len(actions) + 1
                             /\ AskedAll(trials, told[Len(told)].tick)

IInv == Types /\ Paired /\ ActionsAnswer

-----------------------------------------------------------------------------
LEMMA InitHolds == ProxyAssumption /\ Init => IInv
<1> SUFFICES ASSUME Init PROVE IInv
  OBVIOUS
<1>1. <<>> \in Seq(ActorTrials) /\ <<>> \in Seq(Nat) /\ <<>> \in Seq(RecvEvents) /\ <<>> \in Seq(SentEvents)
  OBVIOUS
<1>2. Types
  BY <1>1 DEF Init, NoStream, Types, Places
<1>3. Paired /\ ActionsAnswer
  BY DEF Init, NoStream, Paired, ActionsAnswer, OnePlays, NonePlays
<1> QED BY <1>2, <1>3 DEF IInv

\* A step that changes neither the trials nor the stream.
LEMMA StutterKeeps ==
  ASSUME IInv, UNCHANGED <<trials, stream, sent, told, actions>>, listed' \in {0, listed}
  PROVE  IInv'
<1>1. Types'
  BY DEF IInv, Types
<1>2. Paired' /\ ActionsAnswer'
  BY DEF IInv, Paired, ActionsAnswer
<1> QED BY <1>1, <1>2 DEF IInv

\* A trial is added that the orchestrator does not play yet, or the first that it does.
LEMMA AddKeeps ==
  ASSUME IInv, NEW status \in {"joined", "started"}, Add(status),
         status = "joined" => UNCHANGED stream,
         status = "started" => stream.is = "none" /\ stream' = [stream EXCEPT !.is = "starting"],
         UNCHANGED <<sent, told, actions>>
  PROVE  IInv'
<1> DEFINE new == NewTrial(status)
<1>1. new \in ActorTrials
  <2>1. <<>> \in Seq(Nat)
    OBVIOUS
  <2> QED BY <2>1 DEF NewTrial, ActorTrials, Statuses, NoEvent, NoAction, RecvEvents, SentEvents
<1>2. new.status = status
  BY DEF NewTrial
<1> HIDE DEF new
<1>3. trials \in Seq(ActorTrials) /\ trials' = Append(trials, new) /\ listed' = Len(trials) + 1
  BY DEF IInv, Types, Add, new
<1>4. trials' \in Seq(ActorTrials) /\ DOMAIN trials' = 1..Len(trials) + 1 /\ Len(trials') = Len(trials) + 1
      /\ DOMAIN trials = 1..Len(trials) /\ trials'[Len(trials) + 1] = new
      /\ \A n \in DOMAIN trials : trials'[n] = trials[n]
  BY <1>1, <1>3
<1>5. Types'
  <2>1. stream' \in [is : Places, tick : Nat, rewards : Seq(Nat)]
    BY DEF IInv, Types, Places
  <2> QED BY <2>1, <1>3, <1>4 DEF IInv, Types
<1>6. OnePlays(trials') /\ (status = "joined" => (NonePlays(trials) => NonePlays(trials')))
  BY <1>2, <1>4 DEF IInv, Paired, OnePlays, NonePlays, Playing
<1>7. ASSUME status = "joined", stream.is = "acting"
      PROVE  AskedAll(trials', told[Len(told)].tick)
  BY <1>2, <1>4, <1>7 DEF IInv, Paired, AskedAll, Playing
<1>8. Paired'
  <2>1. CASE status = "joined"
    BY <2>1, <1>6, <1>7 DEF IInv, Paired
  <2>2. CASE status = "started"
    <3>1. stream'.is = "starting"
      BY <2>2 DEF IInv, Types
    <3> QED BY <3>1, <2>2, <1>6 DEF IInv, Paired
  <2> QED BY <2>1, <2>2
<1>9. ActionsAnswer'
  BY DEF IInv, ActionsAnswer
<1> QED BY <1>5, <1>8, <1>9 DEF IInv

LEMMA Replaced ==
  ASSUME NEW S, NEW s \in Seq(S), NEW n \in DOMAIN s, NEW e \in S, NEW t, t = [s EXCEPT ![n] = e]
  PROVE  /\ t \in Seq(S) /\ Len(t) = Len(s) /\ DOMAIN t = DOMAIN s
         /\ t[n] = e /\ \A m \in DOMAIN s : m # n => t[m] = s[m]
OBVIOUS

\* The trial `n` becomes `new`; it may be one that the orchestrator plays if it was, or
\* if there was none.
LEMMA TrialKeeps ==
  ASSUME IInv, NEW n \in DOMAIN trials, NEW new \in ActorTrials, trials' = [trials EXCEPT ![n] = new],
         \/ new.status \in {"joined", "left", "ended"}
         \/ Playing(trials, n)
         \/ NonePlays(trials)
  PROVE  /\ trials' \in Seq(ActorTrials) /\ Len(trials') = Len(trials) /\ OnePlays(trials')
         /\ NonePlays(trials) /\ new.status \in {"joined", "left", "ended"} => NonePlays(trials')
         /\ \A tick \in Nat : (Playing(trials', n) => Asked(new, tick)) /\ AskedAll(trials, tick)
                                => AskedAll(trials', tick)
<1>1. trials \in Seq(ActorTrials)
  BY DEF IInv, Types
<1>2. /\ trials' \in Seq(ActorTrials) /\ Len(trials') = Len(trials) /\ DOMAIN trials' = DOMAIN trials
      /\ trials'[n] = new /\ \A m \in DOMAIN trials : m # n => trials'[m] = trials[m]
  BY <1>1, Replaced
<1>3. OnePlays(trials')
  BY <1>2 DEF IInv, Paired, OnePlays, NonePlays, Playing
<1>4. NonePlays(trials) /\ new.status \in {"joined", "left", "ended"} => NonePlays(trials')
  BY <1>2 DEF NonePlays, Playing
<1>5. ASSUME NEW tick \in Nat, Playing(trials', n) => Asked(new, tick), AskedAll(trials, tick)
      PROVE  AskedAll(trials', tick)
  BY <1>2, <1>5 DEF AskedAll, Playing
<1> QED BY <1>2, <1>3, <1>4, <1>5

LEMMA LastTick ==
  ASSUME IInv, stream.is = "acting"
  PROVE  /\ told[Len(told)] \in RecvEvents /\ told[Len(told)].tick \in Nat
         /\ Len(told) = Len(actions) + 1 /\ AskedAll(trials, told[Len(told)].tick)
<1>1. told \in Seq(RecvEvents) /\ actions \in Seq(SentEvents) /\ Len(told) = Len(actions) + 1
  BY DEF IInv, Types, Paired
<1>2. told[Len(told)] \in RecvEvents
  BY <1>1
<1> QED BY <1>1, <1>2 DEF IInv, Paired, RecvEvents

\* The same when the stream stays where it is.
LEMMA TrialStep ==
  ASSUME IInv, NEW n \in DOMAIN trials, NEW new \in ActorTrials, trials' = [trials EXCEPT ![n] = new],
         new.status \in {"joined", "left", "ended"} \/ Playing(trials, n),
         stream.is = "acting" /\ Playing(trials, n) =>
           \A tick \in Nat : Asked(trials[n], tick) => Asked(new, tick),
         UNCHANGED <<listed, stream, sent, told, actions>>
  PROVE  IInv'
<1>1. /\ trials' \in Seq(ActorTrials) /\ Len(trials') = Len(trials) /\ OnePlays(trials')
      /\ NonePlays(trials) /\ new.status \in {"joined", "left", "ended"} => NonePlays(trials')
      /\ \A tick \in Nat : (Playing(trials', n) => Asked(new, tick)) /\ AskedAll(trials, tick)
                             => AskedAll(trials', tick)
  BY TrialKeeps
<1>2. trials'[n] = new
  BY Replaced DEF IInv, Types
<1>3. Types'
  BY <1>1 DEF IInv, Types
<1>4. stream.is = "none" => NonePlays(trials')
  BY <1>1 DEF IInv, Paired, NonePlays
<1>5. ASSUME stream.is = "acting" PROVE AskedAll(trials', told[Len(told)].tick)
  <2> DEFINE tick == told[Len(told)].tick
  <2>1. tick \in Nat
    BY <1>5, LastTick
  <2>2. AskedAll(trials, tick)
    BY <1>5 DEF IInv, Paired
  <2>3. Playing(trials', n) => Asked(new, tick)
    BY <2>1, <2>2, <1>2, <1>5 DEF AskedAll, Playing
  <2> QED BY <2>1, <2>2, <2>3, <1>1
<1>6. Paired'
  BY <1>1, <1>4, <1>5 DEF IInv, Paired
<1>7. ActionsAnswer'
  BY DEF IInv, ActionsAnswer
<1> QED BY <1>3, <1>6, <1>7 DEF IInv

\* Only the stream goes on, to where it waits for no action.
LEMMA StreamKeeps ==
  ASSUME IInv, stream' \in [is : Places, tick : Nat, rewards : Seq(Nat)],
         stream'.is = "over" \/ (stream.is \in {"starting", "open"} /\ stream'.is = "open"),
         UNCHANGED <<trials, listed, told, actions>>, sent' \in Nat
  PROVE  IInv'
<1>1. Types'
  BY DEF IInv, Types
<1>2. Paired'
  BY DEF IInv, Paired
<1> QED BY <1>1, <1>2 DEF IInv, ActionsAnswer

-----------------------------------------------------------------------------
(* The clients                                                             *)

LEMMA WithStatus ==
  ASSUME IInv, NEW n \in DOMAIN trials, NEW status \in Statuses,
         trials' = [trials EXCEPT ![n].status = status]
  PROVE  LET new == [trials[n] EXCEPT !.status = status]
         IN new \in ActorTrials /\ new.status = status /\ trials' = [trials EXCEPT ![n] = new]
<1>1. trials \in Seq(ActorTrials) /\ trials[n] \in ActorTrials
  BY DEF IInv, Types
<1>2. [trials[n] EXCEPT !.status = status] \in ActorTrials
  BY <1>1 DEF ActorTrials
<1> QED BY <1>1, <1>2 DEF ActorTrials

LEMMA LeaveKeeps ==
  ASSUME IInv, LeaveListed, UNCHANGED <<stream, sent, told, actions>>
  PROVE  IInv'
<1>1. listed \in DOMAIN trials
  BY DEF IInv, Types, LeaveListed
<1> DEFINE new == [trials[listed] EXCEPT !.status = "left"]
<1>2. new \in ActorTrials /\ new.status = "left" /\ trials' = [trials EXCEPT ![listed] = new]
  BY <1>1, WithStatus DEF LeaveListed, ToStatus, Statuses
<1>3. \A tick \in Nat : Asked(new, tick)
  BY <1>2 DEF Asked
<1> HIDE DEF new
<1> QED BY <1>1, <1>2, <1>3, TrialStep DEF LeaveListed, ToStatus

LEMMA JoinKeeps == ASSUME IInv, NEW c \in Callers, Join(c) PROVE IInv'
<1> DEFINE n == call[c].trial
<1>1. CASE UNCHANGED trials
  BY <1>1, StutterKeeps DEF Join, ToStatus, wire, list
<1>2. CASE n \in DOMAIN trials /\ trials[n].status = "started" /\ ToStatus(n, "waitForRecvEvent")
  <2> DEFINE new == [trials[n] EXCEPT !.status = "waitForRecvEvent"]
  <2>1. new \in ActorTrials /\ trials' = [trials EXCEPT ![n] = new]
    BY <1>2, WithStatus DEF ToStatus, Statuses
  <2>2. Playing(trials, n) /\ \A tick \in Nat : ~Asked(trials[n], tick)
    BY <1>2 DEF Playing, Asked
  <2> HIDE DEF new
  <2> QED BY <1>2, <2>1, <2>2, TrialStep DEF Join, ToStatus, wire
<1>3. n \notin DOMAIN trials /\ ToStatus(n, "waitForRecvEvent") => UNCHANGED trials
  BY DEF IInv, Types, ToStatus
<1> QED BY <1>1, <1>2, <1>3 DEF Join, CanJoin, list

LEMMA SendEventKeeps == ASSUME IInv, NEW c \in Callers, SendEvent(c) PROVE IInv'
<1> DEFINE n == call[c].trial
           event == [tick |-> call[c].tick, by |-> c]
           new == [trials[n] EXCEPT !.status = "waitForRecvEvent", !.sent = event]
<1>1. CASE UNCHANGED trials
  BY <1>1, StutterKeeps DEF SendEvent, wire
<1>2. CASE n \in DOMAIN trials /\ CanSend(trials[n], call[c].tick) /\ trials' = [trials EXCEPT ![n] = new]
  <2>1. trials[n] \in ActorTrials /\ trials[n].status = "waitForSentEvent"
    BY <1>2 DEF IInv, Types, CanSend
  <2>2. call[c].tick = TickID(trials[n]) /\ call[c].tick \in Nat
    BY <1>2, <2>1 DEF CanSend, TickID, ActorTrials, RecvEvents, SentEvents
  <2>3. new \in ActorTrials /\ new.status = "waitForRecvEvent" /\ new.sent = event
    BY <2>1, <2>2 DEF ActorTrials, Statuses, SentEvents
  <2>4. ASSUME NEW tick \in Nat, Asked(trials[n], tick) PROVE Asked(new, tick)
    <3>1. trials[n].recv.tick = tick /\ trials[n].sent.tick \in Nat /\ trials[n].sent.tick <= tick
      BY <2>1, <2>4 DEF Asked, ActorTrials, SentEvents
    <3>2. call[c].tick = tick
      BY <3>1, <2>2 DEF TickID
    <3> QED BY <3>2, <2>3 DEF Asked
  <2>5. Playing(trials, n)
    BY <2>1 DEF Playing
  <2> HIDE DEF new
  <2> QED BY <1>2, <2>3, <2>4, <2>5, TrialStep DEF SendEvent, wire
<1>3. n \notin DOMAIN trials /\ trials' = [trials EXCEPT ![n] = new] => UNCHANGED trials
  BY DEF IInv, Types
<1> QED BY <1>1, <1>2, <1>3 DEF SendEvent

LEMMA ClientsKeep == ASSUME IInv, NEW c \in Callers, Waiting(c) \/ Calling(c) PROVE IInv'
<1>1. CASE JoinTrial(c)
  BY <1>1, AddKeeps, StutterKeeps DEF JoinTrial, list, wire
<1>2. CASE RemoveTrial(c)
  BY <1>2, StutterKeeps DEF RemoveTrial, wire
<1>3. CASE \/ Joining(c) \/ Joined(c) \/ ActChecked(c) \/ Acting(c) \/ Reading(c)
           \/ \E tick \in 0..MaxTick + 1 : Act(c, tick)
  <2>1. UNCHANGED <<list, wire>>
    BY <1>3 DEF Joining, Joined, ActChecked, Acting, Reading, Act
  <2> QED BY <2>1, StutterKeeps DEF list, wire
<1>4. CASE LeaveTrial(c)
  BY <1>4, LeaveKeeps DEF LeaveTrial, wire
<1> QED BY <1>1, <1>2, <1>3, <1>4, JoinKeeps, SendEventKeeps DEF Waiting, Calling

-----------------------------------------------------------------------------
(* The stream of the orchestrator                                          *)

LEMMA StartTrialKeeps == ASSUME IInv, StartTrial PROVE IInv'
<1>1. CASE listed = 0
  <2>1. /\ Add("started") /\ stream.is = "none" /\ stream' = [stream EXCEPT !.is = "starting"]
        /\ UNCHANGED <<sent, told, actions>>
    BY <1>1 DEF StartTrial, MarkStarted, StreamIs
  <2> QED BY <2>1, AddKeeps
<1>2. CASE listed # 0 /\ CanStart(trials[listed])
  <2> DEFINE new == [trials[listed] EXCEPT !.status = "waitForRecvEvent"]
  <2>1. listed \in DOMAIN trials
    BY <1>2 DEF IInv, Types
  <2>2. /\ ToStatus(listed, "waitForRecvEvent") /\ StreamIs("open")
        /\ UNCHANGED <<listed, sent, told, actions>> /\ stream.is = "none"
    BY <1>2 DEF StartTrial, MarkStarted, ToStatus
  <2>3. new \in ActorTrials /\ trials' = [trials EXCEPT ![listed] = new]
    BY <2>1, <2>2, WithStatus DEF ToStatus, Statuses
  <2>4. NonePlays(trials)
    BY <2>2 DEF IInv, Paired
  <2> HIDE DEF new
  <2>5. trials' \in Seq(ActorTrials) /\ Len(trials') = Len(trials) /\ OnePlays(trials')
    BY <2>1, <2>3, <2>4, TrialKeeps
  <2>6. stream' = [stream EXCEPT !.is = "open"] /\ stream'.is = "open"
    BY <2>2 DEF StreamIs, IInv, Types
  <2>7. Types'
    BY <2>2, <2>5, <2>6 DEF IInv, Types, Places
  <2>8. Paired' /\ ActionsAnswer'
    BY <2>2, <2>5, <2>6 DEF IInv, Paired, ActionsAnswer
  <2> QED BY <2>7, <2>8 DEF IInv
<1>3. CASE listed # 0 /\ ~CanStart(trials[listed])
  <2>1. UNCHANGED <<list, sent, told, actions>> /\ StreamIs("over") /\ stream.is = "none"
    BY <1>3 DEF StartTrial, MarkStarted, Fail
  <2>2. stream'.is = "over" /\ stream' \in [is : Places, tick : Nat, rewards : Seq(Nat)]
    BY <2>1 DEF StreamIs, IInv, Types, Places
  <2>3. Types'
    BY <2>1, <2>2 DEF IInv, Types, list
  <2>4. Paired' /\ ActionsAnswer'
    BY <2>1, <2>2 DEF IInv, Paired, ActionsAnswer, list
  <2> QED BY <2>3, <2>4 DEF IInv
<1> QED BY <1>1, <1>2, <1>3

LEMMA WaitsKeep == ASSUME IInv, Starting \/ Reward \/ Disconnect PROVE IInv'
<1>1. stream \in [is : Places, tick : Nat, rewards : Seq(Nat)] /\ sent \in Nat
  BY DEF IInv, Types
<1>2. stream' \in [is : Places, tick : Nat, rewards : Seq(Nat)] /\ sent' \in Nat
  <2>1. CASE Starting
    BY <2>1, <1>1 DEF Starting, StreamIs, Places
  <2>2. CASE Reward
    <3>1. sent' \in Nat /\ Append(stream.rewards, sent + 1) \in Seq(Nat)
      BY <2>2, <1>1 DEF Reward
    <3> QED BY <3>1, <2>2, <1>1 DEF Reward
  <2>3. CASE Disconnect
    BY <2>3, <1>1 DEF Disconnect, Fail, StreamIs, Places
  <2> QED BY <2>1, <2>2, <2>3
<1>3. /\ UNCHANGED <<trials, listed, told, actions>>
      /\ stream'.is = "over" \/ (stream.is \in {"starting", "open"} /\ stream'.is = "open")
  BY <1>1 DEF Starting, Reward, Disconnect, Fail, StreamIs, list
<1> QED BY <1>2, <1>3, StreamKeeps

LEMMA ObservationKeeps == ASSUME IInv, NEW tick \in 0..MaxTick, Observation(tick) PROVE IInv'
<1> DEFINE event == [tick |-> tick, rewards |-> stream.rewards]
           new == [trials[listed] EXCEPT !.status = "waitForSentEvent", !.recv = event]
<1>1. CASE Fail /\ UNCHANGED told
  <2>1. stream' \in [is : Places, tick : Nat, rewards : Seq(Nat)] /\ stream'.is = "over"
    BY <1>1 DEF Fail, StreamIs, IInv, Types, Places
  <2> QED BY <1>1, <2>1, StreamKeeps DEF Observation, Fail, list, IInv, Types
<1>2. CASE /\ listed # 0 /\ CanReceive(trials[listed], tick)
           /\ trials' = [trials EXCEPT ![listed] = new]
           /\ stream' = [stream EXCEPT !.is = "acting", !.tick = tick]
           /\ told' = Append(told, event) /\ UNCHANGED listed
  <2>1. listed \in DOMAIN trials /\ trials[listed].status = "waitForRecvEvent"
    BY <1>2 DEF CanReceive, IInv, Types
  <2>2. event \in RecvEvents /\ trials[listed] \in ActorTrials
    BY <2>1 DEF IInv, Types, RecvEvents
  <2>3. new \in ActorTrials /\ new.status = "waitForSentEvent" /\ new.recv = event /\ new.sent = trials[listed].sent
    BY <2>2 DEF ActorTrials, Statuses
  <2>4. Playing(trials, listed)
    BY <2>1 DEF Playing
  <2>5. trials[listed].sent.tick <= tick
    BY <1>2, <2>2 DEF CanReceive, TickID, ActorTrials, RecvEvents, SentEvents
  <2>6. Asked(new, tick)
    BY <2>3, <2>5 DEF Asked
  <2>7. trials' \in Seq(ActorTrials) /\ Len(trials') = Len(trials) /\ OnePlays(trials')
    <3> HIDE DEF new
    <3> QED BY <1>2, <2>1, <2>3, <2>4, TrialKeeps
  <2>8. AskedAll(trials', tick)
    <3>1. /\ trials'[listed] = new /\ DOMAIN trials' = DOMAIN trials
          /\ \A m \in DOMAIN trials : m # listed => trials'[m] = trials[m]
      <4> HIDE DEF new
      <4> QED BY <1>2, <2>1, <2>3, Replaced DEF IInv, Types
    <3>2. \A m \in DOMAIN trials : m # listed => ~Playing(trials', m)
      BY <3>1, <2>1, <2>4 DEF Playing, IInv, Paired, OnePlays
    <3> QED BY <3>1, <3>2, <2>6 DEF AskedAll
  <2> HIDE DEF new
  <2>9. stream' \in [is : Places, tick : Nat, rewards : Seq(Nat)] /\ stream'.is = "acting" /\ stream.is = "open"
    <3>1. tick \in Nat
      BY ProxyAssumption DEF ProxyAssumption
    <3>2. stream \in [is : Places, tick : Nat, rewards : Seq(Nat)] /\ stream.is = "open"
      BY DEF Observation, IInv, Types
    <3> QED BY <3>1, <3>2, <1>2 DEF Places
  <2>10. /\ told \in Seq(RecvEvents) /\ actions \in Seq(SentEvents) /\ Len(actions) = Len(told)
         /\ UNCHANGED <<sent, actions>>
    BY <2>9 DEF Observation, IInv, Types, Paired
  <2> HIDE DEF event
  <2>11. /\ told' \in Seq(RecvEvents) /\ Len(told') = Len(told) + 1 /\ told'[Len(told')] = event
         /\ \A k \in 1..Len(told) : told'[k] = told[k]
    BY <1>2, <2>2, <2>10
  <2>12. told'[Len(told')].tick = tick
    BY <2>11 DEF event
  <2>13. Types'
    BY <1>2, <2>7, <2>9, <2>10, <2>11 DEF IInv, Types
  <2>14. Paired'
    BY <2>7, <2>8, <2>9, <2>10, <2>11, <2>12 DEF Paired
  <2>15. ActionsAnswer'
    BY <2>10, <2>11 DEF IInv, ActionsAnswer
  <2> QED BY <2>13, <2>14, <2>15 DEF IInv
<1> QED BY <1>1, <1>2 DEF Observation

LEMMA ActRequestedKeeps == ASSUME IInv, ActRequested PROVE IInv'
<1>1. CASE Status = "waitForRecvEvent"
  <2> DEFINE act == trials[listed].sent
  <2>1. listed \in DOMAIN trials /\ trials[listed].status = "waitForRecvEvent"
    BY <1>1 DEF Status, IInv, Types
  <2>2. stream.is = "acting" /\ stream' = [stream EXCEPT !.is = "open", !.rewards = <<>>]
        /\ actions' = Append(actions, act) /\ UNCHANGED <<trials, listed, sent, told>>
    BY <1>1 DEF ActRequested, list
  <2>3. /\ told[Len(told)].tick \in Nat /\ Len(told) = Len(actions) + 1
        /\ AskedAll(trials, told[Len(told)].tick)
    BY <2>2, LastTick
  <2>4. act.tick = told[Len(told)].tick /\ act.by \in Callers
    BY <2>1, <2>3 DEF AskedAll, Playing, Asked
  <2>5. act \in SentEvents
    <3>1. trials[listed] \in ActorTrials
      BY <2>1 DEF IInv, Types
    <3> QED BY <3>1 DEF ActorTrials
  <2> HIDE DEF act
  <2>6. actions \in Seq(SentEvents) /\ told \in Seq(RecvEvents)
    BY DEF IInv, Types
  <2>7. /\ actions' \in Seq(SentEvents) /\ Len(actions') = Len(told) /\ actions'[Len(told)] = act
        /\ \A k \in 1..Len(actions) : actions'[k] = actions[k]
    BY <2>2, <2>3, <2>5, <2>6
  <2>8. stream' \in [is : Places, tick : Nat, rewards : Seq(Nat)] /\ stream'.is = "open"
    <3>1. <<>> \in Seq(Nat)
      OBVIOUS
    <3> QED BY <3>1, <2>2 DEF IInv, Types, Places
  <2>9. Types'
    BY <2>2, <2>7, <2>8 DEF IInv, Types
  <2>10. Paired'
    BY <2>2, <2>7, <2>8 DEF IInv, Paired
  <2>11. \A k \in DOMAIN actions' : actions'[k].tick = told[k].tick /\ actions'[k].by \in Callers
    BY <2>3, <2>4, <2>6, <2>7 DEF IInv, ActionsAnswer
  <2>12. ActionsAnswer'
    BY <2>2, <2>6, <2>7, <2>11 DEF ActionsAnswer
  <2> QED BY <2>9, <2>10, <2>12 DEF IInv
<1>2. CASE Status # "waitForRecvEvent"
  <2>1. stream' \in [is : Places, tick : Nat, rewards : Seq(Nat)] /\ stream'.is = "over"
    BY <1>2 DEF ActRequested, StreamIs, IInv, Types, Places
  <2> QED BY <1>2, <2>1, StreamKeeps DEF ActRequested, list, IInv, Types
<1> QED BY <1>1, <1>2

LEMMA EndTrialKeeps == ASSUME IInv, EndTrial PROVE IInv'
<1> DEFINE event == [tick |-> stream.tick + 1, rewards |-> stream.rewards]
           new == [trials[listed] EXCEPT !.status = "ended", !.recv = event]
<1>1. /\ stream.is = "open" /\ stream'.is = "over"
      /\ stream' \in [is : Places, tick : Nat, rewards : Seq(Nat)]
      /\ UNCHANGED <<listed, sent, actions>> /\ sent \in Nat
  BY DEF EndTrial, StreamIs, IInv, Types, Places
<1>2. CASE UNCHANGED <<trials, told>>
  BY <1>1, <1>2, StreamKeeps
<1>3. CASE /\ listed # 0 /\ trials' = [trials EXCEPT ![listed] = new]
           /\ told' = Append(told, event)
  <2>1. listed \in DOMAIN trials
    BY <1>3 DEF IInv, Types
  <2>2. event \in RecvEvents /\ trials[listed] \in ActorTrials
    BY <2>1 DEF IInv, Types, RecvEvents
  <2>3. new \in ActorTrials /\ new.status = "ended"
    BY <2>2 DEF ActorTrials, Statuses
  <2> HIDE DEF new, event
  <2>4. trials' \in Seq(ActorTrials) /\ Len(trials') = Len(trials) /\ OnePlays(trials')
    BY <1>3, <2>1, <2>3, TrialKeeps
  <2>5. /\ told \in Seq(RecvEvents) /\ actions \in Seq(SentEvents) /\ Len(actions) = Len(told)
    BY <1>1 DEF IInv, Types, Paired
  <2>6. /\ told' \in Seq(RecvEvents) /\ Len(told') = Len(told) + 1
        /\ \A k \in 1..Len(told) : told'[k] = told[k]
    BY <1>3, <2>2, <2>5
  <2>7. Types'
    BY <1>1, <2>4, <2>6 DEF IInv, Types
  <2>8. Paired'
    BY <1>1, <2>4 DEF Paired
  <2>9. ActionsAnswer'
    BY <1>1, <2>5, <2>6 DEF IInv, ActionsAnswer
  <2> QED BY <2>7, <2>8, <2>9 DEF IInv
<1> QED BY <1>2, <1>3 DEF EndTrial, End

-----------------------------------------------------------------------------
LEMMA NextHolds == ASSUME IInv, [Next]_vars PROVE IInv'
<1>1. CASE UNCHANGED vars
  BY <1>1, StutterKeeps DEF vars
<1>2. CASE LeaveAllTrials
  BY <1>2, LeaveKeeps DEF LeaveAllTrials, wire
<1> QED BY <1>1, <1>2, ClientsKeep, StartTrialKeeps, WaitsKeep, ObservationKeeps, ActRequestedKeeps,
           EndTrialKeeps DEF Next

\* Whoever acts, acts again, joins, leaves or removes the trial from the list, the
\* orchestrator gets one action for each observation, in order and of its tick.
THEOREM ActionsAnswerAlways == Spec => []ActionsAnswer
<1>1. Init => IInv
  BY InitHolds, ProxyAssumption
<1>2. IInv /\ [Next]_vars => IInv'
  BY NextHolds
<1>3. IInv => ActionsAnswer
  BY DEF IInv
<1> QED BY <1>1, <1>2, <1>3, PTL DEF Spec
-----------------------------------------------------------------------------
(* Rewards: those of the events told are 1..m, each once and in order, and *)
(* the stream has the rest.                                                *)

Rising(ts) ==
  \A k, l \in DOMAIN ts : \A i \in DOMAIN ts[k].rewards, j \in DOMAIN ts[l].rewards :
    k < l \/ (k = l /\ i < j) => ts[k].rewards[i] < ts[l].rewards[j]
Covers(ts, m) ==
  /\ \A k \in DOMAIN ts : \A i \in DOMAIN ts[k].rewards : ts[k].rewards[i] \in 1..m
  /\ \A x \in 1..m : \E k \in DOMAIN ts : \E i \in DOMAIN ts[k].rewards : x = ts[k].rewards[i]
Rest(m, n) == [i \in 1..n - m |-> m + i]

\* A stream that waits for an action has given everything that was sent.
Held(m) ==
  /\ Rising(told) /\ Covers(told, m)
  /\ stream.is = "acting" => m = sent
  /\ stream.is \notin {"acting", "over"} => stream.rewards = Rest(m, sent)
RInv == IInv /\ \E m \in 0..sent : Held(m)

LEMMA Appended ==
  ASSUME NEW S, NEW s \in Seq(S), NEW e \in S
  PROVE  /\ Append(s, e) \in Seq(S) /\ Len(Append(s, e)) = Len(s) + 1 /\ Append(s, e)[Len(s) + 1] = e
         /\ \A i \in 1..Len(s) : Append(s, e)[i] = s[i]
OBVIOUS

LEMMA AppendEvent ==
  ASSUME NEW ts \in Seq(RecvEvents), NEW m \in Nat, NEW n \in Nat, m <= n, Rising(ts), Covers(ts, m),
         NEW e \in RecvEvents, e.rewards = Rest(m, n)
  PROVE  Rising(Append(ts, e)) /\ Covers(Append(ts, e), n)
<1> DEFINE us == Append(ts, e)
           len == Len(ts)
<1>1. /\ len \in Nat /\ DOMAIN ts = 1..len /\ DOMAIN us = 1..len + 1 /\ us[len + 1] = e
      /\ \A k \in 1..len : us[k] = ts[k]
  OBVIOUS
<1>2. /\ DOMAIN e.rewards = 1..n - m /\ \A i \in 1..n - m : e.rewards[i] = m + i
  BY DEF Rest
<1> HIDE DEF us, len
<1>3. Rising(us)
  <2> SUFFICES ASSUME NEW k \in DOMAIN us, NEW l \in DOMAIN us, NEW i \in DOMAIN us[k].rewards,
                      NEW j \in DOMAIN us[l].rewards, k < l \/ (k = l /\ i < j)
               PROVE  us[k].rewards[i] < us[l].rewards[j]
    BY DEF Rising
  <2>1. CASE k \in 1..len /\ l \in 1..len
    BY <2>1, <1>1 DEF Rising
  <2>2. CASE k \in 1..len /\ l = len + 1
    <3>1. us[k].rewards[i] \in 1..m
      BY <2>2, <1>1 DEF Covers
    <3>2. us[l].rewards[j] = m + j /\ j \in 1..n - m
      BY <2>2, <1>1, <1>2
    <3> QED BY <3>1, <3>2
  <2>3. CASE k = len + 1
    <3>1. l = len + 1 /\ i \in 1..n - m /\ j \in 1..n - m /\ i < j
      BY <2>3, <1>1, <1>2
    <3> QED BY <3>1, <2>3, <1>1, <1>2
  <2> QED BY <2>1, <2>2, <2>3, <1>1
<1>4. ASSUME NEW k \in DOMAIN us, NEW i \in DOMAIN us[k].rewards PROVE us[k].rewards[i] \in 1..n
  <2>1. CASE k \in 1..len
    <3>1. us[k].rewards[i] \in 1..m
      BY <2>1, <1>1, <1>4 DEF Covers
    <3> QED BY <3>1
  <2>2. CASE k = len + 1
    <3>1. us[k].rewards[i] = m + i /\ i \in 1..n - m
      BY <2>2, <1>1, <1>2, <1>4
    <3> QED BY <3>1
  <2> QED BY <2>1, <2>2, <1>1, <1>4
<1>5. ASSUME NEW x \in 1..n PROVE \E k \in DOMAIN us : \E i \in DOMAIN us[k].rewards : x = us[k].rewards[i]
  <2>1. CASE x <= m
    <3>1. PICK k \in DOMAIN ts : \E i \in DOMAIN ts[k].rewards : x = ts[k].rewards[i]
      BY <2>1, <1>5 DEF Covers
    <3> QED BY <3>1, <1>1
  <2>2. CASE x > m
    <3>1. x - m \in 1..n - m /\ x = m + (x - m)
      BY <2>2, <1>5
    <3>2. x - m \in DOMAIN us[len + 1].rewards /\ x = us[len + 1].rewards[x - m] /\ len + 1 \in DOMAIN us
      BY <3>1, <1>1, <1>2
    <3> QED BY <3>2
  <2> QED BY <2>1, <2>2, <1>5
<1> QED BY <1>3, <1>4, <1>5 DEF Covers, us

LEMMA RInitHolds == Init => RInv
<1> SUFFICES ASSUME Init PROVE RInv
  OBVIOUS
<1>1. IInv
  BY InitHolds, ProxyAssumption
<1>2. told = <<>> /\ sent = 0 /\ stream.is = "none" /\ stream.rewards = <<>>
  BY DEF Init, NoStream
<1>3. Rest(0, 0) = <<>>
  BY DEF Rest
<1>4. Held(0)
  BY <1>2, <1>3 DEF Held, Rising, Covers
<1> QED BY <1>1, <1>2, <1>4 DEF RInv

\* The stream keeps its rewards, or its handler has returned.
LEMMA RewardsStay ==
  ASSUME RInv, UNCHANGED <<sent, told>>,
         \/ stream'.is = "over"
         \/ UNCHANGED stream
         \/ stream.is # "acting" /\ stream.is # "over" /\ stream'.is # "acting" /\ stream'.rewards = stream.rewards
  PROVE  \E m \in 0..sent' : Held(m)'
<1>1. PICK m \in 0..sent : Held(m)
  BY DEF RInv
<1>2. Held(m)'
  BY <1>1 DEF Held
<1> QED BY <1>1, <1>2

LEMMA RNextHolds == ASSUME RInv, [Next]_vars PROVE RInv'
<1> USE DEF Types
<1>1. IInv /\ IInv'
  BY NextHolds DEF RInv
<1>2. /\ stream \in [is : Places, tick : Nat, rewards : Seq(Nat)] /\ sent \in Nat /\ told \in Seq(RecvEvents)
  BY <1>1 DEF IInv
<1>3. PICK m \in 0..sent : Held(m)
  BY DEF RInv
<1>4. CASE UNCHANGED <<stream, sent, told>>
  BY <1>4, <1>1, RewardsStay DEF RInv
<1>5. CASE StartTrial
  <2>1. stream'.is = "over" \/ (stream'.is \in {"starting", "open"} /\ stream'.rewards = stream.rewards)
    BY <1>2, <1>5 DEF StartTrial, MarkStarted, Fail, StreamIs
  <2> QED BY <2>1, <1>1, <1>5, RewardsStay DEF RInv, StartTrial
<1>6. CASE Starting \/ Disconnect
  <2>1. stream'.is = "over" \/ (stream.is = "starting" /\ stream'.is = "open" /\ stream'.rewards = stream.rewards)
    BY <1>2, <1>6 DEF Starting, Disconnect, Fail, StreamIs
  <2> QED BY <2>1, <1>1, <1>6, RewardsStay DEF RInv, Starting, Disconnect
<1>7. CASE Reward
  <2>1. /\ stream.is = "open" /\ stream'.is = "open" /\ sent' = sent + 1 /\ UNCHANGED told
        /\ stream'.rewards = Append(stream.rewards, sent + 1)
    BY <1>2, <1>7 DEF Reward
  <2>2. stream.rewards = Rest(m, sent)
    BY <2>1, <1>3 DEF Held
  <2>3. Append(Rest(m, sent), sent + 1) = Rest(m, sent + 1)
    <3> DEFINE r == Rest(m, sent)
               t == Rest(m, sent + 1)
    <3>1. r \in Seq(Nat) /\ Len(r) = sent - m /\ \A i \in 1..sent - m : r[i] = m + i
      BY <1>2 DEF Rest
    <3>2. t \in Seq(Nat) /\ Len(t) = sent - m + 1 /\ \A i \in 1..sent - m + 1 : t[i] = m + i
      BY <1>2 DEF Rest
    <3> HIDE DEF r, t
    <3>3. /\ Append(r, sent + 1) \in Seq(Nat) /\ Len(Append(r, sent + 1)) = sent - m + 1
          /\ \A i \in 1..sent - m + 1 : Append(r, sent + 1)[i] = m + i
      <4>1. m \in Nat /\ sent - m \in Nat /\ sent + 1 \in Nat /\ m + (sent - m + 1) = sent + 1
        BY <1>2
      <4>2. /\ Append(r, sent + 1) \in Seq(Nat) /\ Len(Append(r, sent + 1)) = Len(r) + 1
            /\ Append(r, sent + 1)[Len(r) + 1] = sent + 1
            /\ \A i \in 1..Len(r) : Append(r, sent + 1)[i] = r[i]
        BY <3>1, <4>1, Appended
      <4>3. \A i \in 1..sent - m + 1 : i \in 1..sent - m \/ i = sent - m + 1
        BY <4>1
      <4> QED BY <3>1, <4>1, <4>2, <4>3
    <3>4. Append(r, sent + 1) = t
      BY <3>2, <3>3
    <3> QED BY <3>4 DEF r, t
  <2>4. Held(m)'
    BY <1>3, <2>1, <2>2, <2>3 DEF Held
  <2>5. m \in 0..sent'
    BY <1>2, <2>1
  <2> QED BY <1>1, <2>4, <2>5 DEF RInv
<1>8. CASE ActRequested
  <2>1. CASE stream'.is = "over"
    BY <1>1, <1>8, <2>1, RewardsStay DEF RInv, ActRequested
  <2>2. CASE Status = "waitForRecvEvent"
    <3>1. stream.is = "acting" /\ stream'.is = "open" /\ stream'.rewards = <<>> /\ UNCHANGED <<sent, told>>
      BY <1>2, <1>8, <2>2 DEF ActRequested
    <3>2. m = sent
      BY <3>1, <1>3 DEF Held
    <3>3. Rest(m, sent) = <<>>
      BY <3>2, <1>2 DEF Rest
    <3>4. Held(m)'
      BY <3>1, <3>2, <3>3, <1>3 DEF Held
    <3> QED BY <3>1, <3>4, <1>1 DEF RInv
  <2> QED BY <2>1, <2>2, <1>2, <1>8 DEF ActRequested, StreamIs
<1>9. ASSUME NEW event \in RecvEvents, event.rewards = stream.rewards, stream.is = "open",
             told' = Append(told, event), stream'.is \in {"acting", "over"}, UNCHANGED sent
      PROVE  RInv'
  <2>1. stream.rewards = Rest(m, sent) /\ Rising(told) /\ Covers(told, m)
    BY <1>3, <1>9 DEF Held
  <2>2. Rising(told') /\ Covers(told', sent)
    BY <2>1, <1>2, <1>9, AppendEvent
  <2>3. Held(sent)'
    BY <2>2, <1>9 DEF Held
  <2> QED BY <1>1, <1>2, <1>9, <2>3 DEF RInv
<1>10. ASSUME NEW tick \in 0..MaxTick, Observation(tick) PROVE RInv'
  <2> DEFINE event == [tick |-> tick, rewards |-> stream.rewards]
  <2>1. CASE Fail /\ UNCHANGED told
    <3>1. stream'.is = "over"
      BY <1>2, <2>1 DEF Fail, StreamIs
    <3> QED BY <1>1, <1>10, <2>1, <3>1, RewardsStay DEF RInv, Observation
  <2>2. CASE stream' = [stream EXCEPT !.is = "acting", !.tick = tick] /\ told' = Append(told, event)
    <3>1. stream'.is = "acting"
      BY <1>2, <2>2
    <3>2. event \in RecvEvents
      BY <1>2, ProxyAssumption DEF RecvEvents, ProxyAssumption
    <3>3. stream.is = "open" /\ UNCHANGED sent
      BY <1>10 DEF Observation
    <3> HIDE DEF event
    <3>4. event.rewards = stream.rewards
      BY DEF event
    <3> QED BY <2>2, <3>1, <3>2, <3>3, <3>4, <1>9
  <2> QED BY <2>1, <2>2, <1>10 DEF Observation
<1>11. CASE EndTrial
  <2> DEFINE event == [tick |-> stream.tick + 1, rewards |-> stream.rewards]
  <2>1. stream.is = "open" /\ stream'.is = "over" /\ UNCHANGED sent
    BY <1>2, <1>11 DEF EndTrial, StreamIs
  <2>2. CASE UNCHANGED told
    BY <2>1, <2>2, <1>1, RewardsStay DEF RInv
  <2>3. CASE told' = Append(told, event)
    <3>1. event \in RecvEvents /\ event.rewards = stream.rewards
      BY <1>2 DEF RecvEvents
    <3> HIDE DEF event
    <3> QED BY <2>1, <2>3, <3>1, <1>9
  <2> QED BY <2>2, <2>3, <1>11 DEF EndTrial, End
<1>12. CASE (\E c \in Callers : Waiting(c) \/ Calling(c)) \/ LeaveAllTrials
  <2>1. UNCHANGED wire
    BY <1>12 DEF Waiting, Calling, JoinTrial, Join, Joining, Joined, Act, ActChecked, SendEvent, Acting,
                 Reading, RemoveTrial, LeaveTrial, LeaveAllTrials
  <2> QED BY <2>1, <1>4 DEF wire
<1> QED BY <1>4, <1>5, <1>6, <1>7, <1>8, <1>10, <1>11, <1>12 DEF Next, vars

LEMMA RewardsOnceHolds == RInv => RewardsOnce
<1> SUFFICES ASSUME RInv PROVE RewardsOnce
  OBVIOUS
<1>1. PICK m \in 0..sent : Held(m)
  BY DEF RInv
<1>2. stream \in [is : Places, tick : Nat, rewards : Seq(Nat)] /\ sent \in Nat /\ told \in Seq(RecvEvents)
  BY DEF RInv, IInv, Types
<1> DEFINE n == IF stream.is = "over" THEN m ELSE sent
           last == [tick |-> 0, rewards |-> Batch(Len(told) + 1)]
           all == Append(told, last)
<1>3. Batch(Len(told) + 1) = Rest(m, n) /\ n \in 0..sent /\ m <= n
  <2>1. Rest(m, m) = <<>>
    BY DEF Rest
  <2> QED BY <2>1, <1>1, <1>2 DEF Batch, Held
<1>4. last \in RecvEvents /\ last.rewards = Rest(m, n)
  <2>1. Rest(m, n) \in Seq(Nat)
    BY <1>2, <1>3 DEF Rest
  <2> QED BY <2>1, <1>3 DEF RecvEvents
<1>5. /\ DOMAIN all = 1..Len(told) + 1
      /\ \A k \in 1..Len(told) + 1 : all[k].rewards = Batch(k)
  <2>1. \A k \in 1..Len(told) : Batch(k) = told[k].rewards
    BY <1>2 DEF Batch
  <2> HIDE DEF last
  <2>2. /\ DOMAIN all = 1..Len(told) + 1 /\ all[Len(told) + 1] = last
        /\ \A k \in 1..Len(told) : all[k] = told[k]
    BY <1>2, <1>4
  <2>3. last.rewards = Batch(Len(told) + 1)
    BY DEF last
  <2> QED BY <2>1, <2>2, <2>3, <1>2
<1>6. Rising(all) /\ Covers(all, n)
  <2> HIDE DEF last, n
  <2> QED BY <1>1, <1>2, <1>3, <1>4, AppendEvent DEF Held
<1> HIDE DEF all, last, n
<1>7. GivenRewards = 1..n
  <2>1. ASSUME NEW x \in GivenRewards PROVE x \in 1..n
    <3>1. PICK k \in 1..Len(told) + 1 : x \in {Batch(k)[i] : i \in DOMAIN Batch(k)}
      BY <2>1 DEF GivenRewards
    <3> QED BY <3>1, <1>5, <1>6 DEF Covers
  <2>2. ASSUME NEW x \in 1..n PROVE x \in GivenRewards
    <3>1. PICK k \in DOMAIN all : \E i \in DOMAIN all[k].rewards : x = all[k].rewards[i]
      BY <2>2, <1>6 DEF Covers
    <3>2. k \in 1..Len(told) + 1 /\ x \in {Batch(k)[i] : i \in DOMAIN Batch(k)}
      BY <3>1, <1>5
    <3> QED BY <3>2 DEF GivenRewards
  <2> QED BY <2>1, <2>2
<1>8. stream.is # "over" => n = sent
  BY DEF n
<1>9. \A k, l \in 1..Len(told) + 1 : \A i \in DOMAIN Batch(k), j \in DOMAIN Batch(l) :
        k < l \/ (k = l /\ i < j) => Batch(k)[i] < Batch(l)[j]
  BY <1>5, <1>6 DEF Rising
<1> QED BY <1>3, <1>7, <1>8, <1>9 DEF RewardsOnce

\* Every reward of the stream reaches the actor once, with the first event after it and
\* in order; only one that came after the last event, on a stream that broke, is lost.
THEOREM RewardsOnceAlways == Spec => []RewardsOnce
<1>1. Init => RInv
  BY RInitHolds
<1>2. RInv /\ [Next]_vars => RInv'
  BY RNextHolds
<1>3. RInv => RewardsOnce
  BY RewardsOnceHolds
<1> QED BY <1>1, <1>2, <1>3, PTL DEF Spec
-----------------------------------------------------------------------------
(* News: what the trials have was told, and what a client that acts is     *)
(* going to be told is later than what it acted for.                       *)

CallTypes ==
  /\ DOMAIN call = Callers /\ call = [c \in Callers |-> call[c]]
  /\ \A c \in Callers : call[c].tick \in Nat /\ call[c].got \in RecvEvents

\* The observations are numbered from 0; the end has the tick after the last one, or 1
\* if there was none.
TicksInOrder ==
  /\ stream.is # "over" => /\ \A k \in DOMAIN told : told[k].tick = k - 1
                           /\ stream.tick = IF told = <<>> THEN 0 ELSE Len(told) - 1
  /\ \A k \in DOMAIN told : told[k].tick = k - 1 \/ (Len(told) = 1 /\ told[1].tick = 1)
  /\ Len(told) <= Len(actions) + 1

WasTold(event, ts) == \E k \in DOMAIN ts : ts[k] = event
TrialTold(trial, ts) ==
  /\ trial.recv = NoEvent \/ WasTold(trial.recv, ts)
  /\ trial.status = "waitForSentEvent" => trial.sent.tick <= trial.recv.tick /\ trial.recv.tick < Len(ts)
TrialsTold == \A n \in DOMAIN trials : TrialTold(trials[n], told)

EndedWith(event, ts) == \E n \in DOMAIN ts : ts[n].status = "ended" /\ ts[n].recv = event
\* What a client got of its last call.
GotNews(now, ts, events) ==
  now.got # NoEvent =>
    WasTold(now.got, events) /\ (now.got.tick > now.tick \/ EndedWith(now.got, ts))
\* What a client that acts will get.
Hears(now, ts, events) ==
  /\ now.is \in {"join", "joined", "sending", "reading", "removing"} => now.trial \in DOMAIN ts
  /\ now.is = "acting" =>
       /\ now.tick < Len(events)
       /\ \A n \in DOMAIN ts : ts[n].status = "waitForSentEvent" => ts[n].recv.tick > now.tick
  /\ now.is = "reading" => ts[now.trial].status = "ended" \/ ts[now.trial].recv.tick > now.tick
  /\ now.is = "removing" => ts[now.trial].status = "ended"
ClientsHear == \A c \in Callers : Hears(call[c], trials, told) /\ GotNews(call[c], trials, told)

NInv == IInv /\ CallTypes /\ TicksInOrder /\ TrialsTold /\ ClientsHear

\* The events go on, the trials go on to later ones, and one that ended is not changed.
Grows ==
  /\ Len(told) <= Len(told') /\ \A k \in DOMAIN told : told'[k] = told[k]
  /\ DOMAIN trials \subseteq DOMAIN trials'
  /\ \A n \in DOMAIN trials :
       /\ trials[n].status = "ended" => trials'[n] = trials[n]
       /\ trials'[n].status = "ended" \/ trials[n].recv.tick <= trials'[n].recv.tick
  /\ \A n \in DOMAIN trials' : trials'[n].status = "waitForSentEvent" =>
       \/ n \in DOMAIN trials /\ trials'[n] = trials[n]
       \/ trials'[n].recv.tick = Len(told)

LEMMA NInitHolds == Init => NInv
<1> SUFFICES ASSUME Init PROVE NInv
  OBVIOUS
<1>1. IInv
  BY InitHolds, ProxyAssumption
<1>2. told = <<>> /\ trials = <<>> /\ actions = <<>> /\ stream.tick = 0 /\ call = [c \in Callers |-> NoCall]
  BY DEF Init, NoStream
<1>3. NoEvent \in RecvEvents
  <2>1. <<>> \in Seq(Nat)
    OBVIOUS
  <2> QED BY <2>1 DEF NoEvent, RecvEvents
<1>4. CallTypes
  BY <1>2, <1>3 DEF CallTypes, NoCall
<1>5. TicksInOrder /\ TrialsTold
  BY <1>2 DEF TicksInOrder, TrialsTold
<1>6. ClientsHear
  BY <1>2 DEF ClientsHear, Hears, GotNews, NoCall
<1> QED BY <1>1, <1>4, <1>5, <1>6 DEF NInv

LEMMA Typed ==
  ASSUME IInv
  PROVE  /\ trials \in Seq(ActorTrials) /\ DOMAIN trials = 1..Len(trials) /\ Len(trials) \in Nat
         /\ listed # 0 => listed \in DOMAIN trials
         /\ told \in Seq(RecvEvents) /\ DOMAIN told = 1..Len(told) /\ Len(told) \in Nat
         /\ \A n \in DOMAIN trials : /\ trials[n] \in ActorTrials /\ trials[n].recv \in RecvEvents
                                     /\ trials[n].recv.tick \in Nat /\ trials[n].sent.tick \in Nat
<1>1. trials \in Seq(ActorTrials) /\ told \in Seq(RecvEvents) /\ listed \in 0..Len(trials)
  BY DEF IInv, Types
<1>2. ASSUME NEW n \in DOMAIN trials
      PROVE  /\ trials[n] \in ActorTrials /\ trials[n].recv \in RecvEvents
             /\ trials[n].recv.tick \in Nat /\ trials[n].sent.tick \in Nat
  <2>1. trials[n] \in ActorTrials
    BY <1>1
  <2> QED BY <2>1 DEF ActorTrials, RecvEvents, SentEvents
<1> QED BY <1>1, <1>2

LEMMA ToldStays == ASSUME Grows, told \in Seq(RecvEvents), told' \in Seq(RecvEvents), NEW event, WasTold(event, told) PROVE WasTold(event, told')
BY DEF Grows, WasTold

LEMMA TrialToldStays ==
  ASSUME Grows, told \in Seq(RecvEvents), told' \in Seq(RecvEvents), NEW trial \in ActorTrials, TrialTold(trial, told)
  PROVE  TrialTold(trial, told')
<1>1. trial.recv.tick \in Nat /\ Len(told) \in Nat /\ Len(told') \in Nat /\ Len(told) <= Len(told')
  BY DEF ActorTrials, RecvEvents, Grows
<1> QED BY <1>1, ToldStays DEF TrialTold

\* A step that leaves the trials and the events alone.
LEMMA SameGrows ==
  ASSUME NInv, UNCHANGED <<trials, told>>
  PROVE  Grows /\ TrialsTold'
<1>1. Len(told) \in Nat /\ \A n \in DOMAIN trials : trials[n].recv.tick \in Nat
  BY Typed DEF NInv
<1> QED BY <1>1 DEF NInv, Grows, TrialsTold

LEMMA AddGrows ==
  ASSUME NInv, NEW status \in {"joined", "started"}, Add(status), UNCHANGED told
  PROVE  Grows /\ TrialsTold'
<1>1. /\ trials \in Seq(ActorTrials) /\ told \in Seq(RecvEvents)
      /\ \A n \in DOMAIN trials : trials[n].recv.tick \in Nat
  BY Typed DEF NInv
<1> DEFINE new == NewTrial(status)
<1>2. new.status = status /\ new.recv = NoEvent
  BY DEF NewTrial
<1> HIDE DEF new
<1>3. DOMAIN trials = 1..Len(trials) /\ DOMAIN trials' = 1..Len(trials) + 1
      /\ trials'[Len(trials) + 1] = new /\ \A n \in 1..Len(trials) : trials'[n] = trials[n]
  BY <1>1 DEF Add, new
<1>4. Len(told) \in Nat
  BY <1>1
<1>5. Grows
  BY <1>1, <1>2, <1>3, <1>4 DEF Grows
<1>6. TrialTold(new, told)
  BY <1>2 DEF TrialTold
<1> QED BY <1>3, <1>5, <1>6 DEF NInv, TrialsTold

LEMMA TrialGrows ==
  ASSUME NInv, NEW n \in DOMAIN trials, NEW new \in ActorTrials, trials' = [trials EXCEPT ![n] = new],
         trials[n].status # "ended",
         new.status = "ended" \/ trials[n].recv.tick <= new.recv.tick,
         new.status = "waitForSentEvent" => new.recv.tick = Len(told),
         told' \in Seq(RecvEvents), Len(told) <= Len(told'), \A k \in DOMAIN told : told'[k] = told[k],
         TrialTold(new, told')
  PROVE  Grows /\ TrialsTold'
<1>1. /\ trials \in Seq(ActorTrials) /\ told \in Seq(RecvEvents)
      /\ \A m \in DOMAIN trials : trials[m] \in ActorTrials /\ trials[m].recv.tick \in Nat
  BY Typed DEF NInv
<1>2. DOMAIN trials' = DOMAIN trials /\ trials'[n] = new /\ \A m \in DOMAIN trials : m # n => trials'[m] = trials[m]
  BY <1>1, Replaced
<1>3. Grows
  BY <1>1, <1>2 DEF Grows
<1>4. ASSUME NEW m \in DOMAIN trials, m # n PROVE TrialTold(trials'[m], told')
  <2>1. TrialTold(trials[m], told)
    BY DEF NInv, TrialsTold
  <2> QED BY <2>1, <1>1, <1>2, <1>3, <1>4, TrialToldStays
<1> QED BY <1>2, <1>3, <1>4 DEF TrialsTold

\* The trial goes on without an event.
LEMMA SilentGrows ==
  ASSUME NInv, NEW n \in DOMAIN trials, NEW new \in ActorTrials, trials' = [trials EXCEPT ![n] = new],
         trials[n].status # "ended", new.recv = trials[n].recv, new.status # "waitForSentEvent",
         UNCHANGED told
  PROVE  Grows /\ TrialsTold'
<1>1. trials[n].recv.tick \in Nat /\ told \in Seq(RecvEvents) /\ Len(told) \in Nat
  BY Typed DEF NInv
<1>2. TrialTold(new, told)
  BY DEF NInv, TrialsTold, TrialTold
<1>3. /\ new.status = "ended" \/ trials[n].recv.tick <= new.recv.tick
      /\ new.status = "waitForSentEvent" => new.recv.tick = Len(told)
  BY <1>1
<1>4. told' \in Seq(RecvEvents) /\ Len(told) <= Len(told') /\ \A k \in DOMAIN told : told'[k] = told[k]
  BY <1>1
<1>5. TrialTold(new, told')
  BY <1>2
<1> QED BY <1>3, <1>4, <1>5, TrialGrows

LEMMA StatusGrows ==
  ASSUME NInv, NEW n \in DOMAIN trials, trials[n].status # "ended",
         NEW status \in {"waitForRecvEvent", "left"}, ToStatus(n, status), UNCHANGED told
  PROVE  Grows /\ TrialsTold'
<1> DEFINE new == [trials[n] EXCEPT !.status = status]
<1>1. new \in ActorTrials /\ new.status = status /\ trials' = [trials EXCEPT ![n] = new]
  BY WithStatus DEF NInv, ToStatus, Statuses
<1>2. trials[n] \in ActorTrials
  BY Typed DEF NInv
<1>3. new.recv = trials[n].recv
  BY <1>2 DEF ActorTrials
<1> HIDE DEF new
<1> QED BY <1>1, <1>3, SilentGrows

LEMMA LeaveGrows == ASSUME NInv, LeaveListed, UNCHANGED told PROVE Grows /\ TrialsTold'
<1>1. listed \in DOMAIN trials /\ trials[listed].status # "ended"
  BY DEF NInv, IInv, Types, LeaveListed, CanLeave
<1> QED BY <1>1, StatusGrows DEF LeaveListed

LEMMA JoinGrows == ASSUME NInv, NEW c \in Callers, Join(c) PROVE Grows /\ TrialsTold'
<1>1. call[c].trial \in DOMAIN trials
  BY DEF NInv, ClientsHear, Hears, Join
<1>2. CASE CanJoin(trials[call[c].trial])
  BY <1>1, <1>2, StatusGrows DEF Join, CanJoin, wire
<1>3. CASE ~CanJoin(trials[call[c].trial])
  BY <1>3, SameGrows DEF Join, list, wire
<1> QED BY <1>2, <1>3

LEMMA SendEventGrows == ASSUME NInv, NEW c \in Callers, SendEvent(c) PROVE Grows /\ TrialsTold'
<1> DEFINE n == call[c].trial
           event == [tick |-> call[c].tick, by |-> c]
           new == [trials[n] EXCEPT !.status = "waitForRecvEvent", !.sent = event]
<1>1. CASE UNCHANGED trials
  BY <1>1, SameGrows DEF SendEvent, wire
<1>2. CASE CanSend(trials[n], call[c].tick) /\ trials' = [trials EXCEPT ![n] = new]
  <2>1. n \in DOMAIN trials /\ call[c].tick \in Nat
    BY DEF NInv, ClientsHear, Hears, SendEvent, CallTypes
  <2>2. trials[n] \in ActorTrials /\ trials[n].status = "waitForSentEvent" /\ trials[n].recv.tick \in Nat
        /\ TrialTold(trials[n], told) /\ told \in Seq(RecvEvents) /\ Len(told) \in Nat
    BY <1>2, <2>1, Typed DEF NInv, CanSend, TrialsTold
  <2>3. new \in ActorTrials /\ new.status = "waitForRecvEvent" /\ new.recv = trials[n].recv
    BY <2>1, <2>2 DEF ActorTrials, Statuses, SentEvents
  <2>4. UNCHANGED told
    BY DEF SendEvent, wire
  <2> HIDE DEF new
  <2> QED BY <1>2, <2>1, <2>2, <2>3, <2>4, SilentGrows
<1> QED BY <1>1, <1>2 DEF SendEvent
LEMMA ToldAppended ==
  ASSUME IInv, NEW event \in RecvEvents, told' = Append(told, event)
  PROVE  /\ told' \in Seq(RecvEvents) /\ Len(told') = Len(told) + 1 /\ DOMAIN told' = 1..Len(told) + 1
         /\ told'[Len(told) + 1] = event /\ \A k \in DOMAIN told : told'[k] = told[k]
BY Typed

LEMMA ObservationGrows ==
  ASSUME NInv, NEW tick \in 0..MaxTick, Observation(tick) PROVE Grows /\ TrialsTold'
<1> DEFINE event == [tick |-> tick, rewards |-> stream.rewards]
           new == [trials[listed] EXCEPT !.status = "waitForSentEvent", !.recv = event]
<1>1. CASE UNCHANGED <<trials, told>>
  BY <1>1, SameGrows
<1>2. CASE /\ listed # 0 /\ CanReceive(trials[listed], tick)
           /\ trials' = [trials EXCEPT ![listed] = new] /\ told' = Append(told, event)
  <2>1. listed \in DOMAIN trials /\ trials[listed].status = "waitForRecvEvent"
    BY <1>2, Typed DEF CanReceive, NInv
  <2>2. /\ trials[listed] \in ActorTrials /\ trials[listed].recv.tick \in Nat /\ trials[listed].sent.tick \in Nat
        /\ Len(told) \in Nat
    BY <2>1, Typed DEF NInv
  <2>3. event \in RecvEvents /\ event.tick = tick
    BY ProxyAssumption DEF NInv, IInv, Types, RecvEvents, ProxyAssumption
  <2>4. /\ new \in ActorTrials /\ new.status = "waitForSentEvent" /\ new.recv = event
        /\ new.sent = trials[listed].sent
    BY <2>2, <2>3 DEF ActorTrials, Statuses
  <2>5. trials[listed].recv.tick <= tick /\ trials[listed].sent.tick <= tick /\ tick = Len(told)
    BY <1>2, <2>2 DEF CanReceive, TickID, Observation
  <2> HIDE DEF new, event
  <2>6. /\ told' \in Seq(RecvEvents) /\ Len(told') = Len(told) + 1 /\ DOMAIN told' = 1..Len(told) + 1
        /\ told'[Len(told) + 1] = event /\ \A k \in DOMAIN told : told'[k] = told[k]
    BY <1>2, <2>3, ToldAppended DEF NInv
  <2>7. TrialTold(new, told')
    <3>1. WasTold(event, told')
      BY <2>2, <2>6 DEF WasTold
    <3> QED BY <3>1, <2>2, <2>3, <2>4, <2>5, <2>6 DEF TrialTold
  <2>8. trials[listed].recv.tick <= new.recv.tick /\ new.recv.tick = Len(told)
    BY <2>3, <2>4, <2>5
  <2>9. Len(told) <= Len(told') /\ trials[listed].status # "ended"
    BY <2>1, <2>2, <2>6
  <2> QED BY <1>2, <2>1, <2>4, <2>6, <2>7, <2>8, <2>9, TrialGrows
<1> QED BY <1>1, <1>2 DEF Observation, Fail, list

LEMMA EndTrialGrows == ASSUME NInv, EndTrial PROVE Grows /\ TrialsTold'
<1> DEFINE event == [tick |-> stream.tick + 1, rewards |-> stream.rewards]
           new == [trials[listed] EXCEPT !.status = "ended", !.recv = event]
<1>1. CASE UNCHANGED <<trials, told>>
  BY <1>1, SameGrows
<1>2. CASE /\ listed # 0 /\ CanEnd(trials[listed], event.tick)
           /\ trials' = [trials EXCEPT ![listed] = new] /\ told' = Append(told, event)
  <2>1. listed \in DOMAIN trials /\ trials[listed].status # "ended"
    BY <1>2, Typed DEF CanEnd, CanLeave, NInv
  <2>2. trials[listed] \in ActorTrials /\ Len(told) \in Nat
    BY <2>1, Typed DEF NInv
  <2>3. event \in RecvEvents
    BY DEF NInv, IInv, Types, RecvEvents
  <2>4. new \in ActorTrials /\ new.status = "ended" /\ new.recv = event
    BY <2>2, <2>3 DEF ActorTrials, Statuses
  <2> HIDE DEF new, event
  <2>5. /\ told' \in Seq(RecvEvents) /\ Len(told') = Len(told) + 1 /\ DOMAIN told' = 1..Len(told) + 1
        /\ told'[Len(told) + 1] = event /\ \A k \in DOMAIN told : told'[k] = told[k]
    BY <1>2, <2>3, ToldAppended DEF NInv
  <2>6. TrialTold(new, told')
    <3>1. WasTold(event, told')
      BY <2>2, <2>5 DEF WasTold
    <3> QED BY <3>1, <2>4 DEF TrialTold
  <2>7. Len(told) <= Len(told')
    BY <2>2, <2>5
  <2> QED BY <1>2, <2>1, <2>4, <2>5, <2>6, <2>7, TrialGrows
<1> QED BY <1>1, <1>2 DEF EndTrial, End

LEMMA StartTrialGrows == ASSUME NInv, StartTrial PROVE Grows /\ TrialsTold'
<1>1. CASE listed = 0
  BY <1>1, AddGrows DEF StartTrial, MarkStarted
<1>2. CASE listed # 0 /\ CanStart(trials[listed])
  <2>1. listed \in DOMAIN trials /\ trials[listed].status # "ended"
    BY <1>2, Typed DEF NInv, CanStart
  <2> QED BY <1>2, <2>1, StatusGrows DEF StartTrial, MarkStarted
<1>3. CASE listed # 0 /\ ~CanStart(trials[listed])
  BY <1>3, SameGrows DEF StartTrial, MarkStarted, Fail, list
<1> QED BY <1>1, <1>2, <1>3

LEMMA NextGrows == ASSUME NInv, [Next]_vars PROVE Grows /\ TrialsTold'
<1>1. CASE UNCHANGED vars
  BY <1>1, SameGrows DEF vars
<1>2. ASSUME NEW c \in Callers, Waiting(c) \/ Calling(c) PROVE Grows /\ TrialsTold'
  <2>1. CASE JoinTrial(c)
    BY <2>1, AddGrows, SameGrows DEF JoinTrial, list, wire
  <2>2. CASE LeaveTrial(c)
    BY <2>2, LeaveGrows DEF LeaveTrial, wire
  <2>3. CASE UNCHANGED <<trials, told>>
    BY <2>3, SameGrows
  <2> QED BY <1>2, <2>1, <2>2, <2>3, JoinGrows, SendEventGrows
          DEF Waiting, Calling, Joining, Joined, ActChecked, Acting, Reading, RemoveTrial, Act, list, wire
<1>3. CASE Starting \/ ActRequested \/ Reward \/ Disconnect
  BY <1>3, SameGrows DEF Starting, ActRequested, Reward, Disconnect, Fail, list
<1>4. CASE LeaveAllTrials
  BY <1>4, LeaveGrows DEF LeaveAllTrials, wire
<1> QED BY <1>1, <1>2, <1>3, <1>4, StartTrialGrows, EndTrialGrows, ObservationGrows DEF Next

LEMMA TicksStay ==
  ASSUME TicksInOrder, UNCHANGED told, Len(told) \in Nat, Len(actions) \in Nat, Len(actions') \in Nat,
         Len(actions) <= Len(actions'),
         stream'.is # "over" => stream.is # "over" /\ stream'.tick = stream.tick
  PROVE  TicksInOrder'
<1>1. Len(told') <= Len(actions') + 1
  BY DEF TicksInOrder
<1> QED BY <1>1 DEF TicksInOrder

LEMMA NextInOrder == ASSUME NInv, [Next]_vars PROVE TicksInOrder'
<1>1. /\ told \in Seq(RecvEvents) /\ Len(told) \in Nat /\ DOMAIN told = 1..Len(told)
      /\ actions \in Seq(SentEvents) /\ Len(actions) \in Nat
      /\ stream \in [is : Places, tick : Nat, rewards : Seq(Nat)]
  BY Typed DEF NInv, IInv, Types
<1>2. ASSUME UNCHANGED <<told, actions>>, stream'.is # "over" => stream.is # "over" /\ stream'.tick = stream.tick
      PROVE  TicksInOrder'
  BY <1>1, <1>2, TicksStay DEF NInv
<1>3. CASE UNCHANGED wire \/ UNCHANGED vars
  BY <1>2, <1>3 DEF wire, vars
<1>4. ASSUME NEW c \in Callers, Waiting(c) \/ Calling(c) PROVE UNCHANGED wire
  BY <1>4 DEF Waiting, Calling, JoinTrial, Join, Joining, Joined, Act, ActChecked, SendEvent, Acting,
              Reading, RemoveTrial, LeaveTrial
<1>5. CASE StartTrial
  <2>1. \E is \in {"starting", "open", "over"} : StreamIs(is)
    BY <1>5 DEF StartTrial, MarkStarted, Fail
  <2> QED BY <2>1, <1>1, <1>2, <1>5 DEF StartTrial, StreamIs
<1>6. CASE Starting \/ Reward \/ Disconnect
  <2>1. stream'.is # "over" => stream.is # "over" /\ stream'.tick = stream.tick
    BY <1>1, <1>6 DEF Starting, Reward, Disconnect, Fail, StreamIs
  <2> QED BY <2>1, <1>2, <1>6 DEF Starting, Reward, Disconnect
<1>7. CASE ActRequested
  <2>1. UNCHANGED told /\ (stream'.is # "over" => stream.is # "over" /\ stream'.tick = stream.tick)
    BY <1>1, <1>7 DEF ActRequested, StreamIs
  <2>2. Len(actions') \in Nat /\ Len(actions) <= Len(actions')
    BY <1>1, <1>7 DEF ActRequested
  <2> QED BY <2>1, <2>2, <1>1, TicksStay DEF NInv
<1>8. ASSUME NEW event \in RecvEvents, told' = Append(told, event), stream.is = "open", UNCHANGED actions,
             event.tick = Len(told) \/ (told = <<>> /\ event.tick = 1),
             stream'.is # "over" => event.tick = Len(told) /\ stream'.tick = event.tick
      PROVE  TicksInOrder'
  <2>1. /\ Len(told') = Len(told) + 1 /\ DOMAIN told' = 1..Len(told) + 1
        /\ told'[Len(told) + 1] = event /\ \A k \in DOMAIN told : told'[k] = told[k]
    BY <1>8, ToldAppended DEF NInv
  <2>2. \A k \in DOMAIN told : told[k].tick = k - 1
    BY <1>8 DEF NInv, TicksInOrder
  <2>3. \A k \in DOMAIN told : told'[k].tick = k - 1
    BY <2>1, <2>2
  <2>4. \A k \in DOMAIN told' : told'[k].tick = k - 1 \/ (Len(told') = 1 /\ told'[1].tick = 1)
    <3>1. CASE event.tick = Len(told)
      <4>1. ASSUME NEW k \in DOMAIN told' PROVE told'[k].tick = k - 1
        <5>1. CASE k \in DOMAIN told
          BY <5>1, <2>3
        <5>2. CASE k = Len(told) + 1
          BY <5>2, <3>1, <2>1, <1>1
        <5> QED BY <5>1, <5>2, <4>1, <2>1, <1>1
      <4> QED BY <4>1
    <3>2. CASE told = <<>> /\ event.tick = 1
      <4>1. Len(told) = 0
        BY <3>2
      <4> QED BY <1>1, <2>1, <3>2, <4>1
    <3> QED BY <1>8, <3>1, <3>2
  <2>5. Len(told') <= Len(actions') + 1
    BY <1>1, <1>8, <2>1 DEF NInv, IInv, Paired
  <2>6. ASSUME stream'.is # "over"
        PROVE  /\ \A k \in DOMAIN told' : told'[k].tick = k - 1
               /\ stream'.tick = IF told' = <<>> THEN 0 ELSE Len(told') - 1
    <3>1. event.tick = Len(told) /\ stream'.tick = Len(told)
      BY <1>8, <2>6
    <3>2. told' # <<>>
      BY <1>1, <2>1
    <3> QED BY <1>1, <2>1, <2>2, <3>1, <3>2
  <2> QED BY <2>4, <2>5, <2>6 DEF TicksInOrder
<1>9. ASSUME NEW tick \in 0..MaxTick, Observation(tick) PROVE TicksInOrder'
  <2> DEFINE event == [tick |-> tick, rewards |-> stream.rewards]
  <2>1. CASE Fail /\ UNCHANGED told
    BY <1>1, <1>2, <1>9, <2>1 DEF Observation, Fail, StreamIs
  <2>2. CASE stream' = [stream EXCEPT !.is = "acting", !.tick = tick] /\ told' = Append(told, event)
    <3>1. event \in RecvEvents /\ event.tick = tick /\ stream'.tick = tick
      BY <1>1, <2>2, ProxyAssumption DEF RecvEvents, ProxyAssumption
    <3>2. stream.is = "open" /\ tick = Len(told) /\ UNCHANGED actions
      BY <1>9 DEF Observation
    <3> HIDE DEF event
    <3> QED BY <3>1, <3>2, <2>2, <1>8
  <2> QED BY <1>9, <2>1, <2>2 DEF Observation
<1>10. CASE EndTrial
  <2> DEFINE event == [tick |-> stream.tick + 1, rewards |-> stream.rewards]
  <2>1. stream.is = "open" /\ stream'.is = "over" /\ UNCHANGED actions
    BY <1>1, <1>10 DEF EndTrial, StreamIs
  <2>2. CASE UNCHANGED told
    BY <2>1, <2>2, <1>2
  <2>3. CASE told' = Append(told, event)
    <3>1. event \in RecvEvents /\ event.tick = stream.tick + 1
      BY <1>1 DEF RecvEvents
    <3>2. stream.tick = IF told = <<>> THEN 0 ELSE Len(told) - 1
      BY <2>1 DEF NInv, TicksInOrder
    <3>3. event.tick = Len(told) \/ (told = <<>> /\ event.tick = 1)
      BY <1>1, <3>1, <3>2
    <3> HIDE DEF event
    <3> QED BY <2>1, <2>3, <3>1, <3>3, <1>8
  <2> QED BY <1>10, <2>2, <2>3 DEF EndTrial, End
<1>11. CASE LeaveAllTrials
  BY <1>3, <1>11 DEF LeaveAllTrials
<1> QED BY <1>3, <1>4, <1>5, <1>6, <1>7, <1>9, <1>10, <1>11 DEF Next

LEMMA CallIsTo ==
  ASSUME CallTypes, NEW c \in Callers, NEW fields, CallIs(c, fields)
  PROVE  /\ DOMAIN call' = Callers /\ call' = [d \in Callers |-> call'[d]]
         /\ \A d \in Callers : d # c => call'[d] = call[d]
         /\ call'[c].is = IF "is" \in DOMAIN fields THEN fields.is ELSE call[c].is
         /\ call'[c].trial = IF "trial" \in DOMAIN fields THEN fields.trial ELSE call[c].trial
         /\ call'[c].tick = IF "tick" \in DOMAIN fields THEN fields.tick ELSE call[c].tick
         /\ call'[c].got = IF "got" \in DOMAIN fields THEN fields.got ELSE call[c].got
<1>1. DOMAIN NoCall = {"is", "trial", "tick", "token", "got"}
  BY DEF NoCall
<1> DEFINE new == [f \in DOMAIN NoCall |-> IF f \in DOMAIN fields THEN fields[f] ELSE call[c][f]]
<1>2. call' = [call EXCEPT ![c] = new]
  BY DEF CallIs
<1>3. /\ new.is = IF "is" \in DOMAIN fields THEN fields.is ELSE call[c].is
      /\ new.trial = IF "trial" \in DOMAIN fields THEN fields.trial ELSE call[c].trial
      /\ new.tick = IF "tick" \in DOMAIN fields THEN fields.tick ELSE call[c].tick
      /\ new.got = IF "got" \in DOMAIN fields THEN fields.got ELSE call[c].got
  BY <1>1
<1> HIDE DEF new
<1>4. DOMAIN call = Callers
  BY DEF CallTypes
<1>5. DOMAIN call' = Callers /\ call'[c] = new /\ \A d \in Callers : d # c => call'[d] = call[d]
  BY <1>2, <1>4
<1>6. call' = [d \in Callers |-> call'[d]]
  BY <1>2, <1>4
<1> QED BY <1>3, <1>5, <1>6

\* What a client hears stays true as the trials and the events go on.
LEMMA OthersHear ==
  ASSUME NInv, Grows, IInv', NEW now, now.tick \in Nat,
         Hears(now, trials, told), GotNews(now, trials, told)
  PROVE  Hears(now, trials', told') /\ GotNews(now, trials', told')
<1>1. /\ Len(told) \in Nat /\ Len(told') \in Nat /\ told \in Seq(RecvEvents) /\ told' \in Seq(RecvEvents)
      /\ \A n \in DOMAIN trials : trials[n].recv.tick \in Nat
      /\ \A n \in DOMAIN trials' : trials'[n].recv.tick \in Nat
  <2>1. /\ Len(told') \in Nat /\ told' \in Seq(RecvEvents)
        /\ \A n \in DOMAIN trials' : trials'[n].recv.tick \in Nat
    <3>1. trials' \in Seq(ActorTrials) /\ told' \in Seq(RecvEvents)
      BY DEF IInv, Types
    <3>2. \A trial \in ActorTrials : trial.recv.tick \in Nat
      BY DEF ActorTrials, RecvEvents
    <3> QED BY <3>1, <3>2
  <2> QED BY <2>1, Typed DEF NInv
<1>2. Hears(now, trials', told')
  <2>1. CASE now.is = "acting"
    <3>1. now.tick < Len(told')
      BY <2>1, <1>1 DEF Hears, Grows
    <3>2. ASSUME NEW n \in DOMAIN trials', trials'[n].status = "waitForSentEvent"
          PROVE  trials'[n].recv.tick > now.tick
      <4>1. CASE n \in DOMAIN trials /\ trials'[n] = trials[n]
        BY <2>1, <3>2, <4>1 DEF Hears
      <4>2. CASE trials'[n].recv.tick = Len(told)
        BY <2>1, <4>2, <1>1 DEF Hears
      <4> QED BY <3>2, <4>1, <4>2 DEF Grows
    <3> QED BY <2>1, <3>1, <3>2 DEF Hears
  <2>2. CASE now.is = "reading"
    <3>1. now.trial \in DOMAIN trials /\ now.trial \in DOMAIN trials'
      BY <2>2 DEF Hears, Grows
    <3>2. CASE trials[now.trial].status = "ended"
      <4>1. trials'[now.trial].status = "ended"
        BY <3>1, <3>2 DEF Grows
      <4> QED BY <2>2, <3>1, <4>1 DEF Hears
    <3>3. CASE trials[now.trial].recv.tick > now.tick
      <4>1. trials'[now.trial].status = "ended" \/ trials'[now.trial].recv.tick > now.tick
        BY <1>1, <3>1, <3>3 DEF Grows
      <4> QED BY <2>2, <3>1, <4>1 DEF Hears
    <3> QED BY <2>2, <3>2, <3>3 DEF Hears
  <2>3. CASE now.is \notin {"acting", "reading"}
    BY <2>3 DEF Hears, Grows
  <2> QED BY <2>1, <2>2, <2>3
<1>3. GotNews(now, trials', told')
  <2> SUFFICES ASSUME now.got # NoEvent
               PROVE  WasTold(now.got, told') /\ (now.got.tick > now.tick \/ EndedWith(now.got, trials'))
    BY DEF GotNews
  <2>1. WasTold(now.got, told')
    BY <1>1, ToldStays DEF GotNews
  <2>2. EndedWith(now.got, trials) => EndedWith(now.got, trials')
    BY DEF EndedWith, Grows
  <2> QED BY <2>1, <2>2 DEF GotNews
<1> QED BY <1>2, <1>3

\* The client `c` goes on, and still hears.
LEMMA ClientMoves ==
  ASSUME NInv, Grows, IInv', NEW c \in Callers, NEW fields, CallIs(c, fields),
         call'[c].tick \in Nat, call'[c].got \in RecvEvents,
         Hears(call'[c], trials', told'), GotNews(call'[c], trials', told')
  PROVE  CallTypes' /\ ClientsHear'
<1>1. /\ DOMAIN call' = Callers /\ call' = [d \in Callers |-> call'[d]]
      /\ \A d \in Callers : d # c => call'[d] = call[d]
  BY CallIsTo DEF NInv
<1>2. CallTypes'
  BY <1>1 DEF NInv, CallTypes
<1>3. ASSUME NEW d \in Callers, d # c
      PROVE  Hears(call'[d], trials', told') /\ GotNews(call'[d], trials', told')
  <2>1. call[d].tick \in Nat /\ Hears(call[d], trials, told) /\ GotNews(call[d], trials, told)
    BY DEF NInv, CallTypes, ClientsHear
  <2> QED BY <2>1, <1>1, <1>3, OthersHear
<1>4. ASSUME NEW d \in Callers PROVE Hears(call'[d], trials', told') /\ GotNews(call'[d], trials', told')
  BY <1>3
<1>5. ClientsHear'
  BY <1>4 DEF ClientsHear
<1> QED BY <1>2, <1>5

\* What it got is left alone, and so is what it acted for.
LEMMA ClientWaits ==
  ASSUME NInv, Grows, IInv', NEW c \in Callers, NEW fields, CallIs(c, fields),
         call'[c].tick = call[c].tick, call'[c].got = call[c].got,
         Hears(call'[c], trials', told')
  PROVE  CallTypes' /\ ClientsHear'
<1>1. call[c].tick \in Nat /\ call[c].got \in RecvEvents /\ Hears(call[c], trials, told) /\ GotNews(call[c], trials, told)
  BY DEF NInv, CallTypes, ClientsHear
<1>2. GotNews(call[c], trials', told')
  BY <1>1, OthersHear
<1>3. GotNews(call'[c], trials', told')
  BY <1>2 DEF GotNews
<1> QED BY <1>1, <1>3, ClientMoves

LEMMA CallsStay == ASSUME NInv, Grows, IInv', UNCHANGED call PROVE CallTypes' /\ ClientsHear'
<1>1. CallTypes'
  BY DEF NInv, CallTypes
<1>2. ASSUME NEW d \in Callers PROVE Hears(call'[d], trials', told') /\ GotNews(call'[d], trials', told')
  <2>1. call[d].tick \in Nat /\ Hears(call[d], trials, told) /\ GotNews(call[d], trials, told)
    BY DEF NInv, CallTypes, ClientsHear
  <2> QED BY <2>1, OthersHear
<1> QED BY <1>1, <1>2 DEF ClientsHear

\* A handler that returns, or goes on to a wait that asks for nothing of the trials.
LEMMA ClientReturns ==
  ASSUME NInv, Grows, IInv', NEW c \in Callers, NEW is \in {"none", "joining"}, CallIs(c, [is |-> is])
  PROVE  CallTypes' /\ ClientsHear'
<1> DEFINE fields == [is |-> is]
<1>1. DOMAIN fields = {"is"} /\ fields.is = is
  OBVIOUS
<1>2. CallIs(c, fields)
  OBVIOUS
<1> HIDE DEF fields
<1>3. call'[c].is = is /\ call'[c].tick = call[c].tick /\ call'[c].got = call[c].got
  BY <1>1, <1>2, CallIsTo DEF NInv
<1>4. Hears(call'[c], trials', told')
  BY <1>3 DEF Hears
<1> QED BY <1>2, <1>3, <1>4, ClientWaits

\* A handler that goes on with a trial.
LEMMA ClientGoesOn ==
  ASSUME NInv, Grows, IInv', NEW c \in Callers, NEW is, NEW n \in DOMAIN trials', UNCHANGED <<trials, told>>,
         CallIs(c, [is |-> is, trial |-> n]),
         is \in {"join", "joined", "sending"}
           \/ (is = "reading" /\ (trials[n].status = "ended" \/ trials[n].recv.tick > call[c].tick))
           \/ (is = "removing" /\ trials[n].status = "ended")
  PROVE  CallTypes' /\ ClientsHear'
<1> DEFINE fields == [is |-> is, trial |-> n]
<1>1. DOMAIN fields = {"is", "trial"} /\ fields.is = is /\ fields.trial = n
  OBVIOUS
<1>2. CallIs(c, fields)
  OBVIOUS
<1> HIDE DEF fields
<1>3. /\ call'[c].is = is /\ call'[c].trial = n /\ call'[c].tick = call[c].tick
      /\ call'[c].got = call[c].got
  BY <1>1, <1>2, CallIsTo DEF NInv
<1>4. Hears(call'[c], trials', told')
  BY <1>3 DEF Hears
<1> QED BY <1>2, <1>3, <1>4, ClientWaits

LEMMA JoinsHear ==
  ASSUME NInv, Grows, IInv', NEW c \in Callers, JoinTrial(c) \/ Join(c) \/ Joining(c)
  PROVE  CallTypes' /\ ClientsHear'
<1>1. CASE \E is \in {"none", "joining"} : CallIs(c, [is |-> is])
  BY <1>1, ClientReturns
<1>2. CASE /\ UNCHANGED <<trials, told>> /\ listed # 0
           /\ \/ CallIs(c, [is |-> "join", trial |-> listed])
              \/ CallIs(c, [is |-> "joined", trial |-> listed])
  <2>1. listed \in DOMAIN trials'
    BY <1>2, Typed DEF NInv
  <2> QED BY <2>1, <1>2, ClientGoesOn
<1> QED BY <1>1, <1>2 DEF JoinTrial, Join, Joining, Return, Status, list, wire

LEMMA JoinedHears == ASSUME NInv, Grows, IInv', NEW c \in Callers, Joined(c) PROVE CallTypes' /\ ClientsHear'
<1> DEFINE fields == [is |-> "none", token |-> TRUE]
<1>1. DOMAIN fields = {"is", "token"} /\ fields.is = "none"
  OBVIOUS
<1>2. CallIs(c, fields) /\ UNCHANGED <<trials, told>>
  BY DEF Joined, list, wire
<1> HIDE DEF fields
<1>4. call'[c].is = "none" /\ call'[c].tick = call[c].tick /\ call'[c].got = call[c].got
  BY <1>1, <1>2, CallIsTo DEF NInv
<1>5. Hears(call'[c], trials', told')
  BY <1>4 DEF Hears
<1> QED BY <1>2, <1>4, <1>5, ClientWaits

LEMMA NoNews == NoEvent \in RecvEvents
<1>1. <<>> \in Seq(Nat)
  OBVIOUS
<1> QED BY <1>1 DEF NoEvent, RecvEvents

LEMMA ActHears ==
  ASSUME NInv, Grows, IInv', NEW c \in Callers, NEW tick \in 0..MaxTick + 1, Act(c, tick)
  PROVE  CallTypes' /\ ClientsHear'
<1> DEFINE fields == [is |-> "checked", tick |-> tick, got |-> NoEvent]
<1>1. DOMAIN fields = {"is", "tick", "got"} /\ fields.is = "checked" /\ fields.tick = tick /\ fields.got = NoEvent
  OBVIOUS
<1>2. CallIs(c, fields)
  BY DEF Act
<1> HIDE DEF fields
<1>4. call'[c].is = "checked" /\ call'[c].tick = tick /\ call'[c].got = NoEvent
  BY <1>1, <1>2, CallIsTo DEF NInv
<1>5. Hears(call'[c], trials', told') /\ GotNews(call'[c], trials', told')
  BY <1>4 DEF Hears, GotNews
<1>6. call'[c].tick \in Nat /\ call'[c].got \in RecvEvents
  BY <1>4, NoNews, ProxyAssumption DEF ProxyAssumption
<1> QED BY <1>2, <1>4, <1>5, <1>6, ClientMoves

LEMMA ActCheckedHears == ASSUME NInv, Grows, IInv', NEW c \in Callers, ActChecked(c) PROVE CallTypes' /\ ClientsHear'
<1>1. CASE Return(c)
  BY <1>1, ClientReturns DEF Return
<1>2. CASE Status \notin {"absent", "left", "ended"} /\ CallIs(c, [is |-> "sending", trial |-> listed])
  <2>1. listed \in DOMAIN trials' /\ UNCHANGED <<trials, told>>
    BY <1>2, Typed DEF NInv, ActChecked, Status, list, wire
  <2> QED BY <2>1, <1>2, ClientGoesOn
<1>3. CASE Status = "ended" /\ CallIs(c, [is |-> "removing", trial |-> listed])
  <2>1. UNCHANGED <<trials, told>> /\ listed \in DOMAIN trials' /\ trials[listed].status = "ended"
    BY <1>3, Typed DEF NInv, ActChecked, Status, list, wire
  <2> QED BY <2>1, <1>3, ClientGoesOn
<1> QED BY <1>1, <1>2, <1>3 DEF ActChecked

LEMMA SendEventHears == ASSUME NInv, Grows, IInv', NEW c \in Callers, SendEvent(c) PROVE CallTypes' /\ ClientsHear'
<1> DEFINE n == call[c].trial
           new == [trials[n] EXCEPT !.status = "waitForRecvEvent", !.sent = [tick |-> call[c].tick, by |-> c]]
<1>1. CASE Return(c)
  BY <1>1, ClientReturns DEF Return
<1>2. CASE /\ CanSend(trials[n], call[c].tick) /\ trials' = [trials EXCEPT ![n] = new]
           /\ CallIs(c, [is |-> "acting"])
  <2>1. n \in DOMAIN trials
    BY DEF NInv, ClientsHear, Hears, SendEvent
  <2>2. /\ trials \in Seq(ActorTrials) /\ trials[n] \in ActorTrials /\ trials[n].status = "waitForSentEvent"
        /\ trials[n].recv.tick \in Nat /\ trials[n].sent.tick \in Nat
        /\ trials[n].sent.tick <= trials[n].recv.tick /\ trials[n].recv.tick < Len(told)
    BY <1>2, <2>1, Typed DEF NInv, CanSend, TrialsTold, TrialTold
  <2>3. call[c].tick < Len(told) /\ told' = told
    BY <1>2, <2>2 DEF CanSend, TickID, SendEvent, wire
  <2>4. ASSUME NEW m \in DOMAIN trials' PROVE trials'[m].status # "waitForSentEvent"
    <3>1. new \in [status : {"waitForRecvEvent"}, recv : RecvEvents, sent : [tick : {call[c].tick}, by : {c}]]
      BY <2>2 DEF ActorTrials
    <3> HIDE DEF new
    <3>2. /\ DOMAIN trials' = DOMAIN trials /\ trials'[n] = new
          /\ \A k \in DOMAIN trials : k # n => trials'[k] = trials[k]
      BY <1>2, <2>1, <2>2
    <3>3. \A k \in DOMAIN trials : k # n => trials[k].status # "waitForSentEvent"
      BY <2>1, <2>2 DEF NInv, IInv, Paired, OnePlays, Playing
    <3> QED BY <3>1, <3>2, <3>3, <2>4
  <2> HIDE DEF new
  <2> DEFINE fields == [is |-> "acting"]
  <2>5. DOMAIN fields = {"is"} /\ fields.is = "acting" /\ CallIs(c, fields)
    BY <1>2
  <2> HIDE DEF fields
  <2>6. /\ call'[c].is = "acting" /\ call'[c].tick = call[c].tick /\ call'[c].got = call[c].got
       
    BY <2>5, CallIsTo DEF NInv
  <2>7. Hears(call'[c], trials', told')
    BY <2>3, <2>4, <2>6 DEF Hears
  <2> QED BY <2>5, <2>6, <2>7, ClientWaits
<1> QED BY <1>1, <1>2 DEF SendEvent

LEMMA ActingHears == ASSUME NInv, Grows, IInv', NEW c \in Callers, Acting(c) PROVE CallTypes' /\ ClientsHear'
<1>1. CASE Return(c)
  BY <1>1, ClientReturns DEF Return
<1>2. CASE Status \in {"waitForSentEvent", "ended"} /\ CallIs(c, [is |-> "reading", trial |-> listed])
  <2>1. /\ UNCHANGED <<trials, told>> /\ listed \in DOMAIN trials'
        /\ trials[listed].status \in {"waitForSentEvent", "ended"}
    BY <1>2, Typed DEF NInv, Acting, Status, list, wire
  <2>2. trials[listed].status = "ended" \/ trials[listed].recv.tick > call[c].tick
    BY <2>1 DEF NInv, ClientsHear, Hears, Acting
  <2> QED BY <2>1, <2>2, <1>2, ClientGoesOn
<1> QED BY <1>1, <1>2 DEF Acting

\* What Act returns.
LEMMA GotHears ==
  ASSUME NInv, Grows, IInv', NEW c \in Callers, NEW n \in DOMAIN trials, UNCHANGED <<trials, told>>,
         Got(c, trials[n]), trials[n].status = "ended" \/ trials[n].recv.tick > call[c].tick
  PROVE  CallTypes' /\ ClientsHear'
<1> DEFINE recv == trials[n].recv
           fields == [is |-> "none", got |-> recv]
<1>1. DOMAIN fields = {"is", "got"} /\ fields.is = "none" /\ fields.got = recv
  OBVIOUS
<1>2. CallIs(c, fields)
  BY DEF Got
<1>3. recv \in RecvEvents /\ recv.tick \in Nat
  BY Typed DEF NInv
<1>4. call[c].tick \in Nat
  BY <1>3 DEF NInv, CallTypes
<1> HIDE DEF fields, recv
<1>5. call'[c].is = "none" /\ call'[c].tick = call[c].tick /\ call'[c].got = recv
  BY <1>1, <1>2, CallIsTo DEF NInv
<1>6. Hears(call'[c], trials', told')
  BY <1>5 DEF Hears
<1>7. recv # NoEvent => WasTold(recv, told')
  <2>1. TrialTold(trials[n], told) /\ told' = told
    BY DEF NInv, TrialsTold
  <2> QED BY <2>1 DEF TrialTold, recv
<1>8. recv.tick > call[c].tick \/ EndedWith(recv, trials')
  BY DEF EndedWith, recv
<1>9. GotNews(call'[c], trials', told')
  BY <1>5, <1>7, <1>8 DEF GotNews
<1> QED BY <1>2, <1>3, <1>4, <1>5, <1>6, <1>9, ClientMoves

LEMMA ReadingHears ==
  ASSUME NInv, Grows, IInv', NEW c \in Callers, Reading(c) \/ RemoveTrial(c) PROVE CallTypes' /\ ClientsHear'
<1> DEFINE n == call[c].trial
<1>1. n \in DOMAIN trials /\ UNCHANGED <<trials, told>> /\ Hears(call[c], trials, told)
  BY DEF NInv, ClientsHear, Hears, Reading, RemoveTrial, list, wire
<1>2. CASE call[c].is = "reading" /\ trials[n].status = "ended" /\ CallIs(c, [is |-> "removing"])
  <2> DEFINE fields == [is |-> "removing"]
  <2>1. DOMAIN fields = {"is"} /\ fields.is = "removing" /\ CallIs(c, fields)
    BY <1>2
  <2> HIDE DEF fields
  <2>2. /\ call'[c].is = "removing" /\ call'[c].tick = call[c].tick /\ call'[c].got = call[c].got
        /\ call'[c].trial = n
    BY <2>1, CallIsTo DEF NInv
  <2>3. Hears(call'[c], trials', told')
    BY <1>1, <1>2, <2>2 DEF Hears
  <2> QED BY <2>1, <2>2, <2>3, ClientWaits
<1>3. CASE (trials[n].status = "ended" \/ trials[n].recv.tick > call[c].tick) /\ Got(c, trials[n])
  BY <1>1, <1>3, GotHears
<1> QED BY <1>1, <1>2, <1>3 DEF Hears, Reading, RemoveTrial

LEMMA NInvStep == NInv /\ [Next]_vars => NInv'
<1> SUFFICES ASSUME NInv, [Next]_vars PROVE NInv'
  OBVIOUS
<1>1. IInv'
  BY NextHolds DEF NInv
<1>2. Grows /\ TrialsTold' /\ TicksInOrder'
  BY NextGrows, NextInOrder
<1>3. CallTypes' /\ ClientsHear'
  <2>1. CASE UNCHANGED call
    BY <2>1, <1>1, <1>2, CallsStay
  <2>2. ASSUME NEW c \in Callers, Waiting(c) \/ Calling(c) PROVE CallTypes' /\ ClientsHear'
    <3>1. CASE LeaveTrial(c)
      BY <2>1, <3>1 DEF LeaveTrial
    <3> QED BY <2>2, <3>1, <1>1, <1>2, JoinsHear, JoinedHears, ActHears, ActCheckedHears, SendEventHears,
               ActingHears, ReadingHears DEF Waiting, Calling
  <2> QED BY <2>1, <2>2
          DEF Next, vars, StartTrial, Starting, ActRequested, Reward, EndTrial, Disconnect, LeaveAllTrials,
              Observation
<1> QED BY <1>1, <1>2, <1>3 DEF NInv

LEMMA NewsIsNewHolds == NInv => NewsIsNew
<1> SUFFICES ASSUME NInv, NEW c \in Callers, call[c].got # NoEvent
             PROVE  LET got == call[c].got IN
               /\ \E k \in DOMAIN told : told[k] = got
               /\ got.tick > call[c].tick
                    \/ \E n \in DOMAIN trials : trials[n].status = "ended" /\ trials[n].recv = got
               /\ \A tick \in call[c].tick + 1..got.tick - 1 :
                    \E k \in DOMAIN actions : actions[k].tick = tick
  BY DEF NewsIsNew
<1> DEFINE got == call[c].got
<1>1. GotNews(call[c], trials, told) /\ call[c].tick \in Nat
  BY DEF NInv, ClientsHear, CallTypes
<1>2. WasTold(got, told) /\ (got.tick > call[c].tick \/ EndedWith(got, trials))
  BY <1>1 DEF GotNews
<1>3. PICK j \in DOMAIN told : told[j] = got
  BY <1>2 DEF WasTold
<1>4. /\ Len(told) \in Nat /\ DOMAIN told = 1..Len(told)
      /\ Len(actions) \in Nat /\ DOMAIN actions = 1..Len(actions) /\ Len(told) <= Len(actions) + 1
  BY Typed DEF NInv, IInv, Types, TicksInOrder
<1>5. \A k \in DOMAIN told : told[k].tick = k - 1 \/ (Len(told) = 1 /\ told[1].tick = 1)
  BY DEF NInv, TicksInOrder
<1>6. ASSUME NEW tick \in call[c].tick + 1..got.tick - 1
      PROVE  \E k \in DOMAIN actions : actions[k].tick = tick
  <2>1. got.tick = j - 1 \/ (Len(told) = 1 /\ got.tick = 1)
    BY <1>3, <1>4, <1>5
  <2>2. tick + 1 \in DOMAIN actions /\ tick + 1 \in DOMAIN told /\ Len(told) # 1
    BY <1>1, <1>4, <1>6, <2>1
  <2>3. told[tick + 1].tick = tick
    BY <1>1, <1>5, <1>6, <2>1, <2>2
  <2>4. actions[tick + 1].tick = told[tick + 1].tick
    BY <2>2 DEF NInv, IInv, ActionsAnswer
  <2> QED BY <2>2, <2>3, <2>4
<1> QED BY <1>2, <1>3, <1>6 DEF EndedWith

\* A client that acts is told of a later tick than the one it acted for, or of the end;
\* between the two other clients answered.
THEOREM NewsIsNewAlways == Spec => []NewsIsNew
<1>1. Init => NInv
  BY NInitHolds
<1>2. NInv /\ [Next]_vars => NInv'
  BY NInvStep
<1>3. NInv => NewsIsNew
  BY NewsIsNewHolds
<1> QED BY <1>1, <1>2, <1>3, PTL DEF Spec
=============================================================================
