------------------------------ MODULE WebProxy ------------------------------
(***************************************************************************)
(* The web proxy lets clients of its HTTP server (httpServer.go) take the  *)
(* part of an actor of a trial: the orchestrator talks to the proxy over   *)
(* the stream of RunTrial (serviceActorServer.go), and the manager of      *)
(* actor.go pairs its observations with the clients' actions.  What the    *)
(* manager does for one actor of one trial does not touch the others, so   *)
(* the model has one, and the clients that call for it.  Each step is what *)
(* a handler does under a lock; a wait tests the trial again after every   *)
(* change (waitForTrial, whose observer misses none).  The context that    *)
(* the HTTP handlers wait with has no end: a client that goes away leaves  *)
(* its handler waiting.                                                    *)
(***************************************************************************)
EXTENDS Integers, Sequences

CONSTANTS
  Callers,   \* HTTP clients, one call each at a time
  MaxTick,   \* bound: ticks of the trial
  MaxRewards, \* bound: rewards sent to the actor
  MaxTrials  \* bound: times the trial is added to the list

ASSUME ProxyAssumption == MaxTick \in Nat /\ MaxRewards \in Nat /\ MaxTrials \in Nat \ {0}

VARIABLES
  trials,  \* the actorTrial objects ever made: status, lastRecvEvent, lastSentEvent
  listed,  \* the one in the manager's list, or 0
  stream,  \* RunTrial: where it stands, currentTickID, receivedRewards
  call,    \* per client: the handler that runs for it
  sent,    \* how many rewards the orchestrator sent
  told,    \* the events given to the actor, in order
  actions  \* the events sent back to the orchestrator, in order

vars == <<trials, listed, stream, call, sent, told, actions>>

\* A RecvEvent is a tick with its rewards, a SentEvent a tick and who sent it.
NoEvent == [tick |-> 0, rewards |-> <<>>]
NoAction == [tick |-> 0, by |-> "nobody"]
NewTrial(status) == [status |-> status, recv |-> NoEvent, sent |-> NoAction]
\* `token` is whether the client has one; `got` the event its last call of Act returned.
NoCall == [is |-> "none", trial |-> 0, tick |-> 0, token |-> FALSE, got |-> NoEvent]
NoStream == [is |-> "none", tick |-> 0, rewards |-> <<>>]

Init ==
  /\ trials = <<>> /\ listed = 0
  /\ stream = NoStream
  /\ call = [c \in Callers |-> NoCall]
  /\ sent = 0 /\ told = <<>> /\ actions = <<>>

Status == IF listed = 0 THEN "absent" ELSE trials[listed].status
TickID(trial) == IF trial.sent.tick > trial.recv.tick THEN trial.sent.tick ELSE trial.recv.tick

\* What a trial may do next; its methods return an error otherwise.
CanStart(trial) == trial.status = "joined"
CanJoin(trial) == trial.status = "started"
CanLeave(trial) == trial.status \notin {"left", "ended"}
CanReceive(trial, tick) == trial.status = "waitForRecvEvent" /\ TickID(trial) <= tick
CanEnd(trial, tick) == CanLeave(trial) /\ TickID(trial) <= tick
\* Mutant: the tick of the action is not compared.
CanSendAny(trial, tick) == trial.status = "waitForSentEvent" /\ tick \in 0..TickID(trial)
CanSend(trial, tick) == trial.status = "waitForSentEvent" /\ TickID(trial) = tick

\* addTrialIfNeeded, when it is needed
Add(status) ==
  /\ Len(trials) < MaxTrials
  /\ trials' = Append(trials, NewTrial(status)) /\ listed' = Len(trials) + 1
ToStatus(n, status) == trials' = [trials EXCEPT ![n].status = status] /\ UNCHANGED listed
CallIs(c, fields) == call' = [call EXCEPT ![c] = [f \in DOMAIN NoCall |->
                                IF f \in DOMAIN fields THEN fields[f] ELSE @[f]]]
Return(c) == CallIs(c, [is |-> "none"])

list == <<trials, listed>>
wire == <<stream, sent, told, actions>>

-----------------------------------------------------------------------------
(* The HTTP server's handlers                                              *)

\* JoinTrial: the first step adds the trial, or finds it.
JoinTrial(c) ==
  /\ call[c].is = "none"
  /\ IF listed = 0 THEN Add("joined") /\ CallIs(c, [is |-> "joining"])
     ELSE CallIs(c, [is |-> "join", trial |-> listed]) /\ UNCHANGED list
  /\ UNCHANGED wire

\* Joining twice is no error.
Join(c) ==
  /\ call[c].is = "join"
  /\ LET trial == trials[call[c].trial]
     IN IF CanJoin(trial)
          THEN ToStatus(call[c].trial, "waitForRecvEvent") /\ CallIs(c, [is |-> "joining"])
        ELSE /\ UNCHANGED list
             /\ IF trial.status \in {"left", "ended"} THEN Return(c) ELSE CallIs(c, [is |-> "joining"])
  /\ UNCHANGED wire

\* hasInitialObservation
Joining(c) ==
  /\ call[c].is = "joining" /\ Status \notin {"absent", "waitForRecvEvent", "joined"}
  /\ IF Status = "waitForSentEvent" THEN CallIs(c, [is |-> "joined", trial |-> listed])
     ELSE Return(c)
  /\ UNCHANGED <<list, wire>>

\* The last event is sent to the client with its token.
Joined(c) ==
  /\ call[c].is = "joined" /\ CallIs(c, [is |-> "none", token |-> TRUE])
  /\ UNCHANGED <<list, wire>>

\* checkActorTrialToken
HasToken(c) == call[c].token

\* act and actEmpty: a client with a token acts for any tick, whether it was told of it
\* or not.  The class of the actor is not known before the trial has started, and there
\* is no action without it.
Act(c, tick) ==
  /\ call[c].is = "none" /\ HasToken(c)
  /\ Status \notin {"absent", "joined"}
  /\ CallIs(c, [is |-> "checked", tick |-> tick, got |-> NoEvent])
  /\ UNCHANGED <<list, wire>>

\* Manager.Act up to the status of the trial.
ActChecked(c) ==
  /\ call[c].is = "checked"
  /\ CASE Status = "ended" -> CallIs(c, [is |-> "removing", trial |-> listed])
       [] Status \in {"absent", "left"} -> Return(c)
       [] OTHER -> CallIs(c, [is |-> "sending", trial |-> listed])
  /\ UNCHANGED <<list, wire>>

SendEvent(c) ==
  /\ call[c].is = "sending"
  /\ LET n == call[c].trial
     IN IF CanSend(trials[n], call[c].tick)
          THEN /\ trials' = [trials EXCEPT ![n] = [@ EXCEPT
                    !.status = "waitForRecvEvent", !.sent = [tick |-> call[c].tick, by |-> c]]]
               /\ CallIs(c, [is |-> "acting"])
          ELSE Return(c) /\ UNCHANGED trials
  /\ UNCHANGED <<listed, wire>>

\* Mutants: the wait also ends on the status the client left; it goes on when
\* the trial was left.
ActingEarly(c) ==
  /\ call[c].is = "acting"
  /\ IF Status \in {"waitForSentEvent", "waitForRecvEvent", "ended"}
       THEN CallIs(c, [is |-> "reading", trial |-> listed]) ELSE Return(c)
  /\ UNCHANGED <<list, wire>>
ActingOn(c) ==
  /\ call[c].is = "acting" /\ Status \notin {"waitForRecvEvent", "left"}
  /\ IF Status \in {"waitForSentEvent", "ended"}
       THEN CallIs(c, [is |-> "reading", trial |-> listed]) ELSE Return(c)
  /\ UNCHANGED <<list, wire>>

\* hasNextObservation
Acting(c) ==
  /\ call[c].is = "acting" /\ Status # "waitForRecvEvent"
  /\ IF Status \in {"waitForSentEvent", "ended"}
       THEN CallIs(c, [is |-> "reading", trial |-> listed]) ELSE Return(c)
  /\ UNCHANGED <<list, wire>>

Got(c, trial) == CallIs(c, [is |-> "none", got |-> trial.recv])

\* The status is read once more, and then the last event.
Reading(c) ==
  /\ call[c].is = "reading"
  /\ LET trial == trials[call[c].trial]
     IN IF trial.status = "ended" THEN CallIs(c, [is |-> "removing"]) ELSE Got(c, trial)
  /\ UNCHANGED <<list, wire>>

\* removeTrial looks for the trial by its names: what it finds may be another.
RemoveTrial(c) ==
  /\ call[c].is = "removing" /\ listed' = 0 /\ Got(c, trials[call[c].trial])
  /\ UNCHANGED <<trials, wire>>

\* Manager.LeaveTrial
LeaveListed == listed # 0 /\ CanLeave(trials[listed]) /\ ToStatus(listed, "left")
LeaveTrial(c) == call[c].is = "none" /\ HasToken(c) /\ LeaveListed /\ UNCHANGED <<call, wire>>

\* Destroy, when the proxy stops
LeaveAllTrials == LeaveListed /\ UNCHANGED <<call, wire>>

-----------------------------------------------------------------------------
(* RunTrial: the orchestrator's messages, and the waits of its handler      *)

StreamIs(is) == stream' = [stream EXCEPT !.is = is]
Fail == StreamIs("over") /\ UNCHANGED list

\* Manager.StartTrial up to its wait
MarkStarted ==
  IF listed = 0 THEN Add("started") /\ StreamIs("starting")
  ELSE IF CanStart(trials[listed]) THEN ToStatus(listed, "waitForRecvEvent") /\ StreamIs("open")
  ELSE Fail

\* The first message, of a class and with a configuration the proxy knows.
StartTrial == stream.is = "none" /\ MarkStarted /\ UNCHANGED <<call, sent, told, actions>>

\* isJoined
Starting ==
  /\ stream.is = "starting" /\ Status \notin {"absent", "started"}
  /\ StreamIs(IF Status = "waitForRecvEvent" THEN "open" ELSE "over")
  /\ UNCHANGED <<list, call, sent, told, actions>>

\* An observation: RequestAct up to ReceiveEvent.
Observation(tick) ==
  LET event == [tick |-> tick, rewards |-> stream.rewards]
  IN /\ stream.is = "open" /\ tick <= MaxTick /\ tick = Len(told)
     /\ IF listed # 0 /\ CanReceive(trials[listed], tick)
          THEN /\ trials' = [trials EXCEPT ![listed] = [@ EXCEPT
                    !.status = "waitForSentEvent", !.recv = event]]
               /\ stream' = [stream EXCEPT !.is = "acting", !.tick = tick]
               /\ told' = Append(told, event) /\ UNCHANGED listed
          ELSE Fail /\ UNCHANGED told
     /\ UNCHANGED <<call, sent, actions>>

\* Mutant: the rewards that were given are kept.
ActRequestedKeep ==
  /\ stream.is = "acting" /\ Status # "waitForSentEvent"
  /\ IF Status = "waitForRecvEvent"
       THEN StreamIs("open") /\ actions' = Append(actions, trials[listed].sent)
       ELSE StreamIs("over") /\ UNCHANGED actions
  /\ UNCHANGED <<list, call, sent, told>>

\* hasNextAction; then the rewards were given, and the action goes out.
ActRequested ==
  /\ stream.is = "acting" /\ Status # "waitForSentEvent"
  /\ IF Status = "waitForRecvEvent"
       THEN /\ stream' = [stream EXCEPT !.is = "open", !.rewards = <<>>]
            /\ actions' = Append(actions, trials[listed].sent)
       ELSE StreamIs("over") /\ UNCHANGED actions
  /\ UNCHANGED <<list, call, sent, told>>

Reward ==
  /\ stream.is = "open" /\ sent < MaxRewards /\ sent' = sent + 1
  /\ stream' = [stream EXCEPT !.rewards = Append(@, sent + 1)]
  /\ UNCHANGED <<list, call, told, actions>>

\* Manager.EndTrial
End(event) ==
  IF listed # 0 /\ CanEnd(trials[listed], event.tick)
    THEN /\ trials' = [trials EXCEPT ![listed] = [@ EXCEPT !.status = "ended", !.recv = event]]
         /\ told' = Append(told, event)
    ELSE UNCHANGED <<trials, told>>

\* The END message
EndTrial ==
  /\ stream.is = "open" /\ StreamIs("over")
  /\ End([tick |-> stream.tick + 1, rewards |-> stream.rewards])
  /\ UNCHANGED <<listed, call, sent, actions>>

\* The stream closes or breaks, or the handler fails on a message it cannot
\* read; the trial stays as it is.
Disconnect == stream.is # "over" /\ Fail /\ UNCHANGED <<call, sent, told, actions>>

-----------------------------------------------------------------------------
Waiting(c) == Join(c) \/ Joining(c) \/ Joined(c) \/ ActChecked(c) \/ SendEvent(c) \/ Acting(c)
                \/ Reading(c) \/ RemoveTrial(c)
Calling(c) == JoinTrial(c) \/ LeaveTrial(c) \/ \E tick \in 0..MaxTick + 1 : Act(c, tick)

Next ==
  \/ \E c \in Callers : Waiting(c) \/ Calling(c)
  \/ StartTrial \/ Starting \/ ActRequested \/ Reward \/ EndTrial \/ Disconnect \/ LeaveAllTrials
  \/ \E tick \in 0..MaxTick : Observation(tick)

Spec == Init /\ [][Next]_vars

\* A handler that can go on does.
Fairness ==
  /\ WF_vars(Starting) /\ WF_vars(ActRequested) /\ \A c \in Callers : WF_vars(Waiting(c))
FairSpec == Spec /\ Fairness

-----------------------------------------------------------------------------
(* Properties                                                              *)

\* The orchestrator gets one action for each observation, in order and of its
\* tick, whoever acts how often (serviceActorServer.go, RequestAct).
ActionsAnswer ==
  /\ Len(actions) <= Len(told)
  /\ \A k \in DOMAIN actions : actions[k].tick = told[k].tick /\ actions[k].by \in Callers

\* A reward reaches the actor once, with the first event after it, and in the
\* order of the stream, also when an event is refused.
Batch(k) == IF k <= Len(told) THEN told[k].rewards
            ELSE IF stream.is \in {"acting", "over"} THEN <<>> ELSE stream.rewards
GivenRewards == UNION {{Batch(k)[i] : i \in DOMAIN Batch(k)} : k \in 1..Len(told) + 1}
RewardsOnce ==
  /\ \A k, l \in 1..Len(told) + 1 : \A i \in DOMAIN Batch(k), j \in DOMAIN Batch(l) :
       k < l \/ (k = l /\ i < j) => Batch(k)[i] < Batch(l)[j]
  /\ \E n \in 0..sent : GivenRewards = 1..n /\ (stream.is # "over" => n = sent)

\* A client that acts is told of a later tick than the one it acted for, or of
\* the end, as the trial had it; what it was not told of in between another
\* client answered.
NewsIsNew ==
  \A c \in Callers : LET got == call[c].got IN
    got # NoEvent =>
      /\ \E k \in DOMAIN told : told[k] = got
      /\ got.tick > call[c].tick \/ \E n \in DOMAIN trials : trials[n].status = "ended" /\ trials[n].recv = got
      /\ \A tick \in call[c].tick + 1..got.tick - 1 :
           \E k \in DOMAIN actions : actions[k].tick = tick

\* When the trial has ended, or the actor left it, nobody waits for it: neither
\* the clients that acted nor the orchestrator that asked for an action.
Over == Status \in {"ended", "left"}
EveryoneHears ==
  /\ \A c \in Callers : (call[c].is = "acting" /\ Over) ~> call[c].is # "acting"
  /\ (stream.is \in {"starting", "acting"} /\ Over) ~> stream.is = "over"
=============================================================================
