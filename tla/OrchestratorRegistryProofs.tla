---------------------- MODULE OrchestratorRegistryProofs ----------------------
(***************************************************************************)
(* Proofs about OrchestratorRegistry, for any number of calls and watchers *)
(* and any choice of ids.                                                  *)
(***************************************************************************)
EXTENDS OrchestratorRegistry, TLAPS

-----------------------------------------------------------------------------
(* Types.                                                                  *)

\* The states of m_state.
LEMMA StatesAre ==
  States = {"none", "initializing", "pending", "running", "terminating", "ended"}
  <1>1. States = {Stages[1], Stages[2], Stages[3], Stages[4], Stages[5], Stages[6]}
    BY DEF States
  <1>2. QED
    BY <1>1 DEF Stages

\* What the watchers are told are states, of trials.
LEMMA TellType ==
  ASSUME TrialsOK, WatchOK, NEW W, NEW X \in SUBSET Clients, Tell(W, X)
  PROVE  told' \in [Watchers -> [Clients -> States]]
  BY DEF Tell, TrialsOK, WatchOK

\* So a notification keeps the types.
LEMMA NotifyType ==
  ASSUME TrialsOK, WatchOK, NEW by, NEW x \in Clients, Notify(by, x)
  PROVE  /\ WatchOK' /\ tstate' = tstate
         /\ stateLock' = [stateLock EXCEPT ![x] = Nobody]
  <1>1. Tell(watching \cap connected, {x})
    BY DEF Notify
  <1>2. told' \in [Watchers -> [Clients -> States]]
    BY <1>1, TellType
  <1>3. QED
    BY <1>2 DEF Notify, WatchOK

\* And leaves each call somewhere.
LEMMA AfterNotifyType ==
  ASSUME CallsOK, NEW t, NEW place, place \in Places \/ t \notin Enders \cup Watchers,
         AfterNotify(t, place)
  PROVE  pc' \in [Enders \cup Watchers -> Places]
  BY DEF AfterNotify, CallsOK, Places

\* A step that leaves the variables of a part of TypeOK alone keeps that part.
LEMMA Frames ==
  /\ TrialsOK /\ UNCHANGED trialVars => TrialsOK'
  /\ ListOK /\ UNCHANGED listVars => ListOK'
  /\ WatchOK /\ UNCHANGED watchVars => WatchOK'
  /\ CallsOK /\ UNCHANGED callVars => CallsOK'
  <1>1. TrialsOK /\ UNCHANGED trialVars => TrialsOK'
    BY DEF TrialsOK, trialVars
  <1>2. ListOK /\ UNCHANGED listVars => ListOK'
    BY DEF ListOK, listVars
  <1>3. WatchOK /\ UNCHANGED watchVars => WatchOK'
    BY DEF WatchOK, watchVars
  <1>4. CallsOK /\ UNCHANGED callVars => CallsOK'
    BY DEF CallsOK, callVars
  <1>5. QED
    BY <1>1, <1>2, <1>3, <1>4

\* Every variable keeps its type in every step.
LEMMA TypeStep == TypeOK /\ [Next]_vars => TypeOK'
  <1> SUFFICES ASSUME TypeOK, [Next]_vars
               PROVE  TypeOK'
    OBVIOUS
  <1> USE DEF TypeOK
  <1>1. ASSUME NEW c \in Clients, StartCheck(c)
        PROVE  TypeOK'
    <2>1. UNCHANGED <<trialVars, listVars, watchVars>>
      BY <1>1 DEF StartCheck
    <2>2. CallsOK'
      BY <1>1 DEF StartCheck, CallsOK, callVars, Goto, Return, Places, Enders
    <2>3. QED
      BY <2>1, <2>2, Frames
  <1>2. ASSUME NEW c \in Clients, GcTick(c)
        PROVE  TypeOK'
    <2>1. UNCHANGED <<trialVars, watchVars>>
      BY <1>2 DEF GcTick
    <2>2. ListOK'
      BY <1>2, RegistryAssumption DEF GcTick, ListOK, listVars
    <2>3. CallsOK'
      BY <1>2 DEF GcTick, CallsOK, callVars, Goto, Places, Enders
    <2>4. QED
      BY <2>1, <2>2, <2>3, Frames
  <1>3. ASSUME NEW c \in Clients, GcDue(c)
        PROVE  TypeOK'
    <2>1. UNCHANGED <<trialVars, listVars, watchVars>>
      BY <1>3 DEF GcDue
    <2>2. CallsOK'
      BY <1>3 DEF GcDue, CallsOK, callVars, Goto, Places, Enders
    <2>3. QED
      BY <2>1, <2>2, Frames
  <1>4. ASSUME NEW c \in Clients, GcReset(c)
        PROVE  TypeOK'
    <2>1. UNCHANGED <<trialVars, watchVars>>
      BY <1>4 DEF GcReset
    <2>2. ListOK'
      BY <1>4, RegistryAssumption DEF GcReset, ListOK, listVars
    <2>3. CallsOK'
      BY <1>4 DEF GcReset, CallsOK, callVars, Goto, Places, Enders
    <2>4. QED
      BY <2>1, <2>2, <2>3, Frames
  <1>5. ASSUME NEW c \in Clients, Collect(c)
        PROVE  TypeOK'
    <2>1. UNCHANGED <<trialVars, watchVars>>
      BY <1>5 DEF Collect
    <2>2. ListOK'
      BY <1>5 DEF Collect, ListOK, listVars
    <2>3. CallsOK'
      BY <1>5 DEF Collect, CallsOK, callVars, Goto, Places, Enders, ListOK
    <2>4. QED
      BY <2>1, <2>2, <2>3, Frames
  <1>6. ASSUME NEW c \in Clients, NextStale(c)
        PROVE  TypeOK'
    <2>1. UNCHANGED <<trialVars, watchVars>>
      BY <1>6 DEF NextStale
    <2>2. ListOK'
      BY <1>6 DEF NextStale, ListOK, listVars
    <2>3. CallsOK'
      BY <1>6 DEF NextStale, CallsOK, callVars, Goto, Places, Enders
    <2>4. QED
      BY <2>1, <2>2, <2>3, Frames
  <1>7. ASSUME NEW c \in Clients, Make(c)
        PROVE  TypeOK'
    <2>1. UNCHANGED <<listVars, watchVars>>
      BY <1>7 DEF Make
    <2>2. TrialsOK'
      BY <1>7, StatesAre DEF Make, TrialsOK, trialVars, Assign, Enders
    <2>3. CallsOK'
      BY <1>7 DEF Make, CallsOK, callVars, Goto, Places, Enders
    <2>4. QED
      BY <2>1, <2>2, <2>3, Frames
  <1>8. ASSUME NEW c \in Clients, TellMade(c)
        PROVE  TypeOK'
    <2>1. UNCHANGED <<listVars>>
      BY <1>8 DEF TellMade
    <2>2. TrialsOK'
      BY <1>8, NotifyType DEF TellMade, TrialsOK, trialVars, Enders
    <2>3. WatchOK'
      BY <1>8, NotifyType DEF TellMade
    <2>4. CallsOK'
      BY <1>8, AfterNotifyType, RegistryAssumption
      DEF TellMade, CallsOK, Places, AfterTerminate, Enders
    <2>5. QED
      BY <2>1, <2>2, <2>3, <2>4, Frames
  <1>9. ASSUME NEW c \in Clients, Insert(c)
        PROVE  TypeOK'
    <2>1. UNCHANGED <<trialVars, watchVars>>
      BY <1>9 DEF Insert
    <2>2. ListOK'
      BY <1>9 DEF Insert, ListOK, listVars
    <2>3. CallsOK'
      BY <1>9 DEF Insert, CallsOK, callVars, Goto, Return, Places, Enders
    <2>4. QED
      BY <2>1, <2>2, <2>3, Frames
  <1>10. ASSUME NEW c \in Clients, Hooks(c)
        PROVE  TypeOK'
    <2>1. UNCHANGED <<trialVars, listVars, watchVars>>
      BY <1>10 DEF Hooks
    <2>2. CallsOK'
      BY <1>10 DEF Hooks, CallsOK, callVars, Goto, Return, Places, Enders
    <2>3. QED
      BY <2>1, <2>2, Frames
  <1>11. ASSUME NEW c \in Clients, StartFails(c)
        PROVE  TypeOK'
    <2>1. UNCHANGED <<trialVars, listVars, watchVars>>
      BY <1>11 DEF StartFails
    <2>2. CallsOK'
      BY <1>11 DEF StartFails, CallsOK, callVars, Return, Places, Enders, Goto
    <2>3. QED
      BY <2>1, <2>2, Frames
  <1>12. ASSUME NEW c \in Clients, Start(c)
        PROVE  TypeOK'
    <2>1. UNCHANGED <<listVars, watchVars>>
      BY <1>12 DEF Start
    <2>2. TrialsOK'
      BY <1>12, StatesAre DEF Start, TrialsOK, trialVars, Assign, Enders
    <2>3. CallsOK'
      BY <1>12 DEF Start, CallsOK, callVars, Goto, Places, Enders
    <2>4. QED
      BY <2>1, <2>2, <2>3, Frames
  <1>13. ASSUME NEW c \in Clients, Started(c)
        PROVE  TypeOK'
    <2>1. UNCHANGED <<listVars>>
      BY <1>13 DEF Started
    <2>2. TrialsOK'
      BY <1>13, NotifyType DEF Started, TrialsOK, trialVars, Enders
    <2>3. WatchOK'
      BY <1>13, NotifyType DEF Started
    <2>4. CallsOK'
      BY <1>13, AfterNotifyType, RegistryAssumption
      DEF Started, CallsOK, Places, AfterTerminate, Enders
    <2>5. QED
      BY <2>1, <2>2, <2>3, <2>4, Frames
  <1>14. ASSUME NEW c \in Clients, LifeStep(c)
        PROVE  TypeOK'
    <2>1. UNCHANGED <<listVars, watchVars, callVars>>
      BY <1>14 DEF LifeStep
    <2>2. TrialsOK'
      BY <1>14, StatesAre DEF LifeStep, TrialsOK, trialVars, Assign, Enders
    <2>3. QED
      BY <2>1, <2>2, Frames
  <1>15. ASSUME NEW c \in Clients, LifeTells(c)
        PROVE  TypeOK'
    <2>1. UNCHANGED <<listVars>>
      BY <1>15 DEF LifeTells
    <2>2. TrialsOK'
      BY <1>15, NotifyType DEF LifeTells, TrialsOK, trialVars, Enders
    <2>3. WatchOK'
      BY <1>15, NotifyType DEF LifeTells
    <2>4. CallsOK'
      BY <1>15, AfterNotifyType, RegistryAssumption
      DEF LifeTells, CallsOK, Places, AfterTerminate, Enders
    <2>5. QED
      BY <2>1, <2>2, <2>3, <2>4, Frames
  <1>16. ASSUME NEW k \in Killers, Find(k)
        PROVE  TypeOK'
    <2>1. UNCHANGED <<trialVars, listVars, watchVars>>
      BY <1>16 DEF Find
    <2>2. CallsOK'
      BY <1>16 DEF Find, CallsOK, callVars, Goto, Places, Enders, ListOK
    <2>3. QED
      BY <2>1, <2>2, Frames
  <1>17. ASSUME NEW t \in Enders, Terminate(t)
        PROVE  TypeOK'
    <2>1. UNCHANGED <<listVars, watchVars>>
      BY <1>17 DEF Terminate
    <2>2. TrialsOK'
      BY <1>17 DEF Terminate, TrialsOK, trialVars, Enders, CallsOK
    <2>3. CallsOK'
      BY <1>17 DEF Terminate, CallsOK, callVars, Goto, AfterTerminate, Places, Enders
    <2>4. QED
      BY <2>1, <2>2, <2>3, Frames
  <1>18. ASSUME NEW t \in Enders, Terminating(t)
        PROVE  TypeOK'
    <2>1. UNCHANGED <<listVars, watchVars>>
      BY <1>18 DEF Terminating
    <2>2. TrialsOK'
      BY <1>18, StatesAre DEF Terminating, TrialsOK, trialVars, Assign, Enders, CallsOK
    <2>3. CallsOK'
      BY <1>18 DEF Terminating, CallsOK, callVars, Goto, Places, Enders
    <2>4. QED
      BY <2>1, <2>2, <2>3, Frames
  <1>19. ASSUME NEW t \in Enders, TellTerminating(t)
        PROVE  TypeOK'
    <2>1. UNCHANGED <<listVars>>
      BY <1>19 DEF TellTerminating
    <2>2. PICK x \in target[t] : /\ Notify(t, x)
                           /\ AfterNotify(t, "end")
      BY <1>19 DEF TellTerminating
    <2>3. x \in Clients
      BY DEF CallsOK
    <2>4. TrialsOK'
      BY <1>19, <2>2, <2>3, NotifyType
      DEF TellTerminating, TrialsOK, trialVars, Enders, CallsOK
    <2>5. WatchOK'
      BY <1>19, <2>2, <2>3, NotifyType DEF TellTerminating
    <2>6. CallsOK'
      BY <1>19, <2>2, <2>3, AfterNotifyType, RegistryAssumption
      DEF TellTerminating, CallsOK, Places, AfterTerminate, Enders
    <2>7. QED
      BY <2>1, <2>4, <2>5, <2>6, Frames
  <1>20. ASSUME NEW t \in Enders, End(t)
        PROVE  TypeOK'
    <2>1. UNCHANGED <<listVars, watchVars>>
      BY <1>20 DEF End
    <2>2. TrialsOK'
      BY <1>20, StatesAre DEF End, TrialsOK, trialVars, Assign, Enders, CallsOK
    <2>3. CallsOK'
      BY <1>20 DEF End, CallsOK, callVars, Goto, AfterTerminate, Places, Enders
    <2>4. QED
      BY <2>1, <2>2, <2>3, Frames
  <1>21. ASSUME NEW t \in Enders, TellEnded(t)
        PROVE  TypeOK'
    <2>1. UNCHANGED <<listVars>>
      BY <1>21 DEF TellEnded
    <2>2. PICK x \in target[t] : /\ Notify(t, x)
                           /\ AfterNotify(t, AfterTerminate(t))
                           /\ termLock' = [termLock EXCEPT ![x] = Nobody]
                           /\ target' = [target EXCEPT ![t] = @ \ {x}]
      BY <1>21 DEF TellEnded
    <2>3. x \in Clients
      BY DEF CallsOK
    <2>4. TrialsOK'
      BY <1>21, <2>2, <2>3, NotifyType DEF TellEnded, TrialsOK, trialVars, Enders, CallsOK
    <2>5. WatchOK'
      BY <1>21, <2>2, <2>3, NotifyType DEF TellEnded
    <2>6. CallsOK'
      BY <1>21, <2>2, <2>3, AfterNotifyType, RegistryAssumption
      DEF TellEnded, CallsOK, Places, AfterTerminate, Enders
    <2>7. QED
      BY <2>1, <2>4, <2>5, <2>6, Frames
  <1>22. ASSUME NEW w \in Watchers, Watch(w)
        PROVE  TypeOK'
    <2>1. UNCHANGED <<trialVars, listVars>>
      BY <1>22 DEF Watch
    <2>2. WatchOK'
      BY <1>22 DEF Watch, WatchOK, watchVars
    <2>3. CallsOK'
      BY <1>22 DEF Watch, CallsOK, callVars, Goto, Places, Enders
    <2>4. QED
      BY <2>1, <2>2, <2>3, Frames
  <1>23. ASSUME NEW w \in Watchers, WatchList(w)
        PROVE  TypeOK'
    <2>1. UNCHANGED <<trialVars, listVars>>
      BY <1>23 DEF WatchList
    <2>2. WatchOK'
      BY <1>23 DEF WatchList, WatchOK, watchVars, ListOK
    <2>3. CallsOK'
      BY <1>23 DEF WatchList, CallsOK, callVars, Goto, Places, Enders
    <2>4. QED
      BY <2>1, <2>2, <2>3, Frames
  <1>24. ASSUME NEW w \in Watchers, WatchReport(w)
        PROVE  TypeOK'
    <2>1. UNCHANGED <<trialVars, listVars>>
      BY <1>24 DEF WatchReport
    <2>2. WatchOK'
      <3>1. (\E x \in listed[w] : Tell({w}, {x})) \/ UNCHANGED told
        BY <1>24 DEF WatchReport
      <3>2. \A x \in listed[w] : x \in Clients
        BY DEF WatchOK
      <3>3. told' \in [Watchers -> [Clients -> States]]
        BY <3>1, <3>2, TellType DEF WatchOK
      <3>4. /\ UNCHANGED <<watching, connected>> /\ notifyLock' \in {notifyLock, Nobody}
            /\ listed' = listed \/ \E x \in listed[w] : listed' = [listed EXCEPT ![w] = @ \ {x}]
        BY <1>24 DEF WatchReport
      <3>5. listed' \in [Watchers -> SUBSET Clients]
        BY <3>4 DEF WatchOK
      <3>6. QED
        BY <3>3, <3>4, <3>5 DEF WatchOK
    <2>3. CallsOK'
      BY <1>24 DEF WatchReport, CallsOK, callVars, Goto, Places, Enders
    <2>4. QED
      BY <2>1, <2>2, <2>3, Frames
  <1>25. ASSUME NEW w \in Watchers, WatchReady(w)
        PROVE  TypeOK'
    <2>1. UNCHANGED <<trialVars, listVars>>
      BY <1>25 DEF WatchReady
    <2>2. WatchOK'
      BY <1>25 DEF WatchReady, WatchOK, watchVars
    <2>3. CallsOK'
      BY <1>25 DEF WatchReady, CallsOK, callVars, Goto, Places, Enders
    <2>4. QED
      BY <2>1, <2>2, <2>3, Frames
  <1>26. ASSUME NEW w \in Watchers, Disconnect(w)
        PROVE  TypeOK'
    <2>1. UNCHANGED <<trialVars, listVars, callVars>>
      BY <1>26 DEF Disconnect
    <2>2. WatchOK'
      BY <1>26 DEF Disconnect, WatchOK, watchVars
    <2>3. QED
      BY <2>1, <2>2, Frames
  <1>27. CASE UNCHANGED vars
    BY <1>27, Frames DEF vars
  <1>28. QED
    BY <1>1, <1>2, <1>3, <1>4, <1>5, <1>6, <1>7, <1>8, <1>9, <1>10, <1>11, <1>12, <1>13,
       <1>14, <1>15, <1>16, <1>17, <1>18, <1>19, <1>20, <1>21, <1>22, <1>23, <1>24, <1>25,
       <1>26, <1>27
    DEF Next, Call, Ending, Watching

\* An orchestrator begins with every variable of its type.
LEMMA TypeInit == Init => TypeOK
  <1> SUFFICES ASSUME Init
               PROVE  TypeOK
    OBVIOUS
  <1>1. TrialsOK
    BY StatesAre DEF Init, TrialsOK
  <1>2. ListOK
    BY RegistryAssumption DEF Init, ListOK
  <1>3. WatchOK
    BY StatesAre DEF Init, WatchOK
  <1>4. CallsOK
    BY DEF Init, CallsOK, Places
  <1>5. QED
    BY <1>1, <1>2, <1>3, <1>4 DEF TypeOK

\* The orchestrator's variables keep their types, and the countdown stays within
\* the frequency, whatever calls race.
THEOREM TypeInvariant == Spec => []TypeOK
  BY TypeInit, TypeStep, PTL DEF Spec

-----------------------------------------------------------------------------
(* The list.                                                               *)

\* Only Insert adds to the list, and it adds its own trial, if its id is free.
LEMMA ListGrows ==
  [Next]_vars => registered' \subseteq registered \/ \E c \in Clients : Insert(c)
  <1> SUFFICES ASSUME [Next]_vars
               PROVE  registered' \subseteq registered \/ \E c \in Clients : Insert(c)
    OBVIOUS
  <1>1. ASSUME NEW c \in Clients, StartCheck(c)
        PROVE  registered' \subseteq registered \/ \E d \in Clients : Insert(d)
    BY <1>1 DEF StartCheck, listVars
  <1>2. ASSUME NEW c \in Clients, GcTick(c)
        PROVE  registered' \subseteq registered \/ \E d \in Clients : Insert(d)
    BY <1>2 DEF GcTick
  <1>3. ASSUME NEW c \in Clients, GcDue(c)
        PROVE  registered' \subseteq registered \/ \E d \in Clients : Insert(d)
    BY <1>3 DEF GcDue, listVars
  <1>4. ASSUME NEW c \in Clients, GcReset(c)
        PROVE  registered' \subseteq registered \/ \E d \in Clients : Insert(d)
    BY <1>4 DEF GcReset
  <1>5. ASSUME NEW c \in Clients, Collect(c)
        PROVE  registered' \subseteq registered \/ \E d \in Clients : Insert(d)
    BY <1>5 DEF Collect
  <1>6. ASSUME NEW c \in Clients, NextStale(c)
        PROVE  registered' \subseteq registered \/ \E d \in Clients : Insert(d)
    BY <1>6 DEF NextStale
  <1>7. ASSUME NEW c \in Clients, Make(c)
        PROVE  registered' \subseteq registered \/ \E d \in Clients : Insert(d)
    BY <1>7 DEF Make, listVars
  <1>8. ASSUME NEW c \in Clients, TellMade(c)
        PROVE  registered' \subseteq registered \/ \E d \in Clients : Insert(d)
    BY <1>8 DEF TellMade, listVars
  <1>9. ASSUME NEW c \in Clients, Insert(c)
        PROVE  registered' \subseteq registered \/ \E d \in Clients : Insert(d)
    BY <1>9
  <1>10. ASSUME NEW c \in Clients, Hooks(c)
        PROVE  registered' \subseteq registered \/ \E d \in Clients : Insert(d)
    BY <1>10 DEF Hooks, listVars
  <1>11. ASSUME NEW c \in Clients, StartFails(c)
        PROVE  registered' \subseteq registered \/ \E d \in Clients : Insert(d)
    BY <1>11 DEF StartFails, listVars
  <1>12. ASSUME NEW c \in Clients, Start(c)
        PROVE  registered' \subseteq registered \/ \E d \in Clients : Insert(d)
    BY <1>12 DEF Start, listVars
  <1>13. ASSUME NEW c \in Clients, Started(c)
        PROVE  registered' \subseteq registered \/ \E d \in Clients : Insert(d)
    BY <1>13 DEF Started, listVars
  <1>14. ASSUME NEW c \in Clients, LifeStep(c)
        PROVE  registered' \subseteq registered \/ \E d \in Clients : Insert(d)
    BY <1>14 DEF LifeStep, listVars
  <1>15. ASSUME NEW c \in Clients, LifeTells(c)
        PROVE  registered' \subseteq registered \/ \E d \in Clients : Insert(d)
    BY <1>15 DEF LifeTells, listVars
  <1>16. ASSUME NEW k \in Killers, Find(k)
        PROVE  registered' \subseteq registered \/ \E d \in Clients : Insert(d)
    BY <1>16 DEF Find, listVars
  <1>17. ASSUME NEW t \in Enders, Terminate(t)
        PROVE  registered' \subseteq registered \/ \E d \in Clients : Insert(d)
    BY <1>17 DEF Terminate, listVars
  <1>18. ASSUME NEW t \in Enders, Terminating(t)
        PROVE  registered' \subseteq registered \/ \E d \in Clients : Insert(d)
    BY <1>18 DEF Terminating, listVars
  <1>19. ASSUME NEW t \in Enders, TellTerminating(t)
        PROVE  registered' \subseteq registered \/ \E d \in Clients : Insert(d)
    BY <1>19 DEF TellTerminating, listVars
  <1>20. ASSUME NEW t \in Enders, End(t)
        PROVE  registered' \subseteq registered \/ \E d \in Clients : Insert(d)
    BY <1>20 DEF End, listVars
  <1>21. ASSUME NEW t \in Enders, TellEnded(t)
        PROVE  registered' \subseteq registered \/ \E d \in Clients : Insert(d)
    BY <1>21 DEF TellEnded, listVars
  <1>22. ASSUME NEW w \in Watchers, Watch(w)
        PROVE  registered' \subseteq registered \/ \E d \in Clients : Insert(d)
    BY <1>22 DEF Watch, listVars
  <1>23. ASSUME NEW w \in Watchers, WatchList(w)
        PROVE  registered' \subseteq registered \/ \E d \in Clients : Insert(d)
    BY <1>23 DEF WatchList, listVars
  <1>24. ASSUME NEW w \in Watchers, WatchReport(w)
        PROVE  registered' \subseteq registered \/ \E d \in Clients : Insert(d)
    BY <1>24 DEF WatchReport, listVars
  <1>25. ASSUME NEW w \in Watchers, WatchReady(w)
        PROVE  registered' \subseteq registered \/ \E d \in Clients : Insert(d)
    BY <1>25 DEF WatchReady, listVars
  <1>26. ASSUME NEW w \in Watchers, Disconnect(w)
        PROVE  registered' \subseteq registered \/ \E d \in Clients : Insert(d)
    BY <1>26 DEF Disconnect, listVars
  <1>27. CASE UNCHANGED vars
    BY <1>27 DEF vars, listVars
  <1>28. QED
    BY <1>1, <1>2, <1>3, <1>4, <1>5, <1>6, <1>7, <1>8, <1>9, <1>10, <1>11, <1>12, <1>13,
       <1>14, <1>15, <1>16, <1>17, <1>18, <1>19, <1>20, <1>21, <1>22, <1>23, <1>24, <1>25,
       <1>26, <1>27
    DEF Next, Call, Ending, Watching

\* The trials of the list have distinct ids, for any number of calls that ask for
\* the same one at the same time.
THEOREM IdsUnique == Spec => []UniqueIds
  <1>1. Init => UniqueIds
    BY DEF Init, UniqueIds
  <1>2. UniqueIds /\ [Next]_vars => UniqueIds'
    <2> SUFFICES ASSUME UniqueIds, [Next]_vars
                 PROVE  UniqueIds'
      OBVIOUS
    <2>1. CASE registered' \subseteq registered
      BY <2>1 DEF UniqueIds
    <2>2. ASSUME NEW c \in Clients, Insert(c)
          PROVE  UniqueIds'
      BY <2>2 DEF Insert, Taken, UniqueIds
    <2>3. QED
      BY <2>1, <2>2, ListGrows
  <1>3. QED
    BY <1>1, <1>2, PTL DEF Spec

\* A call that has an outcome is over; once it has put its trial in the list, the
\* trial stays there until it has ended.
InList ==
  \A c \in Clients :
    /\ reply[c] # "none" => pc[c] = "returned"
    /\ pc[c] \in {"hooks", "start", "tell_pending"} \/ reply[c] = "started"
         => tstate[c] = "ended" \/ c \in registered

LEMMA InListStep == TypeOK /\ InList /\ [Next]_vars => InList'
  <1> SUFFICES ASSUME TypeOK, InList, [Next]_vars
               PROVE  InList'
    OBVIOUS
  <1>a. /\ tstate \in [Clients -> States] /\ registered \in SUBSET Clients
        /\ pc \in [Enders \cup Watchers -> Places] /\ watching \in SUBSET Watchers
        /\ reply \in [Clients -> {"none", "refused", "hook_error", "start_error", "started"}]
        /\ target \in [Enders -> SUBSET Clients]
    BY DEF TypeOK, TrialsOK, ListOK, WatchOK, CallsOK
  <1>1. ASSUME NEW c \in Clients, StartCheck(c)
        PROVE  InList'
    BY <1>1, <1>a, RegistryAssumption
    DEF StartCheck, Goto, Return, InList, Enders, trialVars, listVars
  <1>2. ASSUME NEW c \in Clients, GcTick(c)
        PROVE  InList'
    BY <1>2, <1>a, RegistryAssumption DEF GcTick, Goto, InList, Enders, trialVars
  <1>3. ASSUME NEW c \in Clients, GcDue(c)
        PROVE  InList'
    BY <1>3, <1>a, RegistryAssumption DEF GcDue, Goto, InList, Enders, trialVars, listVars
  <1>4. ASSUME NEW c \in Clients, GcReset(c)
        PROVE  InList'
    BY <1>4, <1>a, RegistryAssumption DEF GcReset, Goto, InList, Enders, trialVars
  <1>5. ASSUME NEW c \in Clients, Collect(c)
        PROVE  InList'
    BY <1>5, <1>a, RegistryAssumption DEF Collect, Goto, InList, Enders, trialVars
  <1>6. ASSUME NEW c \in Clients, NextStale(c)
        PROVE  InList'
    BY <1>6, <1>a, RegistryAssumption DEF NextStale, Goto, InList, Enders, trialVars
  <1>7. ASSUME NEW c \in Clients, Make(c)
        PROVE  InList'
    BY <1>7, <1>a, RegistryAssumption DEF Make, Goto, Assign, InList, Enders, listVars
  <1>8. ASSUME NEW c \in Clients, TellMade(c)
        PROVE  InList'
    BY <1>8, <1>a, RegistryAssumption
    DEF TellMade, Notify, AfterNotify, InList, Enders, listVars
  <1>9. ASSUME NEW c \in Clients, Insert(c)
        PROVE  InList'
    BY <1>9, <1>a, RegistryAssumption DEF Insert, Goto, Return, InList, Enders, trialVars
  <1>10. ASSUME NEW c \in Clients, Hooks(c)
        PROVE  InList'
    BY <1>10, <1>a, RegistryAssumption
    DEF Hooks, Goto, Return, InList, Enders, trialVars, listVars
  <1>11. ASSUME NEW c \in Clients, StartFails(c)
        PROVE  InList'
    BY <1>11, <1>a, RegistryAssumption
    DEF StartFails, Return, InList, Enders, Goto, trialVars, listVars
  <1>12. ASSUME NEW c \in Clients, Start(c)
        PROVE  InList'
    BY <1>12, <1>a, RegistryAssumption DEF Start, Goto, Assign, InList, Enders, listVars
  <1>13. ASSUME NEW c \in Clients, Started(c)
        PROVE  InList'
    BY <1>13, <1>a, RegistryAssumption
    DEF Started, Notify, AfterNotify, InList, Enders, listVars
  <1>14. ASSUME NEW c \in Clients, LifeStep(c)
        PROVE  InList'
    BY <1>14, <1>a, RegistryAssumption
    DEF LifeStep, Assign, InList, Enders, listVars, callVars
  <1>15. ASSUME NEW c \in Clients, LifeTells(c)
        PROVE  InList'
    BY <1>15, <1>a, RegistryAssumption
    DEF LifeTells, Notify, AfterNotify, InList, Enders, listVars
  <1>16. ASSUME NEW k \in Killers, Find(k)
        PROVE  InList'
    BY <1>16, <1>a, RegistryAssumption DEF Find, Goto, InList, Enders, trialVars, listVars
  <1>17. ASSUME NEW t \in Enders, Terminate(t)
        PROVE  InList'
    BY <1>17, <1>a, RegistryAssumption
    DEF Terminate, Goto, AfterTerminate, InList, Enders, listVars
  <1>18. ASSUME NEW t \in Enders, Terminating(t)
        PROVE  InList'
    BY <1>18, <1>a, RegistryAssumption DEF Terminating, Goto, Assign, InList, Enders, listVars
  <1>19. ASSUME NEW t \in Enders, TellTerminating(t)
        PROVE  InList'
    BY <1>19, <1>a, RegistryAssumption
    DEF TellTerminating, Notify, AfterNotify, InList, Enders, listVars
  <1>20. ASSUME NEW t \in Enders, End(t)
        PROVE  InList'
    BY <1>20, <1>a, RegistryAssumption
    DEF End, Goto, Assign, AfterTerminate, InList, Enders, listVars
  <1>21. ASSUME NEW t \in Enders, TellEnded(t)
        PROVE  InList'
    BY <1>21, <1>a, RegistryAssumption
    DEF TellEnded, Notify, AfterNotify, AfterTerminate, InList, Enders, listVars
  <1>22. ASSUME NEW w \in Watchers, Watch(w)
        PROVE  InList'
    BY <1>22, <1>a, RegistryAssumption DEF Watch, Goto, InList, Enders, trialVars, listVars
  <1>23. ASSUME NEW w \in Watchers, WatchList(w)
        PROVE  InList'
    BY <1>23, <1>a, RegistryAssumption
    DEF WatchList, Goto, InList, Enders, trialVars, listVars
  <1>24. ASSUME NEW w \in Watchers, WatchReport(w)
        PROVE  InList'
    BY <1>24, <1>a, RegistryAssumption
    DEF WatchReport, Goto, InList, Enders, trialVars, listVars
  <1>25. ASSUME NEW w \in Watchers, WatchReady(w)
        PROVE  InList'
    BY <1>25, <1>a, RegistryAssumption
    DEF WatchReady, Goto, InList, Enders, trialVars, listVars
  <1>26. ASSUME NEW w \in Watchers, Disconnect(w)
        PROVE  InList'
    BY <1>26, <1>a, RegistryAssumption
    DEF Disconnect, InList, Enders, trialVars, listVars, callVars
  <1>27. CASE UNCHANGED vars
    BY <1>27 DEF vars, trialVars, listVars, callVars, InList, Enders
  <1>28. QED
    BY <1>1, <1>2, <1>3, <1>4, <1>5, <1>6, <1>7, <1>8, <1>9, <1>10, <1>11, <1>12, <1>13,
       <1>14, <1>15, <1>16, <1>17, <1>18, <1>19, <1>20, <1>21, <1>22, <1>23, <1>24, <1>25,
       <1>26, <1>27
    DEF Next, Call, Ending, Watching

\* A trial whose start succeeded is in the list until it has ended, whatever is
\* collected meanwhile.
THEOREM StartedFound == Spec => []StartedIsFound
  <1>1. Init => InList
    BY DEF Init, InList, Enders
  <1>2. InList => StartedIsFound
    BY DEF InList, StartedIsFound
  <1>3. QED
    BY <1>1, <1>2, TypeInit, TypeStep, InListStep, PTL DEF Spec

-----------------------------------------------------------------------------
(* What the watchers are told.                                             *)

\* The place of each state in a trial's life.
LEMMA RankIs ==
  /\ Rank("none") = 1 /\ Rank("initializing") = 2 /\ Rank("pending") = 3
  /\ Rank("running") = 4 /\ Rank("terminating") = 5 /\ Rank("ended") = 6
  <1>1. \A s, i : s = Stages[i] /\ i \in 1..6 => \A j \in 1..6 : Stages[j] = s => j = i
    BY DEF Stages
  <1>2. \A i \in 1..6 : Rank(Stages[i]) = i
    BY <1>1 DEF Rank
  <1>3. QED
    BY <1>2 DEF Stages

\* A trial exists once its call has made it, and only then can it be listed or
\* terminated.
Made ==
  /\ \A c \in Clients :
       /\ pc[c] \in {"tell_made", "insert", "hooks", "start", "tell_pending"}
            => tstate[c] # "none"
       /\ pc[c] \notin {"tell_made", "insert", "hooks", "start", "tell_pending", "returned"}
            => tstate[c] = "none"
       /\ c \in registered => tstate[c] # "none"
  /\ \A t \in Enders : \A x \in target[t] : tstate[x] # "none"

LEMMA MadeStep == TypeOK /\ Made /\ [Next]_vars => Made'
  <1> SUFFICES ASSUME TypeOK, Made, [Next]_vars
               PROVE  Made'
    OBVIOUS
  <1>a. /\ tstate \in [Clients -> States] /\ registered \in SUBSET Clients
        /\ pc \in [Enders \cup Watchers -> Places] /\ watching \in SUBSET Watchers
        /\ target \in [Enders -> SUBSET Clients]
    BY DEF TypeOK, TrialsOK, ListOK, WatchOK, CallsOK
  <1>1. ASSUME NEW c \in Clients, StartCheck(c)
        PROVE  Made'
    BY <1>1, <1>a, RegistryAssumption
    DEF StartCheck, Goto, Return, Made, Enders, trialVars, listVars
  <1>2. ASSUME NEW c \in Clients, GcTick(c)
        PROVE  Made'
    BY <1>2, <1>a, RegistryAssumption DEF GcTick, Goto, Made, Enders, trialVars
  <1>3. ASSUME NEW c \in Clients, GcDue(c)
        PROVE  Made'
    BY <1>3, <1>a, RegistryAssumption DEF GcDue, Goto, Made, Enders, trialVars, listVars
  <1>4. ASSUME NEW c \in Clients, GcReset(c)
        PROVE  Made'
    BY <1>4, <1>a, RegistryAssumption DEF GcReset, Goto, Made, Enders, trialVars
  <1>5. ASSUME NEW c \in Clients, Collect(c)
        PROVE  Made'
    BY <1>5, <1>a, RegistryAssumption DEF Collect, Goto, Made, Enders, trialVars
  <1>6. ASSUME NEW c \in Clients, NextStale(c)
        PROVE  Made'
    BY <1>6, <1>a, RegistryAssumption DEF NextStale, Goto, Made, Enders, trialVars
  <1>7. ASSUME NEW c \in Clients, Make(c)
        PROVE  Made'
    BY <1>7, <1>a, RegistryAssumption DEF Make, Goto, Assign, Made, Enders, listVars
  <1>8. ASSUME NEW c \in Clients, TellMade(c)
        PROVE  Made'
    BY <1>8, <1>a, RegistryAssumption
    DEF TellMade, Notify, AfterNotify, Made, Enders, listVars
  <1>9. ASSUME NEW c \in Clients, Insert(c)
        PROVE  Made'
    BY <1>9, <1>a, RegistryAssumption DEF Insert, Goto, Return, Made, Enders, trialVars
  <1>10. ASSUME NEW c \in Clients, Hooks(c)
        PROVE  Made'
    BY <1>10, <1>a, RegistryAssumption
    DEF Hooks, Goto, Return, Made, Enders, trialVars, listVars
  <1>11. ASSUME NEW c \in Clients, StartFails(c)
        PROVE  Made'
    BY <1>11, <1>a, RegistryAssumption
    DEF StartFails, Return, Made, Enders, Goto, trialVars, listVars
  <1>12. ASSUME NEW c \in Clients, Start(c)
        PROVE  Made'
    BY <1>12, <1>a, RegistryAssumption DEF Start, Goto, Assign, Made, Enders, listVars
  <1>13. ASSUME NEW c \in Clients, Started(c)
        PROVE  Made'
    BY <1>13, <1>a, RegistryAssumption
    DEF Started, Notify, AfterNotify, Made, Enders, listVars
  <1>14. ASSUME NEW c \in Clients, LifeStep(c)
        PROVE  Made'
    BY <1>14, <1>a, RegistryAssumption DEF LifeStep, Assign, Made, Enders, listVars, callVars
  <1>15. ASSUME NEW c \in Clients, LifeTells(c)
        PROVE  Made'
    BY <1>15, <1>a, RegistryAssumption
    DEF LifeTells, Notify, AfterNotify, Made, Enders, listVars
  <1>16. ASSUME NEW k \in Killers, Find(k)
        PROVE  Made'
    BY <1>16, <1>a, RegistryAssumption DEF Find, Goto, Made, Enders, trialVars, listVars
  <1>17. ASSUME NEW t \in Enders, Terminate(t)
        PROVE  Made'
    BY <1>17, <1>a, RegistryAssumption
    DEF Terminate, Goto, AfterTerminate, Made, Enders, listVars
  <1>18. ASSUME NEW t \in Enders, Terminating(t)
        PROVE  Made'
    BY <1>18, <1>a, RegistryAssumption DEF Terminating, Goto, Assign, Made, Enders, listVars
  <1>19. ASSUME NEW t \in Enders, TellTerminating(t)
        PROVE  Made'
    BY <1>19, <1>a, RegistryAssumption
    DEF TellTerminating, Notify, AfterNotify, Made, Enders, listVars
  <1>20. ASSUME NEW t \in Enders, End(t)
        PROVE  Made'
    BY <1>20, <1>a, RegistryAssumption
    DEF End, Goto, Assign, AfterTerminate, Made, Enders, listVars
  <1>21. ASSUME NEW t \in Enders, TellEnded(t)
        PROVE  Made'
    BY <1>21, <1>a, RegistryAssumption
    DEF TellEnded, Notify, AfterNotify, AfterTerminate, Made, Enders, listVars
  <1>22. ASSUME NEW w \in Watchers, Watch(w)
        PROVE  Made'
    BY <1>22, <1>a, RegistryAssumption DEF Watch, Goto, Made, Enders, trialVars, listVars
  <1>23. ASSUME NEW w \in Watchers, WatchList(w)
        PROVE  Made'
    BY <1>23, <1>a, RegistryAssumption DEF WatchList, Goto, Made, Enders, trialVars, listVars
  <1>24. ASSUME NEW w \in Watchers, WatchReport(w)
        PROVE  Made'
    BY <1>24, <1>a, RegistryAssumption
    DEF WatchReport, Goto, Made, Enders, trialVars, listVars
  <1>25. ASSUME NEW w \in Watchers, WatchReady(w)
        PROVE  Made'
    BY <1>25, <1>a, RegistryAssumption DEF WatchReady, Goto, Made, Enders, trialVars, listVars
  <1>26. ASSUME NEW w \in Watchers, Disconnect(w)
        PROVE  Made'
    BY <1>26, <1>a, RegistryAssumption
    DEF Disconnect, Made, Enders, trialVars, listVars, callVars
  <1>27. CASE UNCHANGED vars
    BY <1>27 DEF vars, trialVars, listVars, callVars, Made, Enders
  <1>28. QED
    BY <1>1, <1>2, <1>3, <1>4, <1>5, <1>6, <1>7, <1>8, <1>9, <1>10, <1>11, <1>12, <1>13,
       <1>14, <1>15, <1>16, <1>17, <1>18, <1>19, <1>20, <1>21, <1>22, <1>23, <1>24, <1>25,
       <1>26, <1>27
    DEF Next, Call, Ending, Watching

\* m_state only moves forward, in every step of every thread.
LEMMA StateGrows ==
  TypeOK /\ Made /\ [Next]_vars
    => \A x \in Clients : tstate'[x] = tstate[x] \/ Rank(tstate[x]) < Rank(tstate'[x])
  <1> DEFINE Grows == \A x \in Clients :
                        tstate'[x] = tstate[x] \/ Rank(tstate[x]) < Rank(tstate'[x])
  <1> SUFFICES ASSUME TypeOK, Made, [Next]_vars
               PROVE  Grows
    OBVIOUS
  <1>a. tstate \in [Clients -> States]
    BY DEF TypeOK, TrialsOK
  <1>b. \A x \in Clients : \A s \in {"initializing", "pending", "running", "terminating", "ended"} :
          /\ s = "initializing" => tstate[x] = "none"
          /\ s = "pending" => tstate[x] = "initializing"
          /\ s = "running" => tstate[x] = "pending"
          /\ s = "terminating" => tstate[x] = "running"
          /\ s = "ended" => tstate[x] # "ended"
          => Rank(tstate[x]) < Rank(s)
    BY <1>a, StatesAre, RankIs
  <1>1. ASSUME NEW c \in Clients, StartCheck(c)
        PROVE  Grows
    BY <1>1 DEF StartCheck, trialVars
  <1>2. ASSUME NEW c \in Clients, GcTick(c)
        PROVE  Grows
    BY <1>2 DEF GcTick, trialVars
  <1>3. ASSUME NEW c \in Clients, GcDue(c)
        PROVE  Grows
    BY <1>3 DEF GcDue, trialVars
  <1>4. ASSUME NEW c \in Clients, GcReset(c)
        PROVE  Grows
    BY <1>4 DEF GcReset, trialVars
  <1>5. ASSUME NEW c \in Clients, Collect(c)
        PROVE  Grows
    BY <1>5 DEF Collect, trialVars
  <1>6. ASSUME NEW c \in Clients, NextStale(c)
        PROVE  Grows
    BY <1>6 DEF NextStale, trialVars
  <1>7. ASSUME NEW c \in Clients, Make(c)
        PROVE  Grows
    BY <1>7, <1>a, <1>b DEF Make, Assign, Made
  <1>8. ASSUME NEW c \in Clients, TellMade(c)
        PROVE  Grows
    BY <1>8 DEF TellMade, Notify
  <1>9. ASSUME NEW c \in Clients, Insert(c)
        PROVE  Grows
    BY <1>9 DEF Insert, trialVars
  <1>10. ASSUME NEW c \in Clients, Hooks(c)
        PROVE  Grows
    BY <1>10 DEF Hooks, trialVars
  <1>11. ASSUME NEW c \in Clients, StartFails(c)
        PROVE  Grows
    BY <1>11 DEF StartFails, trialVars
  <1>12. ASSUME NEW c \in Clients, Start(c)
        PROVE  Grows
    BY <1>12, <1>a, <1>b DEF Start, Assign
  <1>13. ASSUME NEW c \in Clients, Started(c)
        PROVE  Grows
    BY <1>13 DEF Started, Notify
  <1>14. ASSUME NEW c \in Clients, LifeStep(c)
        PROVE  Grows
    BY <1>14, <1>a, <1>b DEF LifeStep, Assign
  <1>15. ASSUME NEW c \in Clients, LifeTells(c)
        PROVE  Grows
    BY <1>15 DEF LifeTells, Notify
  <1>16. ASSUME NEW k \in Killers, Find(k)
        PROVE  Grows
    BY <1>16 DEF Find, trialVars
  <1>17. ASSUME NEW t \in Enders, Terminate(t)
        PROVE  Grows
    BY <1>17 DEF Terminate
  <1>18. ASSUME NEW t \in Enders, Terminating(t)
        PROVE  Grows
    BY <1>18, <1>a, <1>b DEF Terminating, Assign
  <1>19. ASSUME NEW t \in Enders, TellTerminating(t)
        PROVE  Grows
    BY <1>19 DEF TellTerminating, Notify
  <1>20. ASSUME NEW t \in Enders, End(t)
        PROVE  Grows
    BY <1>20, <1>a, <1>b DEF End, Assign
  <1>21. ASSUME NEW t \in Enders, TellEnded(t)
        PROVE  Grows
    BY <1>21 DEF TellEnded, Notify
  <1>22. ASSUME NEW w \in Watchers, Watch(w)
        PROVE  Grows
    BY <1>22 DEF Watch, trialVars
  <1>23. ASSUME NEW w \in Watchers, WatchList(w)
        PROVE  Grows
    BY <1>23 DEF WatchList, trialVars
  <1>24. ASSUME NEW w \in Watchers, WatchReport(w)
        PROVE  Grows
    BY <1>24 DEF WatchReport, trialVars
  <1>25. ASSUME NEW w \in Watchers, WatchReady(w)
        PROVE  Grows
    BY <1>25 DEF WatchReady, trialVars
  <1>26. ASSUME NEW w \in Watchers, Disconnect(w)
        PROVE  Grows
    BY <1>26 DEF Disconnect, trialVars
  <1>27. CASE UNCHANGED vars
    BY <1>27 DEF vars, trialVars
  <1>28. QED
    BY <1>1, <1>2, <1>3, <1>4, <1>5, <1>6, <1>7, <1>8, <1>9, <1>10, <1>11, <1>12, <1>13,
       <1>14, <1>15, <1>16, <1>17, <1>18, <1>19, <1>20, <1>21, <1>22, <1>23, <1>24, <1>25,
       <1>26, <1>27
    DEF Next, Call, Ending, Watching

\* What a watcher is told of a trial is the trial's state when it is told.
LEMMA ToldIsState ==
  TypeOK /\ [Next]_vars
    => \A w \in Watchers, x \in Clients : told'[w][x] \in {told[w][x], tstate[x]}
  <1> DEFINE Says == \A w \in Watchers, x \in Clients : told'[w][x] \in {told[w][x], tstate[x]}
  <1> SUFFICES ASSUME TypeOK, [Next]_vars
               PROVE  Says
    OBVIOUS
  <1>1. ASSUME NEW c \in Clients, StartCheck(c)
        PROVE  Says
    BY <1>1 DEF StartCheck, watchVars
  <1>2. ASSUME NEW c \in Clients, GcTick(c)
        PROVE  Says
    BY <1>2 DEF GcTick, watchVars
  <1>3. ASSUME NEW c \in Clients, GcDue(c)
        PROVE  Says
    BY <1>3 DEF GcDue, watchVars
  <1>4. ASSUME NEW c \in Clients, GcReset(c)
        PROVE  Says
    BY <1>4 DEF GcReset, watchVars
  <1>5. ASSUME NEW c \in Clients, Collect(c)
        PROVE  Says
    BY <1>5 DEF Collect, watchVars
  <1>6. ASSUME NEW c \in Clients, NextStale(c)
        PROVE  Says
    BY <1>6 DEF NextStale, watchVars
  <1>7. ASSUME NEW c \in Clients, Make(c)
        PROVE  Says
    BY <1>7 DEF Make, watchVars
  <1>8. ASSUME NEW c \in Clients, TellMade(c)
        PROVE  Says
    BY <1>8 DEF TellMade, Notify, Tell
  <1>9. ASSUME NEW c \in Clients, Insert(c)
        PROVE  Says
    BY <1>9 DEF Insert, watchVars
  <1>10. ASSUME NEW c \in Clients, Hooks(c)
        PROVE  Says
    BY <1>10 DEF Hooks, watchVars
  <1>11. ASSUME NEW c \in Clients, StartFails(c)
        PROVE  Says
    BY <1>11 DEF StartFails, watchVars
  <1>12. ASSUME NEW c \in Clients, Start(c)
        PROVE  Says
    BY <1>12 DEF Start, watchVars
  <1>13. ASSUME NEW c \in Clients, Started(c)
        PROVE  Says
    BY <1>13 DEF Started, Notify, Tell
  <1>14. ASSUME NEW c \in Clients, LifeStep(c)
        PROVE  Says
    BY <1>14 DEF LifeStep, watchVars
  <1>15. ASSUME NEW c \in Clients, LifeTells(c)
        PROVE  Says
    BY <1>15 DEF LifeTells, Notify, Tell
  <1>16. ASSUME NEW k \in Killers, Find(k)
        PROVE  Says
    BY <1>16 DEF Find, watchVars
  <1>17. ASSUME NEW t \in Enders, Terminate(t)
        PROVE  Says
    BY <1>17 DEF Terminate, watchVars
  <1>18. ASSUME NEW t \in Enders, Terminating(t)
        PROVE  Says
    BY <1>18 DEF Terminating, watchVars
  <1>19. ASSUME NEW t \in Enders, TellTerminating(t)
        PROVE  Says
    BY <1>19 DEF TellTerminating, Notify, Tell
  <1>20. ASSUME NEW t \in Enders, End(t)
        PROVE  Says
    BY <1>20 DEF End, watchVars
  <1>21. ASSUME NEW t \in Enders, TellEnded(t)
        PROVE  Says
    BY <1>21 DEF TellEnded, Notify, Tell
  <1>22. ASSUME NEW w \in Watchers, Watch(w)
        PROVE  Says
    BY <1>22 DEF Watch
  <1>23. ASSUME NEW w \in Watchers, WatchList(w)
        PROVE  Says
    BY <1>23 DEF WatchList
  <1>24. ASSUME NEW w \in Watchers, WatchReport(w)
        PROVE  Says
    BY <1>24 DEF WatchReport, Tell
  <1>25. ASSUME NEW w \in Watchers, WatchReady(w)
        PROVE  Says
    BY <1>25 DEF WatchReady
  <1>26. ASSUME NEW w \in Watchers, Disconnect(w)
        PROVE  Says
    BY <1>26 DEF Disconnect
  <1>27. CASE UNCHANGED vars
    BY <1>27 DEF vars, watchVars
  <1>28. QED
    BY <1>1, <1>2, <1>3, <1>4, <1>5, <1>6, <1>7, <1>8, <1>9, <1>10, <1>11, <1>12, <1>13,
       <1>14, <1>15, <1>16, <1>17, <1>18, <1>19, <1>20, <1>21, <1>22, <1>23, <1>24, <1>25,
       <1>26, <1>27
    DEF Next, Call, Ending, Watching

\* Nobody was told more than what a trial has reached.
ToldReached == \A w \in Watchers, x \in Clients : Rank(told[w][x]) <= Rank(tstate[x])

\* A watcher is told of each trial's states in their order, whatever changes of
\* state, terminations and new watchers come together.
THEOREM ToldInOrderAlways == Spec => ToldInOrder
  <1> DEFINE Forward == \A w \in Watchers, x \in Clients :
                          Rank(told[w][x]) <= Rank(told'[w][x])
  <1>1. Init => Made /\ ToldReached
    BY RankIs DEF Init, Made, ToldReached, Enders
  <1>2. TypeOK /\ Made /\ ToldReached /\ [Next]_vars => ToldReached' /\ [Forward]_vars
    <2> SUFFICES ASSUME TypeOK, Made, ToldReached, [Next]_vars
                 PROVE  ToldReached' /\ Forward
      OBVIOUS
    <2> SUFFICES ASSUME NEW w \in Watchers, NEW x \in Clients
                 PROVE  /\ Rank(told'[w][x]) <= Rank(tstate'[x])
                        /\ Rank(told[w][x]) <= Rank(told'[w][x])
      BY DEF ToldReached
    <2>1. /\ tstate[x] \in States /\ told[w][x] \in States
          /\ tstate'[x] \in States /\ told'[w][x] \in States
      BY TypeStep DEF TypeOK, TrialsOK, WatchOK
    <2>2. \A s \in States : Rank(s) \in 1..6
      BY StatesAre, RankIs
    <2>3. told'[w][x] \in {told[w][x], tstate[x]}
      BY ToldIsState
    <2>4. tstate'[x] = tstate[x] \/ Rank(tstate[x]) < Rank(tstate'[x])
      BY StateGrows
    <2>5. Rank(told[w][x]) <= Rank(tstate[x])
      BY DEF ToldReached
    <2>6. QED
      BY <2>1, <2>2, <2>3, <2>4, <2>5
  <1>3. QED
    BY <1>1, <1>2, TypeInit, TypeStep, MadeStep, PTL DEF Spec, ToldInOrder

\* Until a watcher is registered nobody else tells or is told anything: it holds
\* m_notification_lock.  From its first report on it is up to date.
Watched ==
  /\ \A w \in Watchers :
       /\ pc[w] \in {"list", "report"} => notifyLock = w
       /\ w \in watching <=> pc[w] = "watching"
       /\ pc[w] \in {"call", "list"} => \A x \in Clients : told[w][x] = "none"
  /\ \A w \in connected : pc[w] \in {"report", "watching"} =>
       \A x \in Clients :
         told[w][x] # "none" /\ stateLock[x] = Nobody => told[w][x] = tstate[x]

LEMMA WatchedStep == TypeOK /\ Watched /\ [Next]_vars => Watched'
  <1> SUFFICES ASSUME TypeOK, Watched, [Next]_vars
               PROVE  Watched'
    OBVIOUS
  <1>a. /\ tstate \in [Clients -> States]
        /\ stateLock \in [Clients -> Enders \cup {"life", Nobody}]
        /\ pc \in [Enders \cup Watchers -> Places]
        /\ watching \in SUBSET Watchers /\ connected \in SUBSET Watchers
        /\ listed \in [Watchers -> SUBSET Clients] /\ target \in [Enders -> SUBSET Clients]
    BY DEF TypeOK, TrialsOK, WatchOK, CallsOK
  <1>1. ASSUME NEW c \in Clients, StartCheck(c)
        PROVE  Watched'
    BY <1>1, <1>a, RegistryAssumption
    DEF StartCheck, Goto, Return, Watched, Enders, trialVars, watchVars
  <1>2. ASSUME NEW c \in Clients, GcTick(c)
        PROVE  Watched'
    BY <1>2, <1>a, RegistryAssumption DEF GcTick, Goto, Watched, Enders, trialVars, watchVars
  <1>3. ASSUME NEW c \in Clients, GcDue(c)
        PROVE  Watched'
    BY <1>3, <1>a, RegistryAssumption DEF GcDue, Goto, Watched, Enders, trialVars, watchVars
  <1>4. ASSUME NEW c \in Clients, GcReset(c)
        PROVE  Watched'
    BY <1>4, <1>a, RegistryAssumption DEF GcReset, Goto, Watched, Enders, trialVars, watchVars
  <1>5. ASSUME NEW c \in Clients, Collect(c)
        PROVE  Watched'
    BY <1>5, <1>a, RegistryAssumption DEF Collect, Goto, Watched, Enders, trialVars, watchVars
  <1>6. ASSUME NEW c \in Clients, NextStale(c)
        PROVE  Watched'
    BY <1>6, <1>a, RegistryAssumption
    DEF NextStale, Goto, Watched, Enders, trialVars, watchVars
  <1>7. ASSUME NEW c \in Clients, Make(c)
        PROVE  Watched'
    BY <1>7, <1>a, RegistryAssumption DEF Make, Goto, Assign, Watched, Enders, watchVars
  <1>8. ASSUME NEW c \in Clients, TellMade(c)
        PROVE  Watched'
    BY <1>8, <1>a, RegistryAssumption DEF TellMade, Notify, AfterNotify, Watched, Enders, Tell
  <1>9. ASSUME NEW c \in Clients, Insert(c)
        PROVE  Watched'
    BY <1>9, <1>a, RegistryAssumption
    DEF Insert, Goto, Return, Watched, Enders, trialVars, watchVars
  <1>10. ASSUME NEW c \in Clients, Hooks(c)
        PROVE  Watched'
    BY <1>10, <1>a, RegistryAssumption
    DEF Hooks, Goto, Return, Watched, Enders, trialVars, watchVars
  <1>11. ASSUME NEW c \in Clients, StartFails(c)
        PROVE  Watched'
    BY <1>11, <1>a, RegistryAssumption
    DEF StartFails, Return, Watched, Enders, Goto, trialVars, watchVars
  <1>12. ASSUME NEW c \in Clients, Start(c)
        PROVE  Watched'
    BY <1>12, <1>a, RegistryAssumption DEF Start, Goto, Assign, Watched, Enders, watchVars
  <1>13. ASSUME NEW c \in Clients, Started(c)
        PROVE  Watched'
    BY <1>13, <1>a, RegistryAssumption DEF Started, Notify, AfterNotify, Watched, Enders, Tell
  <1>14. ASSUME NEW c \in Clients, LifeStep(c)
        PROVE  Watched'
    BY <1>14, <1>a, RegistryAssumption
    DEF LifeStep, Assign, Watched, Enders, watchVars, callVars
  <1>15. ASSUME NEW c \in Clients, LifeTells(c)
        PROVE  Watched'
    BY <1>15, <1>a, RegistryAssumption
    DEF LifeTells, Notify, AfterNotify, Watched, Enders, Tell
  <1>16. ASSUME NEW k \in Killers, Find(k)
        PROVE  Watched'
    BY <1>16, <1>a, RegistryAssumption DEF Find, Goto, Watched, Enders, trialVars, watchVars
  <1>17. ASSUME NEW t \in Enders, Terminate(t)
        PROVE  Watched'
    BY <1>17, <1>a, RegistryAssumption
    DEF Terminate, Goto, AfterTerminate, Watched, Enders, watchVars
  <1>18. ASSUME NEW t \in Enders, Terminating(t)
        PROVE  Watched'
    BY <1>18, <1>a, RegistryAssumption
    DEF Terminating, Goto, Assign, Watched, Enders, watchVars
  <1>19. ASSUME NEW t \in Enders, TellTerminating(t)
        PROVE  Watched'
    BY <1>19, <1>a, RegistryAssumption
    DEF TellTerminating, Notify, AfterNotify, Watched, Enders, Tell
  <1>20. ASSUME NEW t \in Enders, End(t)
        PROVE  Watched'
    BY <1>20, <1>a, RegistryAssumption
    DEF End, Goto, Assign, AfterTerminate, Watched, Enders, watchVars
  <1>21. ASSUME NEW t \in Enders, TellEnded(t)
        PROVE  Watched'
    BY <1>21, <1>a, RegistryAssumption
    DEF TellEnded, Notify, AfterNotify, AfterTerminate, Watched, Enders, Tell
  <1>22. ASSUME NEW w \in Watchers, Watch(w)
        PROVE  Watched'
    BY <1>22, <1>a, RegistryAssumption DEF Watch, Goto, Watched, Enders, trialVars
  <1>23. ASSUME NEW w \in Watchers, WatchList(w)
        PROVE  Watched'
    BY <1>23, <1>a, RegistryAssumption DEF WatchList, Goto, Watched, Enders, trialVars
  <1>24. ASSUME NEW w \in Watchers, WatchReport(w)
        PROVE  Watched'
    <2>1. PICK x \in listed[w] :
            IF w \in connected
              THEN /\ Tell({w}, {x}) /\ listed' = [listed EXCEPT ![w] = @ \ {x}]
                   /\ UNCHANGED <<pc, notifyLock>>
              ELSE Goto(w, "returned") /\ notifyLock' = Nobody /\ UNCHANGED <<listed, told>>
      BY <1>24 DEF WatchReport
    <2>2. pc[w] = "report" /\ UNCHANGED <<tstate, stateLock, watching, connected>>
      BY <1>24 DEF WatchReport, trialVars
    <2>3. CASE w \in connected
      <3>1. /\ told' = [v \in Watchers |-> [y \in Clients |->
                        IF v \in {w} /\ y \in {x} THEN tstate[y] ELSE told[v][y]]]
            /\ UNCHANGED <<pc, notifyLock>>
        BY <2>1, <2>3 DEF Tell
      <3>2. \A v \in Watchers, y \in Clients :
              told'[v][y] = told[v][y] \/ told'[v][y] = tstate[y]
        BY <3>1
      <3>3. QED
        BY <3>1, <3>2, <2>2, <1>a DEF Watched
    <2>4. CASE w \notin connected
      <3>1. /\ pc' = [pc EXCEPT ![w] = "returned"] /\ notifyLock' = Nobody
            /\ UNCHANGED told
        BY <2>1, <2>4 DEF Goto
      <3>2. QED
        BY <3>1, <2>2, <1>a, RegistryAssumption DEF Watched, Enders
    <2>5. QED
      BY <2>3, <2>4
  <1>25. ASSUME NEW w \in Watchers, WatchReady(w)
        PROVE  Watched'
    BY <1>25, <1>a, RegistryAssumption DEF WatchReady, Goto, Watched, Enders, trialVars
  <1>26. ASSUME NEW w \in Watchers, Disconnect(w)
        PROVE  Watched'
    BY <1>26, <1>a, RegistryAssumption DEF Disconnect, Watched, Enders, trialVars, callVars
  <1>27. CASE UNCHANGED vars
    BY <1>27 DEF vars, trialVars, watchVars, callVars, Watched
  <1>28. QED
    BY <1>1, <1>2, <1>3, <1>4, <1>5, <1>6, <1>7, <1>8, <1>9, <1>10, <1>11, <1>12, <1>13,
       <1>14, <1>15, <1>16, <1>17, <1>18, <1>19, <1>20, <1>21, <1>22, <1>23, <1>24, <1>25,
       <1>26, <1>27
    DEF Next, Call, Ending, Watching

\* A watcher is never left with an outdated state of a trial it was told of.
THEOREM WatcherCurrent == Spec => []WatcherIsCurrent
  <1>1. Init => Watched
    BY RegistryAssumption DEF Init, Watched
  <1>2. TypeOK /\ Watched => WatcherIsCurrent
    BY DEF TypeOK, WatchOK, Watched, WatcherIsCurrent
  <1>3. QED
    BY <1>1, <1>2, TypeInit, TypeStep, WatchedStep, PTL DEF Spec

=============================================================================
