------------------------ MODULE OrchestratorRegistry ------------------------
(***************************************************************************)
(* The orchestrator's list of trials (orchestrator/lib/cogment/            *)
(* orchestrator.cpp): StartTrial with its garbage collection, hard         *)
(* terminations, and the watchers of WatchTrials.  Three kinds of mutex    *)
(* protect it: m_trials_mutex (the list), m_notification_lock (the         *)
(* watchers) and each trial's m_state_lock, held while the watchers are    *)
(* told.  A trial is named after the StartTrial call that makes it; its    *)
(* own threads are seen through the changes of its state only.             *)
(***************************************************************************)
EXTENDS Integers, FiniteSets

CONSTANTS
  Clients,     \* the StartTrial calls, and the trials they make
  Killers,     \* the TerminateTrial (hard) calls
  Watchers,    \* the WatchTrials calls
  Ids,         \* trial ids
  Id,          \* Id[c]: the id of the trial that c makes
  Unnamed,     \* the calls without a requested id: it is generated
  Inactive,    \* trials with a max_inactivity
  GcFrequency, \* m_gc_frequency
  Nobody

Enders == Clients \cup Killers

ASSUME RegistryAssumption ==
  /\ Id \in [Clients -> Ids] /\ Unnamed \subseteq Clients /\ Inactive \subseteq Clients
  /\ \A c \in Unnamed, d \in Clients : Id[c] = Id[d] => c = d
  /\ Clients \cap Killers = {} /\ Watchers \cap Enders = {}
  /\ Nobody \notin Enders \cup Watchers \cup {"life"} /\ "life" \notin Enders \cup Watchers
  /\ GcFrequency \in Nat

VARIABLES
  registered,  \* m_trials: the trials in the list
  tstate,      \* per trial: m_state
  stateLock,   \* per trial: holder of m_state_lock
  termLock,    \* per trial: holder of m_terminating_lock, "life" for the trial's threads
  finishing,   \* trials whose finish() was reached
  trialsLock,  \* holder of m_trials_mutex, where it is held across steps
  notifyLock,  \* holder of m_notification_lock, where it is held across steps
  countdown,   \* m_gc_countdown
  toDelete,    \* m_trials_to_delete, and what was deleted from it
  watching,    \* m_trial_watchers
  connected,   \* watchers that can be written to
  listed,      \* per watch_trials call: the trials all_trials returned
  told,        \* per watcher and trial: the last state told
  pc,          \* per call: where it stands
  reply,       \* per StartTrial call: its outcome
  target       \* per call: the stale or requested trials it has to terminate

trialVars == <<tstate, stateLock, termLock, finishing>>
listVars == <<registered, trialsLock, countdown, toDelete>>
watchVars == <<notifyLock, watching, connected, listed, told>>
callVars == <<pc, reply, target>>
vars == <<trialVars, listVars, watchVars, callVars>>

\* m_state in its order; "none" before the trial exists, or for never told.
Stages == <<"none", "initializing", "pending", "running", "terminating", "ended">>
States == {Stages[i] : i \in 1..6}
Rank(s) == CHOOSE i \in 1..6 : Stages[i] = s

Init ==
  /\ registered = {} /\ trialsLock = Nobody /\ countdown = GcFrequency /\ toDelete = {}
  /\ tstate = [x \in Clients |-> "none"] /\ finishing = {}
  /\ stateLock = [x \in Clients |-> Nobody] /\ termLock = [x \in Clients |-> Nobody]
  /\ notifyLock = Nobody /\ watching = {} /\ connected = Watchers
  /\ listed = [w \in Watchers |-> {}]
  /\ told = [w \in Watchers |-> [x \in Clients |-> "none"]]
  /\ pc = [t \in Enders \cup Watchers |-> "call"]
  /\ reply = [c \in Clients |-> "none"] /\ target = [t \in Enders |-> {}]

Goto(t, place) == pc' = [pc EXCEPT ![t] = place]
Return(c, outcome) == Goto(c, "returned") /\ reply' = [reply EXCEPT ![c] = outcome]
ListFree == trialsLock = Nobody
Taken(i) == \E x \in registered : Id[x] = i

-----------------------------------------------------------------------------
(* Trial::set_state: the state changes under its lock, then the watchers   *)
(* are told, still under it (notify_watchers).                             *)

Assign(by, x, s) ==
  /\ stateLock[x] = Nobody
  /\ stateLock' = [stateLock EXCEPT ![x] = by]
  /\ tstate' = [tstate EXCEPT ![x] = s]

\* Each watcher's handler is called with the trial; it reads m_state.
Tell(W, X) ==
  told' = [w \in Watchers |-> [x \in Clients |->
             IF w \in W /\ x \in X THEN tstate[x] ELSE told[w][x]]]

\* A watcher that cannot be written to is dropped, and its call returns.
Notify(by, x) ==
  /\ stateLock[x] = by /\ notifyLock = Nobody
  /\ stateLock' = [stateLock EXCEPT ![x] = Nobody]
  /\ Tell(watching \cap connected, {x})
  /\ watching' = watching \cap connected
  /\ UNCHANGED <<notifyLock, connected, listed, tstate>>

AfterNotify(t, place) ==
  pc' = [u \in Enders \cup Watchers |->
           IF u = t THEN place
           ELSE IF u \in watching \ connected THEN "returned" ELSE pc[u]]

-----------------------------------------------------------------------------
(* Orchestrator::start_trial.                                              *)

\* The requested id is checked first, "to save some processing".
StartCheck(c) ==
  /\ pc[c] = "call"
  /\ IF c \in Unnamed THEN Goto(c, "tick") /\ UNCHANGED reply
     ELSE /\ ListFree
          /\ IF Taken(Id[c]) THEN Return(c, "refused") ELSE Goto(c, "tick") /\ UNCHANGED reply
  /\ UNCHANGED <<trialVars, listVars, watchVars, target>>

\* m_perform_trial_gc: count down...
GcTick(c) ==
  /\ pc[c] = "tick" /\ countdown' = countdown - 1 /\ Goto(c, "due")
  /\ UNCHANGED <<trialVars, registered, trialsLock, toDelete, watchVars, reply, target>>

GcDue(c) ==
  /\ pc[c] = "due" /\ Goto(c, IF countdown > 0 THEN "make" ELSE "reset")
  /\ UNCHANGED <<trialVars, listVars, watchVars, reply, target>>

\* Mutant: the countdown is added to, not stored.
GcResetAdding(c) ==
  /\ pc[c] = "reset" /\ countdown' = countdown + GcFrequency /\ Goto(c, "collect")
  /\ UNCHANGED <<trialVars, registered, trialsLock, toDelete, watchVars, reply, target>>

GcReset(c) ==
  /\ pc[c] = "reset" /\ countdown' = GcFrequency /\ Goto(c, "collect")
  /\ UNCHANGED <<trialVars, registered, trialsLock, toDelete, watchVars, reply, target>>

\* is_stale: its max_inactivity is set by start(), and elapsed.
CanBeStale(x) ==
  /\ x \in registered \cap Inactive /\ tstate[x] # "ended"
  /\ tstate[x] # "initializing" \/ pc[x] = "start" \/ reply[x] = "start_error"

\* Mutant: what is stale is removed like what ended.
CollectStale(c) ==
  /\ pc[c] = "collect" /\ ListFree
  /\ LET ended == {x \in registered : tstate[x] = "ended"} IN
     \E stale \in SUBSET {x \in registered : CanBeStale(x)} :
       /\ registered' = registered \ (ended \cup stale)
       /\ toDelete' = toDelete \cup ended
       /\ target' = [target EXCEPT ![c] = stale]
       /\ IF stale = {} THEN Goto(c, "make") /\ UNCHANGED trialsLock
          ELSE Goto(c, "stale") /\ trialsLock' = c
  /\ UNCHANGED <<trialVars, countdown, watchVars, reply>>

\* ... then the trials that ended leave the list, and those that are stale are
\* terminated, with the list still locked.
Collect(c) ==
  /\ pc[c] = "collect" /\ ListFree
  /\ LET ended == {x \in registered : tstate[x] = "ended"} IN
     \E stale \in SUBSET {x \in registered : CanBeStale(x)} :
       /\ registered' = registered \ ended
       /\ toDelete' = toDelete \cup ended
       /\ target' = [target EXCEPT ![c] = stale]
       /\ IF stale = {} THEN Goto(c, "make") /\ UNCHANGED trialsLock
          ELSE Goto(c, "stale") /\ trialsLock' = c
  /\ UNCHANGED <<trialVars, countdown, watchVars, reply>>

NextStale(c) ==
  /\ pc[c] = "stale"
  /\ IF target[c] = {} THEN Goto(c, "make") /\ trialsLock' = Nobody
     ELSE Goto(c, "terminate") /\ UNCHANGED trialsLock
  /\ UNCHANGED <<trialVars, registered, countdown, toDelete, watchVars, reply, target>>

\* Trial::make: the constructor ends with set_state(initializing).
Make(c) ==
  /\ pc[c] = "make" /\ Assign(c, c, "initializing") /\ Goto(c, "tell_made")
  /\ UNCHANGED <<termLock, finishing, listVars, watchVars, reply, target>>

TellMade(c) ==
  /\ pc[c] = "tell_made" /\ Notify(c, c) /\ AfterNotify(c, "insert")
  /\ UNCHANGED <<termLock, finishing, listVars, reply, target>>

\* Mutant: the id was checked already.
InsertUnchecked(c) ==
  /\ pc[c] = "insert" /\ ListFree
  /\ registered' = registered \cup {c} /\ Goto(c, "hooks")
  /\ UNCHANGED <<trialVars, trialsLock, countdown, toDelete, watchVars, target, reply>>

\* Register the trial, if no other call came in between with the same id.
Insert(c) ==
  /\ pc[c] = "insert" /\ ListFree
  /\ IF Taken(Id[c])
       THEN Return(c, "refused") /\ UNCHANGED registered
       ELSE registered' = registered \cup {c} /\ Goto(c, "hooks") /\ UNCHANGED reply
  /\ UNCHANGED <<trialVars, trialsLock, countdown, toDelete, watchVars, target>>

\* m_perform_pre_hooks (nothing with final parameters); a hook may fail.
Hooks(c) ==
  /\ pc[c] = "hooks"
  /\ \/ Goto(c, "start") /\ UNCHANGED reply
     \/ Return(c, "hook_error")
  /\ UNCHANGED <<trialVars, listVars, watchVars, target>>

\* Trial::start throws: its parameters are not right, or it was terminated.
StartFails(c) ==
  /\ pc[c] = "start" /\ Return(c, "start_error")
  /\ UNCHANGED <<trialVars, listVars, watchVars, target>>

\* Mutant: start() does not look at the state.
StartAnyway(c) ==
  /\ pc[c] = "start" /\ Assign(c, c, "pending") /\ Goto(c, "tell_pending")
  /\ UNCHANGED <<termLock, finishing, listVars, watchVars, reply, target>>

\* Trial::start: the trial is set up and becomes pending.
Start(c) ==
  /\ pc[c] = "start" /\ tstate[c] = "initializing"
  /\ Assign(c, c, "pending") /\ Goto(c, "tell_pending")
  /\ UNCHANGED <<termLock, finishing, listVars, watchVars, reply, target>>

Started(c) ==
  /\ pc[c] = "tell_pending" /\ Notify(c, c) /\ AfterNotify(c, "returned")
  /\ reply' = [reply EXCEPT ![c] = "started"]
  /\ UNCHANGED <<termLock, finishing, listVars, target>>

-----------------------------------------------------------------------------
(* The trial's own threads.                                                *)

\* env_observed (running), then process_actions or finish (terminating), with
\* m_terminating_lock; then "Trial finishing" (ended), without it.
LifeStep(x) ==
  /\ \/ /\ tstate[x] = "pending" /\ termLock[x] = Nobody
        /\ Assign("life", x, "running") /\ termLock' = [termLock EXCEPT ![x] = "life"]
        /\ UNCHANGED finishing
     \/ /\ tstate[x] = "running" /\ termLock[x] = Nobody
        /\ Assign("life", x, "terminating") /\ termLock' = [termLock EXCEPT ![x] = "life"]
        /\ finishing' = finishing \cup {x}
     \/ /\ tstate[x] = "terminating" /\ x \in finishing
        /\ Assign("life", x, "ended") /\ UNCHANGED <<termLock, finishing>>
  /\ UNCHANGED <<listVars, watchVars, callVars>>

LifeTells(x) ==
  /\ Notify("life", x) /\ AfterNotify("life", "none")
  /\ termLock' = [termLock EXCEPT ![x] = IF @ = "life" THEN Nobody ELSE @]
  /\ UNCHANGED <<finishing, listVars, reply, target>>

-----------------------------------------------------------------------------
(* Trial::terminate, by the GC of a StartTrial call or by TerminateTrial.  *)

\* get_trial
Find(k) ==
  /\ pc[k] = "call" /\ ListFree
  /\ \E x \in registered : target' = [target EXCEPT ![k] = {x}]
  /\ Goto(k, "terminate")
  /\ UNCHANGED <<trialVars, listVars, watchVars, reply>>

AfterTerminate(t) == IF t \in Clients THEN "stale" ELSE "returned"

Terminate(t) ==
  /\ pc[t] = "terminate"
  /\ \E x \in target[t] :
       /\ termLock[x] = Nobody
       /\ IF tstate[x] = "ended"
            THEN /\ Goto(t, AfterTerminate(t)) /\ UNCHANGED termLock
                 /\ target' = [target EXCEPT ![t] = @ \ {x}]
            ELSE /\ Goto(t, "terminating") /\ UNCHANGED target
                 /\ termLock' = [termLock EXCEPT ![x] = t]
  /\ UNCHANGED <<tstate, stateLock, finishing, listVars, watchVars, reply>>

\* set_state(terminating): refused before the trial runs ("Hard termination").
Terminating(t) ==
  /\ pc[t] = "terminating"
  /\ \E x \in target[t] :
       /\ termLock[x] = t /\ stateLock[x] = Nobody
       /\ IF tstate[x] = "running"
            THEN Assign(t, x, "terminating") /\ Goto(t, "tell_terminating")
            ELSE Goto(t, "end") /\ UNCHANGED <<tstate, stateLock>>
  /\ UNCHANGED <<termLock, finishing, listVars, watchVars, reply, target>>

TellTerminating(t) ==
  /\ pc[t] = "tell_terminating"
  /\ \E x \in target[t] : Notify(t, x) /\ AfterNotify(t, "end")
  /\ UNCHANGED <<termLock, finishing, listVars, reply, target>>

\* set_state(ended): allowed from every state, and again.
End(t) ==
  /\ pc[t] = "end"
  /\ \E x \in target[t] :
       /\ termLock[x] = t /\ stateLock[x] = Nobody
       /\ IF tstate[x] = "ended"
            THEN /\ Goto(t, AfterTerminate(t)) /\ UNCHANGED <<tstate, stateLock>>
                 /\ termLock' = [termLock EXCEPT ![x] = Nobody]
                 /\ target' = [target EXCEPT ![t] = @ \ {x}]
            ELSE /\ Assign(t, x, "ended") /\ Goto(t, "tell_ended")
                 /\ UNCHANGED <<termLock, target>>
  /\ UNCHANGED <<finishing, listVars, watchVars, reply>>

TellEnded(t) ==
  /\ pc[t] = "tell_ended"
  /\ \E x \in target[t] :
       /\ Notify(t, x) /\ AfterNotify(t, AfterTerminate(t))
       /\ termLock' = [termLock EXCEPT ![x] = Nobody]
       /\ target' = [target EXCEPT ![t] = @ \ {x}]
  /\ UNCHANGED <<finishing, listVars, reply>>

-----------------------------------------------------------------------------
(* Orchestrator::watch_trials.                                             *)

\* Mutant: the watchers are not locked while the current states are reported.
WatchUnlocked(w) ==
  /\ pc[w] = "call" /\ notifyLock = Nobody /\ Goto(w, "list")
  /\ UNCHANGED <<notifyLock, trialVars, listVars, watching, connected, listed, told,
                 reply, target>>

Watch(w) ==
  /\ pc[w] = "call" /\ notifyLock = Nobody
  /\ notifyLock' = w /\ Goto(w, "list")
  /\ UNCHANGED <<trialVars, listVars, watching, connected, listed, told, reply, target>>

\* all_trials
WatchList(w) ==
  /\ pc[w] = "list" /\ ListFree
  /\ listed' = [listed EXCEPT ![w] = registered] /\ Goto(w, "report")
  /\ UNCHANGED <<trialVars, listVars, notifyLock, watching, connected, told, reply, target>>

\* The current states are reported one by one; then it is a watcher.
WatchReport(w) ==
  /\ pc[w] = "report" /\ listed[w] # {}
  /\ \E x \in listed[w] :
       IF w \in connected
         THEN /\ Tell({w}, {x}) /\ listed' = [listed EXCEPT ![w] = @ \ {x}]
              /\ UNCHANGED <<pc, notifyLock>>
         ELSE Goto(w, "returned") /\ notifyLock' = Nobody /\ UNCHANGED <<listed, told>>
  /\ UNCHANGED <<trialVars, listVars, watching, connected, reply, target>>

WatchReady(w) ==
  /\ pc[w] = "report" /\ listed[w] = {}
  /\ watching' = watching \cup {w} /\ notifyLock' = Nobody /\ Goto(w, "watching")
  /\ UNCHANGED <<trialVars, listVars, connected, listed, told, reply, target>>

\* The client of WatchTrials goes away; it is noticed at the next report.
Disconnect(w) ==
  /\ w \in connected /\ connected' = connected \ {w}
  /\ UNCHANGED <<trialVars, listVars, notifyLock, watching, listed, told, callVars>>

-----------------------------------------------------------------------------

Call(c) ==
  \/ StartCheck(c) \/ GcTick(c) \/ GcDue(c) \/ GcReset(c) \/ Collect(c) \/ NextStale(c)
  \/ Make(c) \/ TellMade(c) \/ Insert(c) \/ Hooks(c) \/ StartFails(c) \/ Start(c) \/ Started(c)
Ending(t) == Terminate(t) \/ Terminating(t) \/ TellTerminating(t) \/ End(t) \/ TellEnded(t)
Watching(w) == Watch(w) \/ WatchList(w) \/ WatchReport(w) \/ WatchReady(w)

Next ==
  \/ \E c \in Clients : Call(c) \/ LifeStep(c) \/ LifeTells(c)
  \/ \E k \in Killers : Find(k)
  \/ \E t \in Enders : Ending(t)
  \/ \E w \in Watchers : Watching(w) \/ Disconnect(w)

Spec == Init /\ [][Next]_vars

\* The threads of the calls and of the trials keep running.
FairSpec ==
  /\ Spec
  /\ \A c \in Clients : WF_vars(Call(c)) /\ WF_vars(LifeTells(c))
  /\ \A t \in Enders : WF_vars(Ending(t))
  /\ \A w \in Watchers : WF_vars(Watching(w))

-----------------------------------------------------------------------------
(* Properties                                                              *)

Places == {"call", "tick", "due", "reset", "collect", "stale", "make", "tell_made", "insert",
           "hooks", "start", "tell_pending", "returned", "terminate", "terminating",
           "tell_terminating", "end", "tell_ended", "list", "report", "watching"}

TrialsOK ==
  /\ tstate \in [Clients -> States] /\ finishing \in SUBSET Clients
  /\ stateLock \in [Clients -> Enders \cup {"life", Nobody}]
  /\ termLock \in [Clients -> Enders \cup {"life", Nobody}]
ListOK ==
  /\ registered \in SUBSET Clients /\ toDelete \in SUBSET Clients
  /\ trialsLock \in Clients \cup {Nobody}
  /\ countdown \in Int /\ countdown <= GcFrequency
WatchOK ==
  /\ notifyLock \in Watchers \cup {Nobody}
  /\ watching \in SUBSET Watchers /\ connected \in SUBSET Watchers
  /\ listed \in [Watchers -> SUBSET Clients]
  /\ told \in [Watchers -> [Clients -> States]]
CallsOK ==
  /\ pc \in [Enders \cup Watchers -> Places]
  /\ reply \in [Clients -> {"none", "refused", "hook_error", "start_error", "started"}]
  /\ target \in [Enders -> SUBSET Clients]

\* The variables' types; the countdown never passes the frequency, however many
\* calls reset it together (m_perform_trial_gc).
TypeOK == TrialsOK /\ ListOK /\ WatchOK /\ CallsOK

\* No two trials of the list have the same id, although the id is checked
\* before the garbage collection and the making of the trial (start_trial).
UniqueIds == \A x, y \in registered : Id[x] = Id[y] => x = y

\* A trial whose start succeeded can be found until it has ended, whatever the
\* garbage collections of other calls do meanwhile (m_perform_trial_gc).
StartedIsFound ==
  \A c \in Clients : reply[c] = "started" /\ tstate[c] # "ended" => c \in registered

\* A watcher that was told of a trial knows its present state, unless the
\* trial is just telling it (set_state, notify_watchers, watch_trials).
WatcherIsCurrent ==
  \A w \in watching \cap connected, x \in Clients :
    told[w][x] # "none" /\ stateLock[x] = Nobody => told[w][x] = tstate[x]

\* A trial is never told of in a state that precedes one that was told
\* (trial.cpp, set_state: "they are seen in-order").
ToldInOrder ==
  [][\A w \in Watchers, x \in Clients : Rank(told[w][x]) <= Rank(told'[w][x])]_vars

\* The list can always be used again (orchestrator.cpp:304, "we don't want to
\* lock the list during that time"): a call that needs it gets it.
ListUsable == \A w \in Watchers : pc[w] = "list" ~> pc[w] # "list"

=============================================================================
