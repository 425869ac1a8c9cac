----------------------------- MODULE SampleLog -----------------------------
(***************************************************************************)
(* What the trial datastore promises about samples (trial_datastore.proto, *)
(* RetrieveSamples): whoever retrieves a trial's samples gets them from    *)
(* the first one, one by one and in order, while the trial is ongoing, and *)
(* the retrieval ends when the sample with the state ENDED was given.      *)
(***************************************************************************)
EXTENDS Naturals, Sequences

CONSTANTS Trials, Readers, Nobody,
          Last   \* Last[x]: the number of the sample that ends trial x

VARIABLES
  logged,   \* per trial: how many samples were logged, numbered from 1
  of,       \* per reader: the trial whose samples it retrieves
  received, \* per reader: the samples it received
  over      \* readers whose retrieval came to its end

vars == <<logged, of, received, over>>

Init ==
  /\ logged = [x \in Trials |-> 0] /\ of = [r \in Readers |-> Nobody]
  /\ received = [r \in Readers |-> <<>>] /\ over = {}

Log(x) ==
  /\ logged[x] < Last[x] /\ logged' = [logged EXCEPT ![x] = @ + 1]
  /\ UNCHANGED <<of, received, over>>

Open(r, x) ==
  /\ of[r] = Nobody /\ of' = [of EXCEPT ![r] = x]
  /\ UNCHANGED <<logged, received, over>>

Receive(r) ==
  /\ of[r] # Nobody /\ r \notin over /\ Len(received[r]) < logged[of[r]]
  /\ received' = [received EXCEPT ![r] = Append(@, Len(@) + 1)]
  /\ UNCHANGED <<logged, of, over>>

End(r) ==
  /\ of[r] # Nobody /\ Len(received[r]) = Last[of[r]] /\ over' = over \cup {r}
  /\ UNCHANGED <<logged, of, received>>

Next ==
  \/ \E x \in Trials : Log(x)
  \/ \E r \in Readers : Receive(r) \/ End(r) \/ \E x \in Trials : Open(r, x)

Spec == Init /\ [][Next]_vars
=============================================================================
