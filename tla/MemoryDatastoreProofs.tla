------------------------ MODULE MemoryDatastoreProofs ------------------------
(***************************************************************************)
(* The memory backend of the trial datastore implements SampleLog, for all *)
(* trials, readers, batch sizes and limits: whatever is batched, evicted   *)
(* or deleted, a reader gets a prefix of what was logged, and its          *)
(* retrieval ends with the last sample.  The size of all samples never     *)
(* falls below that of what is stored.                                     *)
(***************************************************************************)
EXTENDS MemoryDatastore, FiniteSetTheorems, TLAPS

Phases == {"idle", "size", "stored", "append", "trigger"}
Places == {"call", "found", "subscribe", "read", "send", "complete", "cancelled", "returned"}

\* The types of what the refinement depends on; it does not on the eviction
\* list, the sizes, the timers and the emissions (see Sized for the sizes).
LogsOK ==
  /\ logged \in [Trials -> Nat] /\ batch \in [Trials -> Seq(Nat)]
  /\ flusher \in [Trials -> {"nobody", "stream", "timer"}]
  /\ phase \in [Trials -> Phases] /\ pos \in [Trials -> Nat \ {0}]
ListsOK ==
  /\ gen \in [Trials -> 0..1] /\ items \in [Trials -> [0..1 -> Seq(Nat)]]
  /\ ended \in [Trials -> [0..1 -> BOOLEAN]]
ReadsOK ==
  /\ of \in [Readers -> Trials \cup {Nobody}] /\ at \in [Readers -> Places]
  /\ seen \in [Readers -> 0..1] /\ upto \in [Readers -> Nat] /\ final \in [Readers -> BOOLEAN]
  /\ given \in [Readers -> Nat] /\ passed \in [Readers -> Nat]
  /\ received \in [Readers -> Seq(Nat)]
  /\ outcome \in [Readers -> {"none", "unknown", "done", "cancelled"}]

\* With n samples in the list and the first a of the batch b among them, what is
\* left of the batch is n + 1, n + 2, ... up to l.
Follows(l, b, n, a) ==
  /\ l = n + Len(b) - a
  /\ \A j \in 1..Len(b) : j > a => b[j] = n + j - a

\* The list of a trial, followed by what is left of the batch, is 1, 2, ... up
\* to what was logged; only the list of a complete trial was ever evicted.
Batched(x) ==
  /\ flusher[x] = "nobody" <=> phase[x] = "idle"
  /\ logged[x] <= Last[x]
  /\ phase[x] = "idle" => Follows(logged[x], batch[x], Len(items[x][0]), 0)
  /\ phase[x] \in {"size", "stored", "append"} =>
       /\ pos[x] <= Len(batch[x])
       /\ Follows(logged[x], batch[x], Len(items[x][0]), pos[x] - 1)
  /\ phase[x] = "trigger" => logged[x] = Len(items[x][0])
Listed(x) ==
  /\ \A i \in 1..Len(items[x][0]) : items[x][0][i] = i
  /\ ended[x][0] <=> Len(items[x][0]) = Last[x]
  /\ items[x][1] = <<>> /\ ended[x][1] = FALSE
  /\ gen[x] = 1 => Len(items[x][0]) = Last[x]
Lists == \A x \in Trials : Batched(x) /\ Listed(x)

\* What goes through the channels of a reader, and where its call stands.
Piped(r) ==
  /\ Len(received[r]) <= passed[r] /\ passed[r] <= Len(received[r]) + 1
  /\ passed[r] <= given[r] /\ given[r] <= upto[r]
  /\ \A i \in 1..Len(received[r]) : received[r][i] = i
  /\ upto[r] > 0 => of[r] \in Trials /\ upto[r] <= Len(items[of[r]][seen[r]])
Called(r) ==
  /\ at[r] = "call" => of[r] = Nobody
  /\ at[r] \notin {"call", "returned"} => of[r] \in Trials
  /\ at[r] \in {"call", "found"} => upto[r] = 0 /\ final[r] = FALSE
  /\ final[r] => of[r] \in Trials /\ upto[r] = Last[of[r]]
  /\ at[r] = "complete" => final[r] /\ given[r] = upto[r]
  /\ outcome[r] # "none" => at[r] = "returned"
  /\ outcome[r] = "done" =>
       /\ of[r] \in Trials /\ Len(received[r]) = Last[of[r]]
       /\ passed[r] = Len(received[r]) /\ given[r] = passed[r]
Reads == \A r \in Readers : Piped(r) /\ Called(r)

Inv == LogsOK /\ ListsOK /\ ReadsOK /\ Lists /\ Reads

LEMMA InvInit == Init => Inv
  <1> SUFFICES ASSUME Init
               PROVE  Inv
    OBVIOUS
  <1>1. LogsOK /\ ListsOK
    BY DatastoreAssumption DEF Init, LogsOK, ListsOK, Phases
  <1>2. ReadsOK
    BY DEF Init, ReadsOK, Places
  <1>3. Lists
    <2> SUFFICES ASSUME NEW x \in Trials
                 PROVE  Batched(x) /\ Listed(x)
      BY DEF Lists
    <2>1. items[x][0] = <<>> /\ items[x][1] = <<>> /\ ended[x][0] = FALSE /\ ended[x][1] = FALSE
      BY DEF Init
    <2>2. /\ batch[x] = <<>> /\ phase[x] = "idle" /\ flusher[x] = "nobody"
          /\ logged[x] = 0 /\ gen[x] = 0
      BY DEF Init
    <2>3. Last[x] \in Nat \ {0}
      BY DatastoreAssumption
    <2>4. QED
      BY <2>1, <2>2, <2>3 DEF Batched, Listed, Follows
  <1>4. Reads
    <2> SUFFICES ASSUME NEW r \in Readers
                 PROVE  Piped(r) /\ Called(r)
      BY DEF Reads
    <2>1. QED
      BY DEF Init, Piped, Called
  <1>5. QED
    BY <1>1, <1>2, <1>3, <1>4 DEF Inv

-----------------------------------------------------------------------------
(* What an action does not touch stays right.                              *)

LEMMA LogFrame ==
  ASSUME LogsOK, ListsOK, Lists,
         UNCHANGED <<logged, batch, flusher, phase, pos, gen, items, ended>>
  PROVE  LogsOK' /\ ListsOK' /\ Lists'
  BY DEF LogsOK, ListsOK, Lists, Batched, Listed

LEMMA ReadFrame ==
  ASSUME ReadsOK, Reads, UNCHANGED <<of, at, seen, upto, final, given, passed, received, outcome>>,
         \A x \in Trials, g \in 0..1 : Len(items[x][g]) <= Len(items'[x][g]),
         ListsOK, ListsOK'
  PROVE  ReadsOK' /\ Reads'
  <1>1. ReadsOK'
    BY DEF ReadsOK
  <1>2. ASSUME NEW r \in Readers
        PROVE  Piped(r)' /\ Called(r)'
    <2>1. Called(r)'
      BY DEF Reads, Called
    <2>2. Piped(r) /\ seen[r] \in 0..1 /\ upto[r] \in Nat
      BY DEF Reads, ReadsOK
    <2>3. of[r] \in Trials =>
            /\ Len(items[of[r]][seen[r]]) <= Len(items'[of[r]][seen[r]])
            /\ Len(items[of[r]][seen[r]]) \in Nat /\ Len(items'[of[r]][seen[r]]) \in Nat
      BY <2>2 DEF ListsOK
    <2>4. upto[r] > 0 => of[r] \in Trials /\ upto[r] <= Len(items'[of[r]][seen[r]])
      <3> DEFINE l == Len(items[of[r]][seen[r]])
                 m == Len(items'[of[r]][seen[r]])
      <3>1. upto[r] > 0 => of[r] \in Trials /\ upto[r] <= l
        BY <2>2 DEF Piped
      <3>2. of[r] \in Trials => l <= m /\ l \in Nat /\ m \in Nat
        BY <2>3
      <3> HIDE DEF l, m
      <3>3. upto[r] > 0 => of[r] \in Trials /\ upto[r] <= m
        BY <2>2, <3>1, <3>2
      <3>4. QED
        BY <3>3 DEF m
    <2>5. QED
      BY <2>1, <2>2, <2>4 DEF Piped
  <1>3. QED
    BY <1>1, <1>2 DEF Reads

\* Only the trial at work has to be looked at.
LEMMA OneTrial ==
  ASSUME Lists, NEW x \in Trials, Batched(x)', Listed(x)', LogsOK, ListsOK,
         \A y \in Trials \ {x} :
           /\ logged'[y] = logged[y] /\ batch'[y] = batch[y] /\ flusher'[y] = flusher[y]
           /\ phase'[y] = phase[y] /\ pos'[y] = pos[y] /\ gen'[y] = gen[y]
           /\ items'[y] = items[y] /\ ended'[y] = ended[y]
  PROVE  Lists'
  <1> SUFFICES ASSUME NEW y \in Trials, y # x
               PROVE  Batched(y)' /\ Listed(y)'
    BY DEF Lists
  <1>1. Batched(y) /\ Listed(y)
    BY DEF Lists
  <1>2. QED
    BY <1>1 DEF Batched, Listed

LEMMA OneReader ==
  ASSUME Reads, ReadsOK, NEW r \in Readers, Piped(r)', Called(r)', UNCHANGED items,
         \A q \in Readers \ {r} :
           /\ of'[q] = of[q] /\ at'[q] = at[q] /\ seen'[q] = seen[q] /\ upto'[q] = upto[q]
           /\ final'[q] = final[q] /\ given'[q] = given[q] /\ passed'[q] = passed[q]
           /\ received'[q] = received[q] /\ outcome'[q] = outcome[q]
  PROVE  Reads'
  <1> SUFFICES ASSUME NEW q \in Readers, q # r
               PROVE  Piped(q)' /\ Called(q)'
    BY DEF Reads
  <1>1. Piped(q) /\ Called(q)
    BY DEF Reads
  <1>2. QED
    BY <1>1 DEF Piped, Called

-----------------------------------------------------------------------------
(* The streams and AddSamples                                              *)

\* What is known of the trial at work.
LEMMA Typed ==
  ASSUME Inv, NEW x \in Trials
  PROVE  /\ Batched(x) /\ Listed(x)
         /\ batch[x] \in Seq(Nat) /\ logged[x] \in Nat /\ pos[x] \in Nat \ {0}
         /\ items[x][0] \in Seq(Nat) /\ items[x][1] \in Seq(Nat) /\ gen[x] \in 0..1
         /\ Last[x] \in Nat \ {0}
         /\ Len(batch[x]) \in Nat /\ Len(items[x][0]) \in Nat
  BY DatastoreAssumption DEF Inv, Lists, LogsOK, ListsOK

\* One sample more in the batch, one sample of it appended, the batch done.
LEMMA FollowsMore ==
  ASSUME NEW l \in Nat, NEW b \in Seq(Nat), NEW n \in Nat, Follows(l, b, n, 0)
  PROVE  Follows(l + 1, Append(b, l + 1), n, 0)
  <1>1. /\ Len(Append(b, l + 1)) = Len(b) + 1 /\ Len(b) \in Nat /\ l = n + Len(b)
        /\ \A j \in 1..(Len(b) + 1) : Append(b, l + 1)[j] = IF j = Len(b) + 1 THEN l + 1 ELSE b[j]
    BY DEF Follows
  <1>2. \A j \in 1..Len(b) : b[j] = n + j
    BY <1>1 DEF Follows
  <1>3. \A j \in 1..(Len(b) + 1) : Append(b, l + 1)[j] = n + j
    <2> SUFFICES ASSUME NEW j \in 1..(Len(b) + 1)
                 PROVE  Append(b, l + 1)[j] = n + j
      OBVIOUS
    <2>1. CASE j = Len(b) + 1
      BY <1>1, <2>1
    <2>2. CASE j # Len(b) + 1
      <3>1. j \in 1..Len(b)
        BY <1>1, <2>2
      <3>2. QED
        BY <1>1, <1>2, <2>2, <3>1
    <2>3. QED
      BY <2>1, <2>2
  <1>4. QED
    BY <1>1, <1>3 DEF Follows

LEMMA FollowsNext ==
  ASSUME NEW l \in Nat, NEW b \in Seq(Nat), NEW n \in Nat, NEW k \in 1..Len(b),
         Follows(l, b, n, k - 1)
  PROVE  b[k] = n + 1 /\ n < l /\ Follows(l, b, n + 1, k)
  <1>1. Len(b) \in Nat /\ k \in Nat /\ k <= Len(b) /\ l = n + Len(b) - (k - 1)
    BY DEF Follows
  <1>2. \A j \in 1..Len(b) : j > k - 1 => b[j] = n + j - (k - 1)
    BY DEF Follows
  <1>3. b[k] = n + 1 /\ n < l /\ l = (n + 1) + Len(b) - k
    BY <1>1, <1>2
  <1>4. \A j \in 1..Len(b) : j > k => b[j] = (n + 1) + j - k
    BY <1>1, <1>2
  <1>5. QED
    BY <1>3, <1>4 DEF Follows

LEMMA AddSampleStep ==
  ASSUME Inv, NEW x \in Trials, AddSample(x)
  PROVE  LogsOK' /\ ListsOK' /\ Lists'
  <1>1. /\ logged' = [logged EXCEPT ![x] = @ + 1] /\ logged[x] < Last[x] /\ flusher[x] = "nobody"
        /\ batch' = [batch EXCEPT ![x] = Append(@, logged[x] + 1)]
        /\ UNCHANGED <<flusher, phase, pos, gen, items, ended>>
    BY DEF AddSample, listVars
  <1>2. LogsOK' /\ ListsOK'
    BY <1>1 DEF Inv, LogsOK, ListsOK
  <1>3. logged'[x] = logged[x] + 1 /\ batch'[x] = Append(batch[x], logged[x] + 1)
    BY <1>1 DEF Inv, LogsOK
  <1>4. phase[x] = "idle" /\ Follows(logged[x], batch[x], Len(items[x][0]), 0)
    BY <1>1, Typed DEF Batched
  <1>5. Follows(logged'[x], batch'[x], Len(items[x][0]), 0)
    BY <1>3, <1>4, Typed, FollowsMore
  <1>6. logged'[x] <= Last[x]
    BY <1>1, <1>3, Typed
  <1>7. Batched(x)'
    BY <1>1, <1>4, <1>5, <1>6 DEF Batched
  <1>8. Listed(x)'
    BY <1>1, Typed DEF Listed
  <1>9. \A y \in Trials \ {x} : logged'[y] = logged[y] /\ batch'[y] = batch[y]
    BY <1>1 DEF Inv, LogsOK
  <1>10. QED
    BY <1>1, <1>2, <1>7, <1>8, <1>9, OneTrial DEF Inv

LEMMA FlushStep ==
  ASSUME Inv, NEW x \in Trials, NEW by \in {"stream", "timer"}, Flush(x, by)
  PROVE  LogsOK' /\ ListsOK' /\ Lists'
  <1>1. UNCHANGED <<logged, batch, gen, items, ended>> /\ flusher[x] = "nobody"
    BY DEF Flush, listVars
  <1>2. CASE UNCHANGED <<flusher, phase, pos>>
    BY <1>1, <1>2, LogFrame DEF Inv
  <1>3. CASE /\ batch[x] # <<>> /\ flusher' = [flusher EXCEPT ![x] = by]
             /\ phase' = [phase EXCEPT ![x] = "size"] /\ pos' = [pos EXCEPT ![x] = 1]
    <2>1. LogsOK' /\ ListsOK'
      BY <1>1, <1>3 DEF Inv, LogsOK, ListsOK, Phases
    <2>2. flusher'[x] = by /\ phase'[x] = "size" /\ pos'[x] = 1
      BY <1>3 DEF Inv, LogsOK
    <2>3. Follows(logged[x], batch[x], Len(items[x][0]), pos'[x] - 1)
      BY <1>1, <2>2, Typed DEF Batched
    <2>4. pos'[x] <= Len(batch[x])
      BY <1>3, <2>2, Typed
    <2>5. Batched(x)'
      BY <1>1, <2>2, <2>3, <2>4, Typed DEF Batched
    <2>6. Listed(x)'
      BY <1>1, Typed DEF Listed
    <2>7. \A y \in Trials \ {x} :
            flusher'[y] = flusher[y] /\ phase'[y] = phase[y] /\ pos'[y] = pos[y]
      BY <1>3 DEF Inv, LogsOK
    <2>8. QED
      BY <1>1, <2>1, <2>5, <2>6, <2>7, OneTrial DEF Inv
  <1>4. QED
    BY <1>2, <1>3 DEF Flush

LEMMA AddSizeStep ==
  ASSUME Inv, NEW x \in Trials, AddSize(x) \/ AddStored(x)
  PROVE  LogsOK' /\ ListsOK' /\ Lists'
  <1>1. /\ UNCHANGED <<logged, batch, flusher, pos, gen, items, ended>>
        /\ phase[x] \in {"size", "stored"}
        /\ \E place \in {"stored", "append"} : phase' = [phase EXCEPT ![x] = place]
    BY DEF AddSize, AddStored, Goto, listVars
  <1>2. LogsOK' /\ ListsOK'
    BY <1>1 DEF Inv, LogsOK, ListsOK, Phases
  <1>3. phase'[x] \in {"stored", "append"} /\ \A y \in Trials \ {x} : phase'[y] = phase[y]
    BY <1>1 DEF Inv, LogsOK
  <1>4. Batched(x)' /\ Listed(x)'
    BY <1>1, <1>3, Typed DEF Batched, Listed
  <1>5. QED
    BY <1>1, <1>2, <1>3, <1>4, OneTrial DEF Inv

\* The next sample of the list is the next one of the trial; it is never
\* appended to the list that replaced an evicted one.
LEMMA AppendStep ==
  ASSUME Inv, NEW x \in Trials, AppendItem(x)
  PROVE  /\ LogsOK' /\ ListsOK' /\ Lists'
         /\ \A y \in Trials, g \in 0..1 : Len(items[y][g]) <= Len(items'[y][g])
  <1>1. /\ phase[x] = "append" /\ UNCHANGED <<logged, batch, flusher, gen>>
        /\ items' = [items EXCEPT ![x][gen[x]] = Append(@, batch[x][pos[x]])]
        /\ ended' = [ended EXCEPT ![x][gen[x]] = (batch[x][pos[x]] = Last[x])]
        /\ \/ /\ pos[x] < Len(batch[x]) /\ phase' = [phase EXCEPT ![x] = "size"]
              /\ pos' = [pos EXCEPT ![x] = @ + 1]
           \/ /\ ~(pos[x] < Len(batch[x])) /\ phase' = [phase EXCEPT ![x] = "trigger"]
              /\ UNCHANGED pos
    BY DEF AppendItem, Goto
  <1>2. pos[x] \in 1..Len(batch[x]) /\ Follows(logged[x], batch[x], Len(items[x][0]), pos[x] - 1)
    BY <1>1, Typed DEF Batched
  <1>3. /\ batch[x][pos[x]] = Len(items[x][0]) + 1 /\ Len(items[x][0]) < logged[x]
        /\ Follows(logged[x], batch[x], Len(items[x][0]) + 1, pos[x])
    BY <1>2, Typed, FollowsNext
  <1>4. gen[x] = 0
    <2>1. Len(items[x][0]) # Last[x]
      BY <1>3, Typed DEF Batched
    <2>2. gen[x] \in 0..1 /\ (gen[x] = 1 => Len(items[x][0]) = Last[x])
      BY Typed DEF Listed
    <2>3. QED
      BY <2>1, <2>2
  <1>5. /\ items'[x][0] = Append(items[x][0], Len(items[x][0]) + 1) /\ items'[x][1] = items[x][1]
        /\ ended'[x][0] = (Len(items[x][0]) + 1 = Last[x]) /\ ended'[x][1] = ended[x][1]
    BY <1>1, <1>3, <1>4 DEF Inv, ListsOK
  <1>6. /\ Len(items'[x][0]) = Len(items[x][0]) + 1
        /\ \A i \in 1..(Len(items[x][0]) + 1) :
             items'[x][0][i] = IF i = Len(items[x][0]) + 1 THEN i ELSE items[x][0][i]
    BY <1>5, Typed
  <1>7. Listed(x)'
    <2>1. \A i \in 1..Len(items'[x][0]) : items'[x][0][i] = i
      <3>1. \A i \in 1..Len(items[x][0]) : items[x][0][i] = i
        BY Typed DEF Listed
      <3>2. Len(items[x][0]) \in Nat
        BY Typed
      <3>3. QED
        BY <1>6, <3>1, <3>2
    <2>2. ended'[x][0] <=> Len(items'[x][0]) = Last[x]
      BY <1>5, <1>6
    <2>3. items'[x][1] = <<>> /\ ended'[x][1] = FALSE
      BY <1>5, Typed DEF Listed
    <2>4. QED
      BY <1>1, <1>4, <2>1, <2>2, <2>3 DEF Listed
  <1>8. \/ pos[x] < Len(batch[x]) /\ phase'[x] = "size" /\ pos'[x] = pos[x] + 1
        \/ pos[x] = Len(batch[x]) /\ phase'[x] = "trigger"
    BY <1>1, <1>2, Typed DEF Inv, LogsOK
  <1>9. Batched(x)'
    <2>1. logged[x] <= Last[x] /\ flusher[x] # "nobody"
      BY <1>1, Typed DEF Batched
    <2>2. CASE pos[x] < Len(batch[x]) /\ phase'[x] = "size" /\ pos'[x] = pos[x] + 1
      <3>1. pos'[x] <= Len(batch[x]) /\ pos'[x] - 1 = pos[x]
        BY <2>2, Typed
      <3>2. QED
        BY <1>1, <1>3, <1>6, <2>1, <2>2, <3>1 DEF Batched
    <2>3. CASE pos[x] = Len(batch[x]) /\ phase'[x] = "trigger"
      <3>1. logged[x] = Len(items[x][0]) + 1
        BY <1>3, <2>3, Typed DEF Follows
      <3>2. QED
        BY <1>1, <1>6, <2>1, <2>3, <3>1 DEF Batched
    <2>4. QED
      BY <1>8, <2>2, <2>3
  <1>10. \A y \in Trials \ {x} : items'[y] = items[y] /\ ended'[y] = ended[y]
    BY <1>1 DEF Inv, ListsOK
  <1>11. \A y \in Trials \ {x} : phase'[y] = phase[y] /\ pos'[y] = pos[y]
    BY <1>1 DEF Inv, LogsOK
  <1>12. LogsOK'
    <2>1. phase' \in [Trials -> Phases]
      BY <1>1 DEF Inv, LogsOK, Phases
    <2>2. pos' \in [Trials -> Nat \ {0}]
      <3>1. pos \in [Trials -> Nat \ {0}] /\ pos[x] + 1 \in Nat \ {0}
        BY Typed DEF Inv, LogsOK
      <3>2. QED
        BY <1>1, <3>1
    <2>3. QED
      BY <1>1, <2>1, <2>2 DEF Inv, LogsOK
  <1>13. ListsOK'
    <2>1. batch[x][pos[x]] \in Nat
      BY <1>3, Typed
    <2>2. items' \in [Trials -> [0..1 -> Seq(Nat)]]
      BY <1>1, <1>4, <2>1, Typed DEF Inv, ListsOK
    <2>3. ended' \in [Trials -> [0..1 -> BOOLEAN]]
      BY <1>1, <1>4 DEF Inv, ListsOK
    <2>4. QED
      BY <1>1, <2>2, <2>3 DEF Inv, ListsOK
  <1>14. Lists'
    BY <1>1, <1>7, <1>9, <1>10, <1>11, OneTrial DEF Inv
  <1>15. ASSUME NEW y \in Trials, NEW g \in 0..1
         PROVE  Len(items[y][g]) <= Len(items'[y][g])
    <2>1. Len(items[y][g]) \in Nat
      BY DEF Inv, ListsOK
    <2>2. CASE y = x
      BY <1>5, <1>6, <2>1, <2>2
    <2>3. CASE y # x
      BY <1>10, <2>1, <2>3
    <2>4. QED
      BY <2>2, <2>3
  <1>16. QED
    BY <1>12, <1>13, <1>14, <1>15

LEMMA TriggerStep ==
  ASSUME Inv, NEW x \in Trials, Trigger(x)
  PROVE  LogsOK' /\ ListsOK' /\ Lists'
  <1>1. /\ phase[x] = "trigger" /\ UNCHANGED <<logged, pos, gen, items, ended>>
        /\ phase' = [phase EXCEPT ![x] = "idle"] /\ batch' = [batch EXCEPT ![x] = <<>>]
        /\ flusher' = [flusher EXCEPT ![x] = "nobody"]
    BY DEF Trigger, Goto, listVars
  <1>2. LogsOK' /\ ListsOK'
    BY <1>1 DEF Inv, LogsOK, ListsOK, Phases
  <1>3. phase'[x] = "idle" /\ batch'[x] = <<>> /\ flusher'[x] = "nobody"
    BY <1>1 DEF Inv, LogsOK
  <1>4. \A y \in Trials \ {x} :
          phase'[y] = phase[y] /\ batch'[y] = batch[y] /\ flusher'[y] = flusher[y]
    BY <1>1 DEF Inv, LogsOK
  <1>5. logged[x] = Len(items[x][0]) /\ logged[x] <= Last[x]
    BY <1>1, Typed DEF Batched
  <1>6. Follows(logged[x], <<>>, Len(items[x][0]), 0)
    BY <1>5, Typed DEF Follows
  <1>7. Batched(x)'
    BY <1>1, <1>3, <1>5, <1>6 DEF Batched
  <1>8. Listed(x)'
    BY <1>1, Typed DEF Listed
  <1>9. QED
    BY <1>1, <1>2, <1>4, <1>7, <1>8, OneTrial DEF Inv

\* An ended list is complete, so that nothing is appended after an eviction.
LEMMA EvictStep ==
  ASSUME Inv, Evict
  PROVE  LogsOK' /\ ListsOK' /\ Lists'
  <1>1. UNCHANGED <<logged, batch, flusher, phase, pos, items, ended>>
    BY DEF Evict, logVars
  <1>2. gen' = gen \/ \E x : ended[x][gen[x]] /\ gen' = [gen EXCEPT ![x] = 1]
    BY DEF Evict
  <1>3. CASE gen' = gen
    BY <1>1, <1>3, LogFrame DEF Inv
  <1>4. ASSUME NEW x, ended[x][gen[x]], gen' = [gen EXCEPT ![x] = 1]
        PROVE  LogsOK' /\ ListsOK' /\ Lists'
    <2>1. CASE x \notin Trials
      <3>1. gen' = gen
        BY <1>4, <2>1 DEF Inv, ListsOK
      <3>2. QED
        BY <1>3, <3>1
    <2>2. CASE x \in Trials
      <3>0. gen' \in [Trials -> 0..1]
        <4>1. gen \in [Trials -> 0..1]
          BY DEF Inv, ListsOK
        <4>2. 1 \in 0..1
          OBVIOUS
        <4>3. QED
          BY <1>4, <4>1, <4>2
      <3>1. LogsOK' /\ ListsOK'
        BY <1>1, <3>0 DEF Inv, LogsOK, ListsOK
      <3>2. Len(items[x][0]) = Last[x]
        <4>1. /\ ended[x][1] = FALSE /\ gen[x] \in 0..1
              /\ ended[x][0] <=> Len(items[x][0]) = Last[x]
          BY <2>2, Typed DEF Listed
        <4>2. QED
          BY <1>4, <4>1
      <3>3. Listed(x)'
        BY <1>1, <2>2, <3>2, Typed DEF Listed
      <3>4. Batched(x)'
        BY <1>1, <2>2, Typed DEF Batched
      <3>5. ASSUME NEW y \in Trials \ {x}
            PROVE  gen'[y] = gen[y]
        BY <1>4, <2>2 DEF Inv, ListsOK
      <3>6. QED
        BY <1>1, <2>2, <3>1, <3>3, <3>4, <3>5, OneTrial DEF Inv
    <2>3. QED
      BY <2>1, <2>2
  <1>5. QED
    BY <1>2, <1>3, <1>4

-----------------------------------------------------------------------------
(* The readers                                                             *)

\* What is known of the reader at work.
LEMMA Placed ==
  ASSUME Inv, NEW r \in Readers
  PROVE  /\ Piped(r) /\ Called(r)
         /\ of[r] \in Trials \cup {Nobody} /\ at[r] \in Places /\ seen[r] \in 0..1
         /\ upto[r] \in Nat /\ final[r] \in BOOLEAN /\ given[r] \in Nat /\ passed[r] \in Nat
         /\ received[r] \in Seq(Nat) /\ Len(received[r]) \in Nat
         /\ outcome[r] \in {"none", "unknown", "done", "cancelled"}
  BY DEF Inv, Reads, ReadsOK

\* A list that has ended is complete.
LEMMA EndedComplete ==
  ASSUME Inv, NEW x \in Trials, NEW g \in 0..1
  PROVE  /\ Len(items[x][g]) \in Nat /\ ended[x][g] \in BOOLEAN
         /\ ended[x][g] => Len(items[x][g]) = Last[x]
  <1>1. Len(items[x][g]) \in Nat /\ ended[x][g] \in BOOLEAN
    BY DEF Inv, ListsOK
  <1>2. ended[x][1] = FALSE /\ (ended[x][0] => Len(items[x][0]) = Last[x])
    BY Typed DEF Listed
  <1>3. QED
    BY <1>1, <1>2

\* What is in the list was logged.
LEMMA StoredLogged ==
  ASSUME Inv, NEW x \in Trials
  PROVE  Len(items[x][0]) <= logged[x]
  <1>1. CASE phase[x] = "idle"
    <2>1. Follows(logged[x], batch[x], Len(items[x][0]), 0)
      BY <1>1, Typed DEF Batched
    <2>2. \A l \in Nat, n \in Nat, b \in Seq(Nat) : Follows(l, b, n, 0) => n <= l
      BY DEF Follows
    <2>3. QED
      BY <2>1, <2>2, Typed
  <1>2. CASE phase[x] \in {"size", "stored", "append"}
    <2>1. /\ logged[x] = Len(items[x][0]) + Len(batch[x]) - (pos[x] - 1)
          /\ pos[x] <= Len(batch[x])
      BY <1>2, Typed DEF Batched, Follows
    <2>2. /\ logged[x] \in Nat /\ Len(items[x][0]) \in Nat /\ Len(batch[x]) \in Nat
          /\ pos[x] \in Nat
      BY Typed
    <2>3. QED
      BY <2>1, <2>2
  <1>3. CASE phase[x] = "trigger"
    BY <1>3, Typed DEF Batched
  <1>4. QED
    BY <1>1, <1>2, <1>3 DEF Inv, LogsOK, Phases

\* A sample that was read from a list is its number and was logged.
LEMMA ReadIsLogged ==
  ASSUME Inv, NEW x \in Trials, NEW g \in 0..1, NEW i \in 1..Len(items[x][g])
  PROVE  items[x][g][i] = i /\ i <= logged[x]
  <1>1. g = 0
    <2>1. CASE g = 1
      <3>1. items[x][1] = <<>>
        BY Typed DEF Listed
      <3>2. Len(items[x][g]) = 0
        BY <2>1, <3>1
      <3>3. QED
        BY <3>2
    <2>2. QED
      BY <2>1
  <1>2. items[x][0][i] = i
    BY <1>1, Typed DEF Listed
  <1>3. Len(items[x][0]) <= logged[x]
    BY StoredLogged
  <1>4. QED
    BY <1>1, <1>2, <1>3, Typed

LEMMA FindStep ==
  ASSUME Inv, NEW r \in Readers, Find(r)
  PROVE  /\ ReadsOK' /\ Reads' /\ UNCHANGED <<logged, received>>
         /\ \/ UNCHANGED of /\ \A q \in Readers : outcome'[q] = "done" <=> outcome[q] = "done"
            \/ /\ of[r] = Nobody /\ UNCHANGED outcome
               /\ \E x \in Trials : of' = [of EXCEPT ![r] = x]
  <1>1. at[r] = "call" /\ UNCHANGED <<logged, items, seen, upto, final, given, passed, received>>
    BY DEF Find, logVars, listVars
  <1>2. /\ of[r] = Nobody /\ upto[r] = 0 /\ final[r] = FALSE /\ outcome[r] = "none"
        /\ given[r] = 0 /\ passed[r] = 0 /\ received[r] = <<>>
    <2>1. of[r] = Nobody /\ upto[r] = 0 /\ final[r] = FALSE /\ outcome[r] = "none"
      BY <1>1, Placed DEF Called
    <2>2. Len(received[r]) = 0 /\ given[r] = 0 /\ passed[r] = 0
      BY <2>1, Placed DEF Piped
    <2>3. QED
      BY <2>1, <2>2, Placed
  <1>3. CASE /\ at' = [at EXCEPT ![r] = "returned"] /\ UNCHANGED of
             /\ outcome' = [outcome EXCEPT ![r] = "unknown"]
    <2>1. ReadsOK'
      BY <1>1, <1>3 DEF Inv, ReadsOK, Places
    <2>2. at'[r] = "returned" /\ outcome'[r] = "unknown" /\ of'[r] = Nobody
      BY <1>2, <1>3 DEF Inv, ReadsOK
    <2>3. \A q \in Readers \ {r} : at'[q] = at[q] /\ outcome'[q] = outcome[q]
      BY <1>3 DEF Inv, ReadsOK
    <2>4. Piped(r)'
      BY <1>1, <1>2, <2>2 DEF Piped
    <2>5. Called(r)'
      BY <1>1, <1>2, <2>2 DEF Called
    <2>6. Reads'
      BY <1>1, <1>3, <2>3, <2>4, <2>5, OneReader DEF Inv
    <2>7. QED
      BY <1>1, <1>2, <1>3, <2>1, <2>2, <2>3, <2>6
  <1>4. ASSUME NEW x \in Trials, of' = [of EXCEPT ![r] = x], UNCHANGED outcome,
               at' = [at EXCEPT ![r] = "found"]
        PROVE  ReadsOK' /\ Reads'
    <2>1. ReadsOK'
      BY <1>1, <1>4 DEF Inv, ReadsOK, Places
    <2>2. at'[r] = "found" /\ of'[r] = x
      BY <1>4 DEF Inv, ReadsOK
    <2>3. \A q \in Readers \ {r} : at'[q] = at[q] /\ of'[q] = of[q]
      BY <1>4 DEF Inv, ReadsOK
    <2>4. Piped(r)'
      BY <1>1, <1>2, <2>2 DEF Piped
    <2>5. Called(r)'
      BY <1>1, <1>2, <1>4, <2>2 DEF Called
    <2>6. Reads'
      BY <1>1, <1>4, <2>3, <2>4, <2>5, OneReader DEF Inv
    <2>7. QED
      BY <2>1, <2>6
  <1>5. CASE UNCHANGED <<at, of, outcome>>
    <2>1. ReadsOK' /\ Reads'
      BY <1>1, <1>5 DEF Inv, ReadsOK, Reads, Piped, Called
    <2>2. QED
      BY <1>1, <1>5, <2>1
  <1>6. PICK x \in Trials :
          \/ /\ at' = [at EXCEPT ![r] = "returned"] /\ UNCHANGED of
             /\ outcome' = [outcome EXCEPT ![r] = "unknown"]
          \/ of' = [of EXCEPT ![r] = x] /\ UNCHANGED outcome /\ at' = [at EXCEPT ![r] = "found"]
          \/ UNCHANGED <<at, of, outcome>>
    BY DEF Find, Place
  <1>7. QED
    BY <1>1, <1>2, <1>3, <1>4, <1>5, <1>6

LEMMA AttachStep ==
  ASSUME Inv, NEW r \in Readers, Attach(r)
  PROVE  ReadsOK' /\ Reads'
  <1> DEFINE x == of[r]
             g == gen[of[r]]
  <1>1. /\ at[r] = "found" /\ seen' = [seen EXCEPT ![r] = g]
        /\ UNCHANGED <<items, of, given, passed, received, outcome>>
        /\ \/ /\ ended[x][g] /\ upto' = [upto EXCEPT ![r] = Len(items[x][g])]
              /\ final' = [final EXCEPT ![r] = TRUE] /\ at' = [at EXCEPT ![r] = "send"]
           \/ at' = [at EXCEPT ![r] = "subscribe"] /\ UNCHANGED <<upto, final>>
    BY DEF Attach, Place, listVars
  <1>2. /\ x \in Trials /\ upto[r] = 0 /\ final[r] = FALSE /\ outcome[r] = "none"
        /\ given[r] = 0 /\ passed[r] = 0 /\ Len(received[r]) = 0
    <2>1. x \in Trials /\ upto[r] = 0 /\ final[r] = FALSE /\ outcome[r] = "none"
      BY <1>1, Placed DEF Called
    <2>2. Len(received[r]) = 0 /\ given[r] = 0 /\ passed[r] = 0
      BY <2>1, Placed DEF Piped
    <2>3. QED
      BY <2>1, <2>2
  <1>3. g \in 0..1 /\ Len(items[x][g]) \in Nat /\ (ended[x][g] => Len(items[x][g]) = Last[x])
    BY <1>2, Typed, EndedComplete
  <1>4. ReadsOK'
    <2>1. ReadsOK
      BY DEF Inv
    <2>2. seen' \in [Readers -> 0..1]
      BY <1>1, <1>3, <2>1 DEF ReadsOK
    <2>3. upto' \in [Readers -> Nat]
      <3>1. upto \in [Readers -> Nat] /\ Len(items[x][g]) \in Nat
        BY <1>3, <2>1 DEF ReadsOK
      <3>2. upto' = upto \/ upto' = [upto EXCEPT ![r] = Len(items[x][g])]
        BY <1>1
      <3>3. QED
        BY <3>1, <3>2
    <2>4. final' \in [Readers -> BOOLEAN]
      <3>1. final \in [Readers -> BOOLEAN]
        BY <2>1 DEF ReadsOK
      <3>2. final' = final \/ final' = [final EXCEPT ![r] = TRUE]
        BY <1>1
      <3>3. QED
        BY <3>1, <3>2
    <2>5. at' \in [Readers -> Places]
      BY <1>1, <2>1 DEF ReadsOK, Places
    <2>6. QED
      BY <1>1, <2>1, <2>2, <2>3, <2>4, <2>5 DEF ReadsOK
  <1>5. seen'[r] = g /\ of'[r] = of[r]
    BY <1>1 DEF Inv, ReadsOK
  <1>6. \/ /\ ended[x][g] /\ upto'[r] = Len(items[x][g]) /\ final'[r] = TRUE /\ at'[r] = "send"
        \/ at'[r] = "subscribe" /\ upto'[r] = 0 /\ final'[r] = FALSE
    BY <1>1, <1>2 DEF Inv, ReadsOK
  <1>7. \A q \in Readers \ {r} :
          at'[q] = at[q] /\ seen'[q] = seen[q] /\ upto'[q] = upto[q] /\ final'[q] = final[q]
    BY <1>1 DEF Inv, ReadsOK
  <1>8. Piped(r)'
    BY <1>1, <1>2, <1>3, <1>5, <1>6 DEF Piped
  <1>9. Called(r)'
    BY <1>1, <1>2, <1>3, <1>5, <1>6 DEF Called
  <1>10. QED
    BY <1>1, <1>4, <1>7, <1>8, <1>9, OneReader DEF Inv

LEMMA ReadStep ==
  ASSUME Inv, NEW r \in Readers, Read(r)
  PROVE  ReadsOK' /\ Reads'
  <1> DEFINE x == of[r]
             g == seen[r]
  <1>1. /\ at[r] = "read" /\ at' = [at EXCEPT ![r] = "send"]
        /\ upto' = [upto EXCEPT ![r] = Len(items[x][g])]
        /\ final' = [final EXCEPT ![r] = ended[x][g]]
        /\ UNCHANGED <<items, of, seen, given, passed, received, outcome>>
    BY DEF Read, Place, List, listVars
  <1>2. x \in Trials /\ outcome[r] = "none"
    BY <1>1, Placed DEF Called
  <1>3. /\ g \in 0..1 /\ Len(items[x][g]) \in Nat /\ ended[x][g] \in BOOLEAN
        /\ ended[x][g] => Len(items[x][g]) = Last[x]
    BY <1>2, Placed, EndedComplete
  <1>4. ReadsOK'
    BY <1>1, <1>3 DEF Inv, ReadsOK, Places
  <1>5. at'[r] = "send" /\ upto'[r] = Len(items[x][g]) /\ final'[r] = ended[x][g]
    BY <1>1 DEF Inv, ReadsOK
  <1>6. \A q \in Readers \ {r} : at'[q] = at[q] /\ upto'[q] = upto[q] /\ final'[q] = final[q]
    BY <1>1 DEF Inv, ReadsOK
  <1>7. given[r] <= Len(items[x][g])
    BY <1>3, Placed DEF Piped
  <1>8. Piped(r)'
    BY <1>1, <1>2, <1>3, <1>5, <1>7, Placed DEF Piped
  <1>9. Called(r)'
    BY <1>1, <1>2, <1>3, <1>5 DEF Called
  <1>10. QED
    BY <1>1, <1>4, <1>6, <1>8, <1>9, OneReader DEF Inv

\* Only the place of the reader changes.
LEMMA MoveStep ==
  ASSUME Inv, NEW r \in Readers, Subscribe(r) \/ Wake(r) \/ Observed(r)
  PROVE  ReadsOK' /\ Reads'
  <1>1. /\ at[r] \in {"subscribe", "send"}
        /\ UNCHANGED <<items, of, seen, upto, final, given, passed, received, outcome>>
        /\ \/ /\ at' = [at EXCEPT ![r] = "complete"] /\ final[r] /\ given[r] = upto[r]
           \/ \E p \in {"read", "cancelled"} : at' = [at EXCEPT ![r] = p]
    BY DEF Subscribe, Wake, Observed, Place, listVars
  <1>2. ReadsOK'
    BY <1>1 DEF Inv, ReadsOK, Places
  <1>3. \/ at'[r] = "complete" /\ final[r] /\ given[r] = upto[r]
        \/ at'[r] \in {"read", "cancelled"}
    BY <1>1 DEF Inv, ReadsOK
  <1>4. \A q \in Readers \ {r} : at'[q] = at[q]
    BY <1>1 DEF Inv, ReadsOK
  <1>5. Piped(r)'
    BY <1>1, Placed DEF Piped
  <1>6. Called(r)'
    BY <1>1, <1>3, Placed DEF Called
  <1>7. QED
    BY <1>1, <1>2, <1>4, <1>5, <1>6, OneReader DEF Inv

LEMMA GiveStep ==
  ASSUME Inv, NEW r \in Readers, Give(r)
  PROVE  ReadsOK' /\ Reads'
  <1>1. /\ at[r] = "send" /\ given[r] < upto[r] /\ given' = [given EXCEPT ![r] = @ + 1]
        /\ UNCHANGED <<items, of, at, seen, upto, final, passed, received, outcome>>
    BY DEF Give, listVars
  <1>2. given[r] + 1 \in Nat
    BY Placed
  <1>3. ReadsOK'
    BY <1>1, <1>2 DEF Inv, ReadsOK
  <1>4. given'[r] = given[r] + 1 /\ \A q \in Readers \ {r} : given'[q] = given[q]
    BY <1>1 DEF Inv, ReadsOK
  <1>5. Piped(r)'
    BY <1>1, <1>4, Placed DEF Piped
  <1>6. Called(r)'
    BY <1>1, <1>4, Placed DEF Called
  <1>7. QED
    BY <1>1, <1>3, <1>4, <1>5, <1>6, OneReader DEF Inv

LEMMA PassStep ==
  ASSUME Inv, NEW r \in Readers, Pass(r)
  PROVE  ReadsOK' /\ Reads'
  <1>1. /\ passed[r] < given[r] /\ passed[r] = Len(received[r])
        /\ passed' = [passed EXCEPT ![r] = @ + 1]
        /\ UNCHANGED <<items, of, at, seen, upto, final, given, received, outcome>>
    BY DEF Pass, listVars
  <1>2. passed[r] + 1 \in Nat
    BY Placed
  <1>3. ReadsOK'
    BY <1>1, <1>2 DEF Inv, ReadsOK
  <1>4. passed'[r] = passed[r] + 1 /\ \A q \in Readers \ {r} : passed'[q] = passed[q]
    BY <1>1 DEF Inv, ReadsOK
  <1>5. Piped(r)'
    BY <1>1, <1>4, Placed DEF Piped
  <1>6. outcome[r] # "done"
    <2>1. passed[r] \in Nat /\ given[r] \in Nat /\ (outcome[r] = "done" => given[r] = passed[r])
      BY Placed DEF Called
    <2>2. QED
      BY <1>1, <2>1
  <1>7. Called(r)'
    BY <1>1, <1>4, <1>6, Placed DEF Called
  <1>8. QED
    BY <1>1, <1>3, <1>4, <1>5, <1>7, OneReader DEF Inv

\* The next sample that is sent is the next one of the trial.
LEMMA SendStep ==
  ASSUME Inv, NEW r \in Readers, Send(r)
  PROVE  /\ ReadsOK' /\ Reads' /\ UNCHANGED <<logged, of, outcome>>
         /\ \/ UNCHANGED received
            \/ /\ of[r] \in Trials /\ outcome[r] # "done" /\ Len(received[r]) < logged[of[r]]
               /\ received' = [received EXCEPT ![r] = Append(@, Len(received[r]) + 1)]
  <1>1. /\ passed[r] > Len(received[r])
        /\ UNCHANGED <<logged, items, of, at, seen, upto, final, given, passed, outcome>>
        /\ \/ UNCHANGED received
           \/ received' = [received EXCEPT ![r] = Append(@, List(r)[passed[r]])]
    BY DEF Send, logVars, listVars
  <1>2. CASE UNCHANGED received
    <2>1. ReadsOK' /\ Reads'
      BY <1>1, <1>2 DEF Inv, ReadsOK, Reads, Piped, Called
    <2>2. QED
      BY <1>1, <1>2, <2>1
  <1>3. CASE received' = [received EXCEPT ![r] = Append(@, List(r)[passed[r]])]
    <2>1. /\ passed[r] = Len(received[r]) + 1 /\ passed[r] <= upto[r] /\ of[r] \in Trials
          /\ upto[r] <= Len(items[of[r]][seen[r]])
      BY <1>1, Placed DEF Piped
    <2>2. Len(items[of[r]][seen[r]]) \in Nat
      BY <2>1, Placed, EndedComplete
    <2>3. passed[r] \in 1..Len(items[of[r]][seen[r]])
      BY <2>1, <2>2, Placed
    <2>4. List(r)[passed[r]] = Len(received[r]) + 1 /\ Len(received[r]) + 1 <= logged[of[r]]
      BY <2>1, <2>3, Placed, ReadIsLogged DEF List
    <2>5. received' = [received EXCEPT ![r] = Append(@, Len(received[r]) + 1)]
      BY <1>3, <2>4
    <2>6. ReadsOK'
      <3>1. Append(received[r], Len(received[r]) + 1) \in Seq(Nat)
        BY Placed
      <3>2. received' \in [Readers -> Seq(Nat)]
        BY <2>5, <3>1 DEF Inv, ReadsOK
      <3>3. QED
        BY <1>1, <3>2 DEF Inv, ReadsOK
    <2>7. /\ received'[r] = Append(received[r], Len(received[r]) + 1)
          /\ \A q \in Readers \ {r} : received'[q] = received[q]
      BY <2>5 DEF Inv, ReadsOK
    <2>8. /\ Len(received'[r]) = Len(received[r]) + 1
          /\ \A i \in 1..(Len(received[r]) + 1) :
               received'[r][i] = IF i = Len(received[r]) + 1 THEN i ELSE received[r][i]
      BY <2>7, Placed
    <2>9. \A i \in 1..Len(received'[r]) : received'[r][i] = i
      <3>1. \A i \in 1..Len(received[r]) : received[r][i] = i
        BY Placed DEF Piped
      <3>2. Len(received[r]) \in Nat
        BY Placed
      <3>3. QED
        BY <2>8, <3>1, <3>2
    <2>10. Piped(r)'
      BY <1>1, <2>1, <2>8, <2>9, Placed DEF Piped
    <2>11. outcome[r] # "done"
      <3>1. /\ passed[r] \in Nat /\ Len(received[r]) \in Nat
            /\ outcome[r] = "done" => passed[r] = Len(received[r])
        BY Placed DEF Called
      <3>2. QED
        BY <1>1, <3>1
    <2>12. Called(r)'
      BY <1>1, <2>11, Placed DEF Called
    <2>13. Reads'
      BY <1>1, <2>7, <2>10, <2>12, OneReader DEF Inv
    <2>14. Len(received[r]) < logged[of[r]]
      BY <2>1, <2>4, Placed, Typed
    <2>15. QED
      BY <1>1, <2>1, <2>5, <2>6, <2>11, <2>13, <2>14
  <1>4. QED
    BY <1>1, <1>2, <1>3

\* A retrieval that returns without an error has brought all samples.
LEMMA ReturnStep ==
  ASSUME Inv, NEW r \in Readers, Return(r)
  PROVE  /\ ReadsOK' /\ Reads' /\ UNCHANGED <<logged, of, received>>
         /\ \/ \A q \in Readers : outcome'[q] = "done" <=> outcome[q] = "done"
            \/ /\ of[r] \in Trials /\ Len(received[r]) = Last[of[r]]
               /\ \A q \in Readers : outcome'[q] = "done" <=> (outcome[q] = "done" \/ q = r)
  <1>1. /\ at[r] \in {"complete", "cancelled"} /\ passed[r] = given[r]
        /\ at' = [at EXCEPT ![r] = "returned"]
        /\ UNCHANGED <<logged, items, of, seen, upto, final, given, passed, received>>
        /\ \/ outcome' = [outcome EXCEPT ![r] = "cancelled"]
           \/ /\ at[r] = "complete" /\ Len(received[r]) = passed[r]
              /\ outcome' = [outcome EXCEPT ![r] = "done"]
    BY DEF Return, Place, logVars, listVars
  <1>2. of[r] \in Trials /\ outcome[r] = "none"
    BY <1>1, Placed DEF Called
  <1>3. at[r] = "complete" => given[r] = upto[r] /\ upto[r] = Last[of[r]]
    BY Placed DEF Called
  <1>4. ReadsOK'
    BY <1>1 DEF Inv, ReadsOK, Places
  <1>5. at'[r] = "returned"
    BY <1>1 DEF Inv, ReadsOK
  <1>6. \/ outcome'[r] = "cancelled"
        \/ /\ outcome'[r] = "done" /\ Len(received[r]) = Last[of[r]]
           /\ passed[r] = Len(received[r])
    BY <1>1, <1>3 DEF Inv, ReadsOK
  <1>7. \A q \in Readers \ {r} : at'[q] = at[q] /\ outcome'[q] = outcome[q]
    BY <1>1 DEF Inv, ReadsOK
  <1>8. Piped(r)'
    BY <1>1, Placed DEF Piped
  <1>9. Called(r)'
    BY <1>1, <1>2, <1>5, <1>6, Placed DEF Called
  <1>10. Reads'
    BY <1>1, <1>7, <1>8, <1>9, OneReader DEF Inv
  <1>11. QED
    BY <1>1, <1>2, <1>4, <1>6, <1>7, <1>10

-----------------------------------------------------------------------------
(* Every step keeps the invariant and is a step of SampleLog, or none.     *)

LEMMA ListsLonger ==
  ASSUME ListsOK, UNCHANGED items
  PROVE  \A x \in Trials, g \in 0..1 : Len(items[x][g]) <= Len(items'[x][g])
  BY DEF ListsOK

\* The streams, AddSamples, the eviction and the deletion.
LEMMA WriteStep ==
  ASSUME Inv, \/ \E x \in Trials : Create(x) \/ AddSample(x) \/ Flushing(x)
              \/ \E x \in Deletable : Delete(x)
              \/ Evicting
  PROVE  Inv' /\ UNCHANGED <<of, received, outcome>>
  <1>1. UNCHANGED readVars \/ \E x \in Trials : AppendItem(x)
    BY DEF Create, AddSample, Flushing, FlushFull, FlushTimer, Flush, AddSize, AddStored, Trigger,
           Delete, Evicting, EvictCheck, Evict
  <1>2. UNCHANGED <<of, at, seen, upto, final, given, passed, received, outcome>>
    BY <1>1 DEF readVars, AppendItem
  <1>3. ASSUME LogsOK' /\ ListsOK' /\ Lists',
               \A x \in Trials, g \in 0..1 : Len(items[x][g]) <= Len(items'[x][g])
        PROVE  Inv' /\ UNCHANGED <<of, received, outcome>>
    BY <1>2, <1>3, ReadFrame DEF Inv
  <1>4. ASSUME NEW x \in Trials, AppendItem(x)
        PROVE  Inv' /\ UNCHANGED <<of, received, outcome>>
    BY <1>3, <1>4, AppendStep
  <1>5. ASSUME LogsOK' /\ ListsOK' /\ Lists', UNCHANGED items
        PROVE  Inv' /\ UNCHANGED <<of, received, outcome>>
    BY <1>3, <1>5, ListsLonger DEF Inv
  <1>6. ASSUME NEW x \in Trials, Create(x)
        PROVE  Inv' /\ UNCHANGED <<of, received, outcome>>
    <2>1. UNCHANGED <<logged, batch, flusher, phase, pos, gen, items, ended>>
      BY <1>6 DEF Create, listVars
    <2>2. QED
      BY <2>1, <1>5, LogFrame DEF Inv
  <1>7. ASSUME NEW x \in Trials, AddSample(x)
        PROVE  Inv' /\ UNCHANGED <<of, received, outcome>>
    <2>1. UNCHANGED items
      BY <1>7 DEF AddSample, listVars
    <2>2. QED
      BY <1>5, <1>7, <2>1, AddSampleStep
  <1>8. ASSUME NEW x \in Trials, FlushFull(x) \/ FlushTimer(x)
        PROVE  Inv' /\ UNCHANGED <<of, received, outcome>>
    <2>1. PICK by \in {"stream", "timer"} : Flush(x, by)
      BY <1>8 DEF FlushFull, FlushTimer
    <2>2. UNCHANGED items
      BY <2>1 DEF Flush, listVars
    <2>3. QED
      BY <1>5, <2>1, <2>2, FlushStep
  <1>9. ASSUME NEW x \in Trials, AddSize(x) \/ AddStored(x)
        PROVE  Inv' /\ UNCHANGED <<of, received, outcome>>
    <2>1. UNCHANGED items
      BY <1>9 DEF AddSize, AddStored, listVars
    <2>2. QED
      BY <1>5, <1>9, <2>1, AddSizeStep
  <1>10. ASSUME NEW x \in Trials, Trigger(x)
         PROVE  Inv' /\ UNCHANGED <<of, received, outcome>>
    <2>1. UNCHANGED items
      BY <1>10 DEF Trigger, listVars
    <2>2. QED
      BY <1>5, <1>10, <2>1, TriggerStep
  <1>11. ASSUME NEW x \in Deletable, Delete(x)
         PROVE  Inv' /\ UNCHANGED <<of, received, outcome>>
    <2>1. UNCHANGED <<logged, batch, flusher, phase, pos, gen, items, ended>>
      BY <1>11 DEF Delete, logVars, listVars
    <2>2. QED
      BY <2>1, <1>5, LogFrame DEF Inv
  <1>12. ASSUME EvictCheck
         PROVE  Inv' /\ UNCHANGED <<of, received, outcome>>
    <2>1. UNCHANGED <<logged, batch, flusher, phase, pos, gen, items, ended>>
      BY <1>12 DEF EvictCheck, logVars, listVars
    <2>2. QED
      BY <2>1, <1>5, LogFrame DEF Inv
  <1>13. ASSUME Evict
         PROVE  Inv' /\ UNCHANGED <<of, received, outcome>>
    <2>1. UNCHANGED items
      BY <1>13 DEF Evict
    <2>2. QED
      BY <1>5, <1>13, <2>1, EvictStep
  <1>14. QED
    BY <1>4, <1>6, <1>7, <1>8, <1>9, <1>10, <1>11, <1>12, <1>13 DEF Flushing, Evicting

\* What the streams and AddSamples do to the log.
LEMMA WriteLogs ==
  ASSUME Inv, \/ \E x \in Trials : Create(x) \/ AddSample(x) \/ Flushing(x)
              \/ \E x \in Deletable : Delete(x)
              \/ Evicting
  PROVE  \/ UNCHANGED logged
         \/ \E x \in Trials : logged[x] < Last[x] /\ logged' = [logged EXCEPT ![x] = @ + 1]
  BY DEF Create, AddSample, Flushing, FlushFull, FlushTimer, Flush, AddSize, AddStored, AppendItem,
         Trigger, Delete, Evicting, EvictCheck, Evict, logVars

LEMMA ReaderStep ==
  ASSUME Inv, NEW r \in Readers,
         Find(r) \/ Observing(r) \/ Pass(r) \/ Send(r) \/ Return(r) \/ Leave(r)
  PROVE  Inv'
  <1>1. UNCHANGED <<logged, batch, flusher, phase, pos, gen, items, ended>>
    BY DEF Find, Observing, Attach, Subscribe, Read, Give, Wake, Observed, Pass, Send, Return,
           Leave, logVars, listVars
  <1>2. LogsOK' /\ ListsOK' /\ Lists'
    BY <1>1, LogFrame DEF Inv
  <1>3. ReadsOK' /\ Reads'
    <2>1. CASE Leave(r)
      <3>1. UNCHANGED <<of, at, seen, upto, final, given, passed, received, outcome>>
        BY <2>1 DEF Leave
      <3>2. QED
        BY <1>1, <1>2, <3>1, ListsLonger, ReadFrame DEF Inv
    <2>2. QED
      BY <2>1, FindStep, AttachStep, ReadStep, MoveStep, GiveStep, PassStep, SendStep, ReturnStep
         DEF Observing
  <1>4. QED
    BY <1>2, <1>3 DEF Inv

LEMMA InvStep == Inv /\ [Next]_vars => Inv'
  <1>1. ASSUME Inv, UNCHANGED vars
        PROVE  Inv'
    <2>1. UNCHANGED <<logged, batch, flusher, phase, pos, gen, items, ended>>
      BY <1>1 DEF vars, logVars, listVars
    <2>2. UNCHANGED <<of, at, seen, upto, final, given, passed, received, outcome>>
      BY <1>1 DEF vars, readVars
    <2>3. QED
      BY <1>1, <2>1, <2>2, LogFrame, ListsLonger, ReadFrame DEF Inv
  <1>2. ASSUME Inv, Next
        PROVE  Inv'
    BY <1>2, WriteStep, ReaderStep DEF Next
  <1>3. QED
    BY <1>1, <1>2

LEMMA StepLogged == Inv /\ [Next]_vars => [Log!Next]_(Log!vars)
  <1> DEFINE over == {q \in Readers : outcome[q] = "done"}
  <1>1. ASSUME UNCHANGED <<logged, of, received>>,
               \A q \in Readers : outcome'[q] = "done" <=> outcome[q] = "done"
        PROVE  UNCHANGED Log!vars
    BY <1>1 DEF Log!vars
  <1>2. ASSUME NEW x \in Trials, logged[x] < Last[x], logged' = [logged EXCEPT ![x] = @ + 1],
               UNCHANGED <<of, received, outcome>>
        PROVE  Log!Next
    BY <1>2 DEF Log!Next, Log!Log
  <1>3. ASSUME NEW r \in Readers, of[r] = Nobody, NEW x \in Trials,
               of' = [of EXCEPT ![r] = x], UNCHANGED <<logged, received, outcome>>
        PROVE  Log!Next
    BY <1>3 DEF Log!Next, Log!Open
  <1>4. ASSUME NEW r \in Readers, of[r] \in Trials, outcome[r] # "done",
               Len(received[r]) < logged[of[r]], UNCHANGED <<logged, of, outcome>>,
               received' = [received EXCEPT ![r] = Append(@, Len(received[r]) + 1)]
        PROVE  Log!Next
    <2>1. of[r] # Nobody /\ r \notin over
      BY <1>4, DatastoreAssumption
    <2>2. QED
      BY <1>4, <2>1 DEF Log!Next, Log!Receive
  <1>5. ASSUME NEW r \in Readers, of[r] \in Trials, Len(received[r]) = Last[of[r]],
               UNCHANGED <<logged, of, received>>,
               \A q \in Readers : outcome'[q] = "done" <=> (outcome[q] = "done" \/ q = r)
        PROVE  Log!Next
    <2>1. of[r] # Nobody
      BY <1>5, DatastoreAssumption
    <2>2. over' = over \cup {r}
      BY <1>5
    <2>3. QED
      BY <1>5, <2>1, <2>2 DEF Log!Next, Log!End
  <1>6. ASSUME Inv, \/ \E x \in Trials : Create(x) \/ AddSample(x) \/ Flushing(x)
                    \/ \E x \in Deletable : Delete(x)
                    \/ Evicting
        PROVE  [Log!Next]_(Log!vars)
    BY <1>1, <1>2, <1>6, WriteStep, WriteLogs
  <1>7. ASSUME Inv, NEW r \in Readers,
               Find(r) \/ Observing(r) \/ Pass(r) \/ Send(r) \/ Return(r) \/ Leave(r)
        PROVE  [Log!Next]_(Log!vars)
    <2>1. CASE Find(r)
      BY <1>1, <1>3, <1>7, <2>1, FindStep
    <2>2. CASE Send(r)
      BY <1>1, <1>4, <1>7, <2>2, SendStep
    <2>3. CASE Return(r)
      BY <1>1, <1>5, <1>7, <2>3, ReturnStep
    <2>4. CASE Observing(r) \/ Pass(r) \/ Leave(r)
      <3>1. UNCHANGED <<logged, of, received, outcome>>
        BY <2>4 DEF Observing, Attach, Subscribe, Read, Give, Wake, Observed, Pass, Leave, logVars
      <3>2. QED
        BY <1>1, <3>1
    <2>5. QED
      BY <1>7, <2>1, <2>2, <2>3, <2>4
  <1>8. ASSUME UNCHANGED vars
        PROVE  [Log!Next]_(Log!vars)
    BY <1>1, <1>8 DEF vars, logVars, readVars
  <1>9. QED
    BY <1>6, <1>7, <1>8 DEF Next

LEMMA InitLogged == Init => Log!Init
  BY DEF Init, Log!Init

\* Whatever is batched, evicted or deleted while it is read (AddSamples,
\* ObservableList, evictLruTrials, DeleteTrials), a retrieval brings the samples
\* of a trial in the order of the log, each once, and it is only done when it
\* brought the last one.
THEOREM SamplesImplementLog == Spec => SamplesAsLogged
  <1>1. Spec => []Inv
    <2>1. Init => Inv
      BY InvInit
    <2>2. Inv /\ [Next]_vars => Inv'
      BY InvStep
    <2>3. QED
      BY <2>1, <2>2, PTL DEF Spec
  <1>2. QED
    BY <1>1, InitLogged, StepLogged, PTL DEF Spec, SamplesAsLogged, Log!Spec

-----------------------------------------------------------------------------
(* Sums over finite sets.  MapThenSumSet is a recursive function on the     *)
(* subsets of the set; its unfolding needs such a function to exist, and    *)
(* what it computes is shown by induction on the size of the set, with the  *)
(* induction hypothesis coded as a set of numbers.                          *)

Size(f, S) == MapThenSumSet(LAMBDA x : f[x], S)
Pick(s) == CHOOSE x \in s : TRUE
\* A function that sums f over the sets of D.
SumsOn(it, f, D) == it = [s \in D |-> IF s = {} THEN 0 ELSE f[Pick(s)] + it[s \ {Pick(s)}]]
Sums(it, f, S) == SumsOn(it, f, SUBSET S)

\* A set of natural numbers that is not empty has a least element.
LEMMA Least == ASSUME NEW N \in SUBSET Nat, N # {} PROVE \E n \in N : \A m \in N : n <= m
<1>1. PICK n \in N : \A m \in N : ~ (<<m, n>> \in OpToRel(<, Nat))
  BY NatLessThanWellFounded, WFMin, Zenon
<1>2. \A m \in N : ~(m < n)
  BY <1>1 DEF OpToRel
<1> QED BY <1>2

\* Induction, for a property given as the set of numbers that have it.
LEMMA Induct == ASSUME NEW N, 0 \in N, \A n \in Nat : n \in N => n + 1 \in N PROVE Nat \subseteq N
<1> SUFFICES ASSUME Nat \ N # {} PROVE FALSE
  OBVIOUS
<1>1. PICK n \in Nat \ N : \A m \in Nat \ N : n <= m
  BY Least
<1>2. n - 1 \in Nat /\ n - 1 \in N
  BY <1>1
<1> QED BY <1>1, <1>2

\* The element the recursion takes out.
LEMMA Taken == ASSUME NEW s, s # {}, IsFiniteSet(s)
  PROVE /\ Pick(s) \in s /\ IsFiniteSet(s \ {Pick(s)}) /\ Cardinality(s) \in Nat \ {0}
        /\ Cardinality(s \ {Pick(s)}) = Cardinality(s) - 1
<1>1. Pick(s) \in s
  BY DEF Pick
<1>2. Cardinality(s) \in Nat /\ Cardinality(s) # 0
  BY FS_CardinalityType, FS_EmptySet
<1>3. IsFiniteSet(s \ {Pick(s)}) /\ Cardinality(s \ {Pick(s)}) = Cardinality(s) - 1
  BY <1>1, FS_RemoveElement
<1> QED BY <1>1, <1>2, <1>3

\* The function exists on the sets of at most n elements, for every n.
LEMMA SumsExist == ASSUME NEW f, NEW S, IsFiniteSet(S) PROVE \E it : Sums(it, f, S)
<1> DEFINE Upto(n) == {s \in SUBSET S : Cardinality(s) <= n}
           N == {n \in Nat : \E it : SumsOn(it, f, Upto(n))}
<1>0. \A s \in SUBSET S : IsFiniteSet(s) /\ Cardinality(s) \in Nat /\ (Cardinality(s) = 0 <=> s = {})
  BY FS_Subset, FS_CardinalityType, FS_EmptySet
<1>1. 0 \in N
  <2> DEFINE it == [s \in Upto(0) |-> 0]
  <2>1. \A s \in Upto(0) : s = {}
    BY <1>0
  <2>2. it = [s \in Upto(0) |-> IF s = {} THEN 0 ELSE f[Pick(s)] + it[s \ {Pick(s)}]]
    BY <2>1
  <2> QED BY <2>2 DEF SumsOn
<1>2. ASSUME NEW n \in Nat, n \in N PROVE n + 1 \in N
  <2>1. PICK it : SumsOn(it, f, Upto(n))
    BY <1>2
  <2> DEFINE jt == [s \in Upto(n + 1) |-> IF s = {} THEN 0 ELSE f[Pick(s)] + it[s \ {Pick(s)}]]
  <2>2. \A s \in Upto(n) : jt[s] = it[s]
    <3>1. Upto(n) \subseteq Upto(n + 1)
      BY <1>0
    <3>2. it = [s \in Upto(n) |-> IF s = {} THEN 0 ELSE f[Pick(s)] + it[s \ {Pick(s)}]]
      BY <2>1 DEF SumsOn
    <3> HIDE DEF Upto
    <3> SUFFICES ASSUME NEW s \in Upto(n) PROVE jt[s] = it[s]
      OBVIOUS
    <3>3. it[s] = IF s = {} THEN 0 ELSE f[Pick(s)] + it[s \ {Pick(s)}]
      BY <3>2, Zenon
    <3> QED BY <3>1, <3>3
  <2>3. \A s \in Upto(n + 1) : s # {} => s \ {Pick(s)} \in Upto(n)
    BY <1>0, Taken
  <2>4. jt = [s \in Upto(n + 1) |-> IF s = {} THEN 0 ELSE f[Pick(s)] + jt[s \ {Pick(s)}]]
    <3> HIDE DEF Upto
    <3> QED BY <2>2, <2>3
  <2> HIDE DEF jt
  <2>5. SumsOn(jt, f, Upto(n + 1))
    BY <2>4, Zenon DEF SumsOn
  <2>6. \E kt : SumsOn(kt, f, Upto(n + 1))
    BY <2>5
  <2> HIDE DEF Upto
  <2> QED BY <2>6
<1>3. Nat \subseteq N
  <2> HIDE DEF N
  <2> QED BY <1>1, <1>2, Induct
<1>4. Cardinality(S) \in N
  BY <1>3, FS_CardinalityType
<1>5. Upto(Cardinality(S)) = SUBSET S
  BY FS_Subset, FS_CardinalityType
<1>6. \E it : SumsOn(it, f, Upto(Cardinality(S)))
  BY <1>4
<1> HIDE DEF Upto, N
<1> QED BY <1>5, <1>6 DEF Sums

\* The sum over S is the value at S of such a function.
LEMMA SizeSums == ASSUME NEW f, NEW S, IsFiniteSet(S) PROVE \E it : Sums(it, f, S) /\ Size(f, S) = it[S]
<1>1. \E it : Sums(it, f, S)
  BY SumsExist
<1> DEFINE it == CHOOSE it : it = [s \in SUBSET S |-> IF s = {} THEN 0 ELSE f[Pick(s)] + it[s \ {Pick(s)}]]
<1>2. Sums(it, f, S)
  BY <1>1 DEF Sums, SumsOn
<1>3. Size(f, S) = it[S]
  BY Zenon DEF Size, MapThenSumSet, MapThenFoldSet, Pick
<1> QED BY <1>2, <1>3

LEMMA SumOf == ASSUME NEW f, NEW S, NEW it, Sums(it, f, S)
  PROVE \A s \in SUBSET S : it[s] = IF s = {} THEN 0 ELSE f[Pick(s)] + it[s \ {Pick(s)}]
<1> SUFFICES ASSUME NEW s \in SUBSET S
             PROVE  it[s] = IF s = {} THEN 0 ELSE f[Pick(s)] + it[s \ {Pick(s)}]
  OBVIOUS
<1>1. it = [u \in SUBSET S |-> IF u = {} THEN 0 ELSE f[Pick(u)] + it[u \ {Pick(u)}]]
  BY DEF Sums, SumsOn
<1> QED BY <1>1, Zenon

\* Two of them agree where the functions they sum do, whatever sets they know.
LEMMA SumsAgree ==
  ASSUME NEW p, NEW q, NEW U, IsFiniteSet(U), NEW V \in SUBSET U, \A x \in V : p[x] = q[x],
         NEW pt, Sums(pt, p, U), NEW qt, Sums(qt, q, V)
  PROVE  pt[V] = qt[V]
<1> DEFINE N == {n \in Nat : \A s \in SUBSET V : Cardinality(s) = n => pt[s] = qt[s]}
<1>0. \A s \in SUBSET V : IsFiniteSet(s) /\ Cardinality(s) \in Nat /\ (Cardinality(s) = 0 <=> s = {})
  BY FS_Subset, FS_CardinalityType, FS_EmptySet
<1>4. \A s \in SUBSET U : pt[s] = IF s = {} THEN 0 ELSE p[Pick(s)] + pt[s \ {Pick(s)}]
  BY SumOf
<1>5. \A s \in SUBSET V : qt[s] = IF s = {} THEN 0 ELSE q[Pick(s)] + qt[s \ {Pick(s)}]
  BY SumOf
<1>1. 0 \in N
  <2>1. {} \in SUBSET U /\ {} \in SUBSET V
    OBVIOUS
  <2>2. pt[{}] = 0 /\ qt[{}] = 0
    BY <2>1, <1>4, <1>5
  <2> QED BY <1>0, <2>2
<1>2. ASSUME NEW n \in Nat, n \in N PROVE n + 1 \in N
  <2> SUFFICES ASSUME NEW s \in SUBSET V, Cardinality(s) = n + 1 PROVE pt[s] = qt[s]
    OBVIOUS
  <2>1. s # {} /\ IsFiniteSet(s)
    BY <1>0
  <2>2. Pick(s) \in s /\ Cardinality(s \ {Pick(s)}) = Cardinality(s) - 1
    BY <2>1, Taken, Zenon
  <2>3. pt[s \ {Pick(s)}] = qt[s \ {Pick(s)}]
    BY <1>2, <2>2
  <2> s \in SUBSET U
    OBVIOUS
  <2>4. pt[s] = p[Pick(s)] + pt[s \ {Pick(s)}]
    BY <2>1, <1>4
  <2>5. qt[s] = q[Pick(s)] + qt[s \ {Pick(s)}]
    BY <2>1, <1>5
  <2> QED BY <2>2, <2>3, <2>4, <2>5
<1>3. Nat \subseteq N
  <2> HIDE DEF N
  <2> QED BY <1>1, <1>2, Induct
<1> QED BY <1>0, <1>3

LEMMA SizeIs ==
  ASSUME NEW f, NEW S, IsFiniteSet(S), NEW it, Sums(it, f, S), NEW T \in SUBSET S
  PROVE  Size(f, T) = it[T]
<1>1. IsFiniteSet(T)
  BY FS_Subset
<1>2. PICK jt : Sums(jt, f, T) /\ Size(f, T) = jt[T]
  BY <1>1, SizeSums
<1>3. \A x \in T : f[x] = f[x]
  OBVIOUS
<1>4. it[T] = jt[T]
  BY <1>2, <1>3, SumsAgree
<1> QED BY <1>2, <1>4

LEMMA SizeEmpty == ASSUME NEW f PROVE Size(f, {}) = 0
<1>1. IsFiniteSet({})
  BY FS_EmptySet
<1>2. PICK it : Sums(it, f, {}) /\ Size(f, {}) = it[{}]
  BY <1>1, SizeSums
<1> QED BY <1>2, SumOf

\* The unfolding of the recursion.
LEMMA SizeTakes ==
  ASSUME NEW f, NEW S, IsFiniteSet(S), S # {}
  PROVE  Pick(S) \in S /\ Size(f, S) = f[Pick(S)] + Size(f, S \ {Pick(S)})
<1>1. PICK it : Sums(it, f, S) /\ Size(f, S) = it[S]
  BY SizeSums
<1>2. it[S] = f[Pick(S)] + it[S \ {Pick(S)}]
  BY <1>1, SumOf
<1>3. Size(f, S \ {Pick(S)}) = it[S \ {Pick(S)}]
  BY <1>1, SizeIs
<1> QED BY <1>1, <1>2, <1>3, Taken

\* The sum depends on the values only.
LEMMA SizeAgrees ==
  ASSUME NEW f, NEW g, NEW S, IsFiniteSet(S), \A x \in S : f[x] = g[x]
  PROVE  Size(f, S) = Size(g, S)
<1>1. PICK it : Sums(it, f, S) /\ Size(f, S) = it[S]
  BY SizeSums
<1>2. PICK jt : Sums(jt, g, S) /\ Size(g, S) = jt[S]
  BY SizeSums
<1>3. S \in SUBSET S
  OBVIOUS
<1>4. it[S] = jt[S]
  BY <1>1, <1>2, <1>3, SumsAgree
<1> QED BY <1>1, <1>2, <1>4

LEMMA SizeIsNat ==
  ASSUME NEW f, NEW S, IsFiniteSet(S), \A x \in S : f[x] \in Nat PROVE Size(f, S) \in Nat
<1> DEFINE N == {n \in Nat : \A s \in SUBSET S : Cardinality(s) = n => Size(f, s) \in Nat}
<1>0. \A s \in SUBSET S : IsFiniteSet(s) /\ Cardinality(s) \in Nat /\ (Cardinality(s) = 0 <=> s = {})
  BY FS_Subset, FS_CardinalityType, FS_EmptySet
<1>1. 0 \in N
  BY <1>0, SizeEmpty
<1>2. ASSUME NEW n \in Nat, n \in N PROVE n + 1 \in N
  <2> SUFFICES ASSUME NEW s \in SUBSET S, Cardinality(s) = n + 1 PROVE Size(f, s) \in Nat
    OBVIOUS
  <2>1. s # {} /\ IsFiniteSet(s)
    BY <1>0
  <2>2. Pick(s) \in s /\ Cardinality(s \ {Pick(s)}) = n
    BY <2>1, Taken
  <2>3. Size(f, s \ {Pick(s)}) \in Nat
    BY <1>2, <2>2
  <2> QED BY <2>1, <2>2, <2>3, SizeTakes
<1>3. Nat \subseteq N
  <2> HIDE DEF N
  <2> QED BY <1>1, <1>2, Induct
<1> QED BY <1>0, <1>3

LEMMA SizeZero ==
  ASSUME NEW f, NEW S, IsFiniteSet(S), \A x \in S : f[x] = 0 PROVE Size(f, S) = 0
<1> DEFINE N == {n \in Nat : \A s \in SUBSET S : Cardinality(s) = n => Size(f, s) = 0}
<1>0. \A s \in SUBSET S : IsFiniteSet(s) /\ Cardinality(s) \in Nat /\ (Cardinality(s) = 0 <=> s = {})
  BY FS_Subset, FS_CardinalityType, FS_EmptySet
<1>1. 0 \in N
  BY <1>0, SizeEmpty
<1>2. ASSUME NEW n \in Nat, n \in N PROVE n + 1 \in N
  <2> SUFFICES ASSUME NEW s \in SUBSET S, Cardinality(s) = n + 1 PROVE Size(f, s) = 0
    OBVIOUS
  <2>1. s # {} /\ IsFiniteSet(s)
    BY <1>0
  <2>2. Pick(s) \in s /\ Cardinality(s \ {Pick(s)}) = Cardinality(s) - 1
    BY <2>1, Taken, Zenon
  <2>3. s \ {Pick(s)} \in SUBSET S /\ Cardinality(s \ {Pick(s)}) = n
    BY <2>2
  <2>4. Size(f, s \ {Pick(s)}) = 0
    BY <1>2, <2>3
  <2> QED BY <2>1, <2>2, <2>4, SizeTakes
<1>3. Nat \subseteq N
  <2> HIDE DEF N
  <2> QED BY <1>1, <1>2, Induct
<1> QED BY <1>0, <1>3

\* Any element may be taken out first.
LEMMA SizeWithout ==
  ASSUME NEW f, NEW S, IsFiniteSet(S), \A x \in S : f[x] \in Nat, NEW a \in S
  PROVE  Size(f, S) = f[a] + Size(f, S \ {a})
<1> DEFINE N == {n \in Nat : \A s \in SUBSET S : Cardinality(s) = n =>
                               \A x \in s : Size(f, s) = f[x] + Size(f, s \ {x})}
<1>0. \A s \in SUBSET S : IsFiniteSet(s) /\ Cardinality(s) \in Nat /\ (Cardinality(s) = 0 <=> s = {})
  BY FS_Subset, FS_CardinalityType, FS_EmptySet
<1>1. 0 \in N
  BY <1>0
<1>2. ASSUME NEW n \in Nat, n \in N PROVE n + 1 \in N
  <2> SUFFICES ASSUME NEW s \in SUBSET S, Cardinality(s) = n + 1, NEW x \in s
               PROVE  Size(f, s) = f[x] + Size(f, s \ {x})
    OBVIOUS
  <2> DEFINE p == Pick(s)
  <2>1. s # {} /\ IsFiniteSet(s) /\ p \in s /\ Cardinality(s \ {p}) = n /\ Cardinality(s \ {x}) = n
    <3>1. IsFiniteSet(s) /\ s # {}
      BY <1>0
    <3>2. p \in s
      BY <3>1, Taken
    <3> HIDE DEF p
    <3>3. \A y \in s : Cardinality(s \ {y}) = Cardinality(s) - 1
      BY <3>1, FS_RemoveElement
    <3> QED BY <3>1, <3>2, <3>3
  <2>2. Size(f, s) = f[p] + Size(f, s \ {p})
    BY <2>1, SizeTakes
  <2>3. CASE x = p
    BY <2>2, <2>3
  <2>4. CASE x # p
    <3> HIDE DEF p
    <3>1. Size(f, s \ {p}) = f[x] + Size(f, (s \ {p}) \ {x})
      BY <1>2, <2>1, <2>4
    <3>2. Size(f, s \ {x}) = f[p] + Size(f, (s \ {x}) \ {p})
      BY <1>2, <2>1, <2>4
    <3>3. (s \ {x}) \ {p} = (s \ {p}) \ {x}
      OBVIOUS
    <3>4. Size(f, (s \ {p}) \ {x}) \in Nat
      BY <1>0, SizeIsNat
    <3> QED BY <2>1, <2>2, <3>1, <3>2, <3>3, <3>4
  <2> QED BY <2>3, <2>4
<1>3. Nat \subseteq N
  <2> HIDE DEF N
  <2> QED BY <1>1, <1>2, Induct
<1> QED BY <1>0, <1>3

\* Fewer trials with less each have less in total.
LEMMA SizeGrows ==
  ASSUME NEW f, NEW g, NEW S, IsFiniteSet(S), NEW T \in SUBSET S,
         \A x \in S : f[x] \in Nat /\ g[x] \in Nat, \A x \in T : f[x] <= g[x]
  PROVE  Size(f, T) <= Size(g, S)
<1> DEFINE N == {n \in Nat : \A s \in SUBSET S : Cardinality(s) = n => Size(f, s \cap T) <= Size(g, s)}
<1>0. \A s \in SUBSET S : IsFiniteSet(s) /\ Cardinality(s) \in Nat /\ (Cardinality(s) = 0 <=> s = {})
  BY FS_Subset, FS_CardinalityType, FS_EmptySet
<1>1. 0 \in N
  <2>1. {} \cap T = {}
    OBVIOUS
  <2> QED BY <1>0, <2>1, SizeEmpty
<1>2. ASSUME NEW n \in Nat, n \in N PROVE n + 1 \in N
  <2> SUFFICES ASSUME NEW s \in SUBSET S, Cardinality(s) = n + 1 PROVE Size(f, s \cap T) <= Size(g, s)
    OBVIOUS
  <2>1. PICK x \in s : TRUE
    BY <1>0
  <2> DEFINE rest == s \ {x}
  <2>2. rest \in SUBSET S /\ Cardinality(rest) = n /\ rest \cap T \in SUBSET S
    <3>1. IsFiniteSet(s)
      BY <1>0
    <3>2. Cardinality(s \ {x}) = Cardinality(s) - 1
      BY <2>1, <3>1, FS_RemoveElement
    <3> QED BY <3>2
  <2>3. Size(f, rest \cap T) <= Size(g, rest)
    BY <1>2, <2>2
  <2>4. Size(f, rest \cap T) \in Nat /\ Size(g, rest) \in Nat
    BY <1>0, <2>2, SizeIsNat
  <2>5. Size(g, s) = g[x] + Size(g, rest)
    BY <1>0, SizeWithout
  <2>6. f[x] \in Nat /\ g[x] \in Nat /\ (x \in T => f[x] <= g[x])
    OBVIOUS
  <2>7. CASE x \in T
    <3>1. (s \cap T) \ {x} = rest \cap T /\ x \in s \cap T
      BY <2>7
    <3>2. Size(f, s \cap T) = f[x] + Size(f, rest \cap T)
      BY <1>0, <3>1, SizeWithout
    <3> QED BY <2>3, <2>4, <2>5, <2>7, <2>6, <3>2
  <2>8. CASE x \notin T
    <3>1. s \cap T = rest \cap T
      BY <2>8
    <3>2. Size(f, s \cap T) = Size(f, rest \cap T)
      BY <3>1
    <3> HIDE DEF rest
    <3> QED BY <2>3, <2>4, <2>5, <2>6, <3>2
  <2> QED BY <2>7, <2>8
<1>3. Nat \subseteq N
  <2> HIDE DEF N
  <2> QED BY <1>1, <1>2, Induct
<1>4. S \cap T = T
  OBVIOUS
<1> QED BY <1>0, <1>3, <1>4

\* One trial's size changes.
LEMMA SizeChanges ==
  ASSUME NEW f, NEW g, NEW S, IsFiniteSet(S), NEW a \in S,
         \A x \in S : f[x] \in Nat /\ g[x] \in Nat, \A x \in S \ {a} : f[x] = g[x]
  PROVE  /\ Size(f, S) \in Nat /\ Size(g, S) \in Nat
         /\ Size(g, S) + f[a] = Size(f, S) + g[a]
<1>1. IsFiniteSet(S \ {a})
  BY FS_Subset
<1>2. Size(f, S \ {a}) = Size(g, S \ {a}) /\ Size(f, S \ {a}) \in Nat
  BY <1>1, SizeAgrees, SizeIsNat
<1>3. Size(f, S) = f[a] + Size(f, S \ {a}) /\ Size(g, S) = g[a] + Size(g, S \ {a})
  BY SizeWithout
<1> QED BY <1>2, <1>3

-----------------------------------------------------------------------------
(* The size of all samples                                                 *)

Distinct(s) == \A i, j \in DOMAIN s : s[i] = s[j] => i = j
Holds(s, x) == \E i \in DOMAIN s : s[i] = x

\* What a trial contributes to samplesSize, at least: between the two additions
\* of AddSamples the size of the sample is in the total only.
Weight ==
  [x \in Trials |-> (IF entry[x] = "present" THEN stored[x] ELSE 0)
                      + (IF phase[x] = "stored" THEN 1 ELSE 0)]

\* The eviction list holds trials that are there, each once, and nothing was
\* done yet with a trial before its parameters came.
EvListOK ==
  /\ evList \in Seq(Trials) /\ Distinct(evList)
  /\ \A i \in DOMAIN evList : entry[evList[i]] = "present"
Unborn(x) ==
  entry[x] = "absent" =>
    stream[x] = "params" /\ timer[x] = FALSE /\ phase[x] = "idle" /\ stored[x] = 0
SizesOK ==
  /\ stream \in [Trials -> {"params", "receive", "full"}] /\ timer \in [Trials -> BOOLEAN]
  /\ phase \in [Trials -> Phases]
  /\ entry \in [Trials -> {"absent", "present", "deleted"}]
  /\ stored \in [Trials -> Nat] /\ size \in Nat
Sized ==
  SizesOK /\ EvListOK /\ (\A x \in Trials : Unborn(x)) /\ Size(Weight, Trials) <= size

LEMMA CatIs ==
  ASSUME NEW S, NEW a \in Seq(S), NEW b \in Seq(S)
  PROVE  /\ a \o b \in Seq(S) /\ Len(a \o b) = Len(a) + Len(b)
         /\ \A k \in 1..(Len(a) + Len(b)) :
              (a \o b)[k] = IF k <= Len(a) THEN a[k] ELSE b[k - Len(a)]
  OBVIOUS

LEMMA WithoutIs ==
  ASSUME NEW S, NEW s \in Seq(S), Distinct(s), NEW x, Holds(s, x)
  PROVE  /\ Without(s, x) \in Seq(S) /\ Distinct(Without(s, x))
         /\ \A y : Holds(Without(s, x), y) <=> Holds(s, y) /\ y # x
  <1> DEFINE i == CHOOSE j \in DOMAIN s : s[j] = x
             w == SubSeq(s, 1, i - 1) \o SubSeq(s, i + 1, Len(s))
  <1>1. i \in 1..Len(s) /\ s[i] = x
    BY DEF Holds
  <1> HIDE DEF i
  <1>2. /\ Len(s) \in Nat /\ w \in Seq(S) /\ Len(w) = Len(s) - 1
        /\ \A k \in 1..(Len(s) - 1) : w[k] = IF k < i THEN s[k] ELSE s[k + 1]
    <2> DEFINE a == SubSeq(s, 1, i - 1)
               b == SubSeq(s, i + 1, Len(s))
    <2>1. Len(s) \in Nat /\ i \in Nat /\ 1 <= i /\ i <= Len(s)
      BY <1>1
    <2>2. a \in Seq(S) /\ Len(a) = i - 1 /\ \A k \in 1..(i - 1) : a[k] = s[k]
      BY <2>1
    <2>3. b \in Seq(S) /\ Len(b) = Len(s) - i /\ \A k \in 1..(Len(s) - i) : b[k] = s[i + k]
      BY <2>1
    <2> HIDE DEF a, b
    <2>4. /\ a \o b \in Seq(S) /\ Len(a \o b) = Len(a) + Len(b)
          /\ \A k \in 1..(Len(a) + Len(b)) :
               (a \o b)[k] = IF k <= Len(a) THEN a[k] ELSE b[k - Len(a)]
      BY <2>2, <2>3, CatIs
    <2>5. Len(a \o b) = Len(s) - 1
      BY <2>1, <2>2, <2>3, <2>4
    <2>6. ASSUME NEW k \in 1..(Len(s) - 1)
          PROVE  (a \o b)[k] = IF k < i THEN s[k] ELSE s[k + 1]
      <3>1. CASE k < i
        BY <2>1, <2>2, <2>3, <2>4, <3>1
      <3>2. CASE ~(k < i)
        <4>1. k - (i - 1) \in 1..(Len(s) - i) /\ i + (k - (i - 1)) = k + 1
          BY <2>1, <3>2
        <4>2. (a \o b)[k] = b[k - (i - 1)]
          BY <2>1, <2>2, <2>3, <2>4, <3>2
        <4>3. QED
          BY <2>3, <3>2, <4>1, <4>2
      <3>3. QED
        BY <3>1, <3>2
    <2>7. QED
      BY <2>1, <2>4, <2>5, <2>6 DEF a, b
  <1>3. DOMAIN s = 1..Len(s) /\ DOMAIN w = 1..(Len(s) - 1)
    <2>1. DOMAIN s = 1..Len(s) /\ DOMAIN w = 1..Len(w)
      BY <1>2
    <2>2. QED
      BY <1>2, <2>1
  <1>4. Without(s, x) = w
    BY DEF Without, i
  <1> HIDE DEF w
  <1>5. Distinct(w)
    <2> SUFFICES ASSUME NEW j \in 1..(Len(s) - 1), NEW k \in 1..(Len(s) - 1), w[j] = w[k]
                 PROVE  j = k
      BY <1>3 DEF Distinct
    <2> DEFINE n(l) == IF l < i THEN l ELSE l + 1
    <2>1. n(j) \in 1..Len(s) /\ n(k) \in 1..Len(s) /\ s[n(j)] = s[n(k)]
      BY <1>1, <1>2
    <2>2. n(j) = n(k)
      <3> HIDE DEF n
      <3>1. QED
        BY <1>3, <2>1 DEF Distinct
    <2>3. QED
      BY <1>1, <1>2, <2>2
  <1>6. ASSUME NEW y, Holds(w, y)
        PROVE  Holds(s, y) /\ y # x
    <2>1. PICK k \in 1..(Len(s) - 1) : w[k] = y
      BY <1>3, <1>6 DEF Holds
    <2>2. CASE k < i
      <3>1. k \in 1..Len(s) /\ k # i /\ s[k] = y
        BY <1>1, <1>2, <2>1, <2>2
      <3>2. QED
        BY <1>1, <1>3, <3>1 DEF Distinct, Holds
    <2>3. CASE ~(k < i)
      <3>1. k + 1 \in 1..Len(s) /\ k + 1 # i /\ s[k + 1] = y
        BY <1>1, <1>2, <2>1, <2>3
      <3>2. QED
        BY <1>1, <1>3, <3>1 DEF Distinct, Holds
    <2>4. QED
      BY <2>2, <2>3
  <1>7. ASSUME NEW y, Holds(s, y), y # x
        PROVE  Holds(w, y)
    <2>1. PICK k \in 1..Len(s) : s[k] = y
      BY <1>3, <1>7 DEF Holds
    <2>2. CASE k < i
      <3>1. k \in 1..(Len(s) - 1) /\ w[k] = y
        BY <1>1, <1>2, <2>1, <2>2
      <3>2. QED
        BY <1>3, <3>1 DEF Holds
    <2>3. CASE k > i
      <3>1. k - 1 \in 1..(Len(s) - 1) /\ w[k - 1] = y
        BY <1>1, <1>2, <2>1, <2>3
      <3>2. QED
        BY <1>3, <3>1 DEF Holds
    <2>4. k # i
      BY <1>1, <1>7, <2>1
    <2>5. QED
      BY <1>1, <2>1, <2>2, <2>3, <2>4
  <1>8. QED
    BY <1>2, <1>4, <1>5, <1>6, <1>7

LEMMA AppendIs ==
  ASSUME NEW S, NEW s \in Seq(S), Distinct(s), NEW x \in S, ~Holds(s, x)
  PROVE  /\ Append(s, x) \in Seq(S) /\ Distinct(Append(s, x))
         /\ <<x>> \o s \in Seq(S) /\ Distinct(<<x>> \o s)
         /\ \A y : Holds(Append(s, x), y) => Holds(s, y) \/ y = x
         /\ \A y : Holds(<<x>> \o s, y) => Holds(s, y) \/ y = x
  <1>1. /\ Len(s) \in Nat /\ DOMAIN s = 1..Len(s)
        /\ DOMAIN Append(s, x) = 1..(Len(s) + 1) /\ DOMAIN (<<x>> \o s) = 1..(Len(s) + 1)
        /\ Append(s, x) \in Seq(S) /\ <<x>> \o s \in Seq(S)
    OBVIOUS
  <1>2. \A k \in 1..(Len(s) + 1) : Append(s, x)[k] = IF k = Len(s) + 1 THEN x ELSE s[k]
    OBVIOUS
  <1>3. \A k \in 1..(Len(s) + 1) : (<<x>> \o s)[k] = IF k = 1 THEN x ELSE s[k - 1]
    OBVIOUS
  <1>4. \A k \in 1..Len(s) : s[k] # x
    BY <1>1 DEF Holds
  <1>5. Distinct(Append(s, x)) /\ \A y : Holds(Append(s, x), y) => Holds(s, y) \/ y = x
    <2> DEFINE w == Append(s, x)
    <2> HIDE DEF w
    <2>1. DOMAIN w = 1..(Len(s) + 1)
          /\ \A k \in 1..(Len(s) + 1) : w[k] = IF k = Len(s) + 1 THEN x ELSE s[k]
      BY <1>1, <1>2 DEF w
    <2>2. Distinct(w) /\ \A y : Holds(w, y) => Holds(s, y) \/ y = x
      BY <1>1, <1>4, <2>1 DEF Distinct, Holds
    <2>3. QED
      BY <2>2 DEF w
  <1>6. Distinct(<<x>> \o s) /\ \A y : Holds(<<x>> \o s, y) => Holds(s, y) \/ y = x
    <2> DEFINE w == <<x>> \o s
    <2> HIDE DEF w
    <2>1. DOMAIN w = 1..(Len(s) + 1)
          /\ \A k \in 1..(Len(s) + 1) : w[k] = IF k = 1 THEN x ELSE s[k - 1]
      BY <1>1, <1>3 DEF w
    <2>2. \A k \in 1..(Len(s) + 1) : k # 1 => k - 1 \in 1..Len(s)
      BY <1>1
    <2>3. Distinct(w)
      <3> SUFFICES ASSUME NEW j \in 1..(Len(s) + 1), NEW k \in 1..(Len(s) + 1), w[j] = w[k]
                   PROVE  j = k
        BY <2>1 DEF Distinct
      <3>1. CASE j = 1 \/ k = 1
        BY <1>4, <2>1, <2>2, <3>1
      <3>2. CASE j # 1 /\ k # 1
        <4>1. s[j - 1] = s[k - 1] /\ j - 1 \in 1..Len(s) /\ k - 1 \in 1..Len(s)
          BY <2>1, <2>2, <3>2
        <4>2. j - 1 = k - 1
          BY <1>1, <4>1 DEF Distinct
        <4>3. QED
          BY <4>2
      <3>3. QED
        BY <3>1, <3>2
    <2>4. \A y : Holds(w, y) => Holds(s, y) \/ y = x
      BY <1>1, <2>1, <2>2 DEF Holds
    <2>5. QED
      BY <2>3, <2>4 DEF w
  <1>7. QED
    BY <1>1, <1>5, <1>6

\* Using a trial only reorders the eviction list.
LEMMA MoveKeeps ==
  ASSUME EvListOK, SizesOK, NEW x \in Trials, MoveToBack(x), UNCHANGED entry
  PROVE  EvListOK'
  <1>1. CASE ~InEvList(x)
    BY <1>1 DEF MoveToBack, EvListOK
  <1>2. CASE InEvList(x)
    <2>1. Holds(evList, x) /\ evList' = Append(Without(evList, x), x)
      BY <1>2 DEF InEvList, Holds, MoveToBack
    <2>2. /\ Without(evList, x) \in Seq(Trials) /\ Distinct(Without(evList, x))
          /\ \A y : Holds(Without(evList, x), y) <=> Holds(evList, y) /\ y # x
      BY <2>1, WithoutIs DEF EvListOK
    <2>3. /\ evList' \in Seq(Trials) /\ Distinct(evList')
          /\ \A y : Holds(evList', y) => Holds(evList, y) \/ y = x
      BY <2>1, <2>2, AppendIs
    <2>4. \A y : Holds(evList, y) => entry[y] = "present"
      BY DEF EvListOK, Holds
    <2>5. \A y : Holds(evList', y) => entry'[y] = "present"
      BY <2>1, <2>3, <2>4
    <2>6. \A i \in DOMAIN evList' : entry'[evList'[i]] = "present"
      BY <2>5 DEF Holds
    <2>7. QED
      BY <2>3, <2>6 DEF EvListOK
  <1>3. QED
    BY <1>1, <1>2

LEMMA WeightIs ==
  ASSUME SizesOK
  PROVE  /\ Weight \in [Trials -> Nat]
         /\ Size(Weight, Trials) \in Nat
         /\ \A x \in Trials : Weight[x] <= Size(Weight, Trials)
  <1>1. Weight \in [Trials -> Nat]
    BY DEF SizesOK, Weight
  <1>2. IsFiniteSet(Trials)
    BY DatastoreAssumption
  <1>3. Size(Weight, Trials) \in Nat
    BY <1>1, <1>2, SizeIsNat
  <1>4. ASSUME NEW x \in Trials
        PROVE  Weight[x] <= Size(Weight, Trials)
    <2>1. Size(Weight, Trials) = Weight[x] + Size(Weight, Trials \ {x})
      BY <1>1, <1>2, SizeWithout
    <2>2. IsFiniteSet(Trials \ {x})
      BY <1>2, FS_Subset
    <2>3. Size(Weight, Trials \ {x}) \in Nat
      BY <1>1, <2>2, SizeIsNat
    <2>4. QED
      BY <1>1, <2>1, <2>3
  <1>5. QED
    BY <1>1, <1>3, <1>4

\* The total changes with the one trial that changes.
LEMMA OneWeight ==
  ASSUME Sized, SizesOK', NEW x \in Trials,
         \A y \in Trials \ {x} :
           entry'[y] = entry[y] /\ stored'[y] = stored[y] /\ phase'[y] = phase[y],
         size' - size >= Weight'[x] - Weight[x]
  PROVE  Size(Weight', Trials) <= size'
  <1>1. Weight \in [Trials -> Nat] /\ Size(Weight, Trials) \in Nat
    BY WeightIs DEF Sized
  <1>2. Weight' \in [Trials -> Nat]
    BY DEF SizesOK, Weight
  <1>3. \A y \in Trials \ {x} : Weight[y] = Weight'[y]
    BY DEF Weight
  <1>4. /\ Size(Weight', Trials) \in Nat
        /\ Size(Weight', Trials) + Weight[x] = Size(Weight, Trials) + Weight'[x]
    <2> DEFINE g == Weight'
    <2>1. g \in [Trials -> Nat] /\ \A y \in Trials \ {x} : Weight[y] = g[y]
      BY <1>2, <1>3
    <2> HIDE DEF g
    <2>2. Size(g, Trials) \in Nat /\ Size(g, Trials) + Weight[x] = Size(Weight, Trials) + g[x]
      BY <1>1, <2>1, DatastoreAssumption, SizeChanges
    <2>3. QED
      BY <2>2 DEF g
  <1>5. QED
    BY <1>1, <1>2, <1>4 DEF Sized, SizesOK

LEMMA SameWeights ==
  ASSUME Sized, SizesOK', Weight' = Weight, size' = size
  PROVE  Size(Weight', Trials) <= size'
  BY DEF Sized

LEMMA SizedInit == Init => Sized
  <1> SUFFICES ASSUME Init
               PROVE  Sized
    OBVIOUS
  <1>1. SizesOK /\ EvListOK /\ \A x \in Trials : Unborn(x)
    BY DEF Init, SizesOK, EvListOK, Unborn, Distinct, Phases
  <1>2. \A x \in Trials : Weight[x] = 0
    BY DEF Init, Weight
  <1>3. Size(Weight, Trials) = 0
    BY <1>2, DatastoreAssumption, SizeZero
  <1>4. QED
    BY <1>1, <1>3 DEF Init, Sized

LEMMA SizedKept ==
  ASSUME Sized, UNCHANGED <<stream, timer, phase, entry, stored, evList, size>>
  PROVE  Sized'
  BY DEF Sized, SizesOK, EvListOK, Unborn, Weight

LEMMA CreateSized ==
  ASSUME Sized, NEW x \in Trials, Create(x)
  PROVE  Sized'
  <1>1. /\ stream' = [stream EXCEPT ![x] = "receive"]
        /\ UNCHANGED <<timer, phase, stored, size>>
    BY DEF Create
  <1>2. CASE entry[x] = "absent"
    <2>1. entry' = [entry EXCEPT ![x] = "present"] /\ evList' = <<x>> \o evList
      BY <1>2 DEF Create
    <2>2. SizesOK'
      BY <1>1, <2>1 DEF Sized, SizesOK
    <2>3. ~Holds(evList, x) /\ \A y : Holds(evList, y) => entry[y] = "present"
      BY <1>2 DEF Sized, EvListOK, Holds
    <2>4. /\ evList' \in Seq(Trials) /\ Distinct(evList')
          /\ \A y : Holds(evList', y) => Holds(evList, y) \/ y = x
      BY <2>1, <2>3, AppendIs DEF Sized, EvListOK
    <2>5. EvListOK'
      <3>1. \A i \in DOMAIN evList' : evList'[i] \in Trials /\ Holds(evList', evList'[i])
        BY <2>4 DEF Holds
      <3>2. \A i \in DOMAIN evList' : entry'[evList'[i]] = "present"
        BY <2>1, <2>3, <2>4, <3>1 DEF Sized, SizesOK
      <3>3. QED
        BY <2>4, <3>2 DEF EvListOK
    <2>6. \A y \in Trials : Unborn(y)'
      BY <1>1, <2>1 DEF Sized, SizesOK, Unborn
    <2>7. Weight' = Weight
      BY <1>1, <1>2, <2>1 DEF Sized, SizesOK, Unborn, Weight
    <2>8. QED
      BY <1>1, <2>2, <2>5, <2>6, <2>7, SameWeights DEF Sized
  <1>3. CASE entry[x] # "absent"
    <2>1. MoveToBack(x) /\ UNCHANGED entry
      BY <1>3 DEF Create
    <2>2. SizesOK' /\ EvListOK'
      BY <1>1, <2>1, MoveKeeps DEF Sized, SizesOK
    <2>3. \A y \in Trials : Unborn(y)'
      BY <1>1, <1>3, <2>1 DEF Sized, SizesOK, Unborn
    <2>4. Weight' = Weight
      BY <1>1, <2>1 DEF Weight
    <2>5. QED
      BY <1>1, <2>2, <2>3, <2>4, SameWeights DEF Sized
  <1>4. QED
    BY <1>2, <1>3

LEMMA FlushSized ==
  ASSUME Inv, Sized, NEW x \in Trials, entry[x] # "absent", NEW by \in {"stream", "timer"},
         Flush(x, by)
  PROVE  Sized'
  <1>1. /\ timer' = [timer EXCEPT ![x] = FALSE] /\ UNCHANGED <<entry, stored, size>>
        /\ flusher[x] = "nobody" /\ stream' \in {stream, [stream EXCEPT ![x] = "receive"]}
        /\ phase' = phase \/ phase' = [phase EXCEPT ![x] = "size"]
        /\ UNCHANGED evList \/ MoveToBack(x)
    BY DEF Flush, Sized, SizesOK
  <1>2. SizesOK'
    BY <1>1 DEF Sized, SizesOK, Phases
  <1>3. EvListOK'
    BY <1>1, MoveKeeps DEF Sized, EvListOK
  <1>4. \A y \in Trials : Unborn(y)'
    BY <1>1 DEF Sized, SizesOK, Unborn
  <1>5. phase[x] = "idle"
    BY <1>1, Typed DEF Batched
  <1>6. Weight' = Weight
    BY <1>1, <1>5 DEF Sized, SizesOK, Weight
  <1>7. QED
    BY <1>1, <1>2, <1>3, <1>4, <1>6, SameWeights DEF Sized

\* AddSamples: the size of the sample is in the total first, then in its trial.
LEMMA StoreSized ==
  ASSUME Inv, Sized, NEW x \in Trials,
         AddSize(x) \/ AddStored(x) \/ AppendItem(x) \/ Trigger(x) \/ AddSample(x)
  PROVE  Sized'
  <1>1. UNCHANGED <<entry, evList>>
    BY DEF AddSize, AddStored, AppendItem, Trigger, AddSample, storeVars
  <1>2. CASE AddSize(x)
    <2>1. /\ phase[x] = "size" /\ phase' = [phase EXCEPT ![x] = "stored"] /\ size' = size + 1
          /\ UNCHANGED <<stream, timer, stored>>
      BY <1>2 DEF AddSize, Goto
    <2>2. SizesOK'
      BY <1>1, <2>1 DEF Sized, SizesOK, Phases
    <2>3. EvListOK' /\ \A y \in Trials : Unborn(y)'
      BY <1>1, <2>1 DEF Sized, SizesOK, EvListOK, Unborn
    <2>4. Weight'[x] - Weight[x] = 1
      BY <1>1, <2>1 DEF Sized, SizesOK, Weight
    <2>5. \A y \in Trials \ {x} :
            entry'[y] = entry[y] /\ stored'[y] = stored[y] /\ phase'[y] = phase[y]
      BY <1>1, <2>1 DEF Sized, SizesOK
    <2>6. size' - size >= Weight'[x] - Weight[x]
      BY <2>1, <2>4 DEF Sized, SizesOK
    <2>7. QED
      BY <2>2, <2>3, <2>5, <2>6, OneWeight DEF Sized
  <1>3. CASE AddStored(x)
    <2>1. /\ phase[x] = "stored" /\ phase' = [phase EXCEPT ![x] = "append"]
          /\ stored' = [stored EXCEPT ![x] = @ + 1] /\ UNCHANGED <<stream, timer, size>>
      BY <1>3 DEF AddStored, Goto
    <2>2. SizesOK'
      BY <1>1, <2>1 DEF Sized, SizesOK, Phases
    <2>3. EvListOK' /\ \A y \in Trials : Unborn(y)'
      BY <1>1, <2>1 DEF Sized, SizesOK, EvListOK, Unborn
    <2>4. Weight'[x] <= Weight[x] /\ Weight'[x] \in Nat /\ Weight[x] \in Nat
      BY <1>1, <2>1 DEF Sized, SizesOK, Weight
    <2>5. \A y \in Trials \ {x} :
            entry'[y] = entry[y] /\ stored'[y] = stored[y] /\ phase'[y] = phase[y]
      BY <1>1, <2>1 DEF Sized, SizesOK
    <2>6. size' - size >= Weight'[x] - Weight[x]
      BY <2>1, <2>4 DEF Sized, SizesOK
    <2>7. QED
      BY <2>2, <2>3, <2>5, <2>6, OneWeight DEF Sized
  <1>4. CASE AppendItem(x) \/ Trigger(x) \/ AddSample(x)
    <2>1. /\ UNCHANGED <<stored, size>>
          /\ stream' = stream \/ stream' = [stream EXCEPT ![x] = "receive"]
               \/ stream' = [stream EXCEPT ![x] = "full"]
          /\ timer' = timer \/ (timer' = [timer EXCEPT ![x] = @ \/ batch[x] = <<>>]
                                /\ stream[x] = "receive")
          /\ \/ phase[x] = "append" /\ phase' \in {[phase EXCEPT ![x] = "size"],
                                                   [phase EXCEPT ![x] = "trigger"]}
             \/ phase[x] = "trigger" /\ phase' = [phase EXCEPT ![x] = "idle"]
             \/ stream[x] = "receive" /\ phase' = phase
      BY <1>4 DEF AppendItem, Trigger, AddSample, Goto, storeVars, Sized, SizesOK
    <2>2. SizesOK'
      BY <1>1, <2>1 DEF Sized, SizesOK, Phases
    <2>3. EvListOK' /\ \A y \in Trials : Unborn(y)'
      BY <1>1, <2>1 DEF Sized, SizesOK, EvListOK, Unborn
    <2>4. Weight' = Weight
      BY <1>1, <2>1 DEF Sized, SizesOK, Weight
    <2>5. QED
      BY <2>1, <2>2, <2>3, <2>4, SameWeights DEF Sized
  <1>5. QED
    BY <1>2, <1>3, <1>4

\* evictLruTrials and DeleteTrials subtract what the trial contributes at most.
LEMMA DropSized ==
  ASSUME Sized, NEW x \in Trials, entry[x] = "present", size' = size - stored[x],
         UNCHANGED <<stream, timer, phase>>, EvListOK',
         \/ entry' = entry /\ stored' = [stored EXCEPT ![x] = 0]
         \/ entry' = [entry EXCEPT ![x] = "deleted"] /\ stored' = stored
  PROVE  Sized'
  <1>1. stored[x] <= Weight[x] /\ Weight[x] <= size /\ stored[x] \in Nat /\ size \in Nat
    <2>1. Weight[x] <= Size(Weight, Trials) /\ Weight[x] \in Nat /\ Size(Weight, Trials) \in Nat
      BY WeightIs DEF Sized
    <2>2. stored[x] <= Weight[x]
      BY DEF Sized, SizesOK, Weight
    <2>3. QED
      BY <2>1, <2>2 DEF Sized, SizesOK
  <1>2. SizesOK'
    <2>1. Weight[x] \in Nat
      BY WeightIs DEF Sized
    <2>2. size - stored[x] \in Nat
      BY <1>1, <2>1
    <2>3. QED
      BY <2>2 DEF Sized, SizesOK
  <1>3. \A y \in Trials : Unborn(y)'
    BY DEF Sized, SizesOK, Unborn
  <1>4. \A y \in Trials \ {x} :
          entry'[y] = entry[y] /\ stored'[y] = stored[y] /\ phase'[y] = phase[y]
    BY DEF Sized, SizesOK
  <1>5. Weight'[x] - Weight[x] = 0 - stored[x]
    BY <1>1 DEF Sized, SizesOK, Weight
  <1>6. size' - size >= Weight'[x] - Weight[x]
    BY <1>1, <1>5
  <1>7. QED
    BY <1>2, <1>3, <1>4, <1>6, OneWeight DEF Sized

LEMMA EvictSized == ASSUME Sized, Evict PROVE Sized'
  <1>1. UNCHANGED <<stream, timer, phase, entry>>
    BY DEF Evict, logVars
  <1>2. CASE UNCHANGED <<evList, size, stored>>
    BY <1>1, <1>2, SizedKept
  <1>3. CASE /\ evList # <<>> /\ size' = size - stored[Head(evList)]
             /\ stored' = [stored EXCEPT ![Head(evList)] = 0]
             /\ evList' = Without(evList, Head(evList))
    <2> DEFINE x == Head(evList)
    <2>1. x \in Trials /\ 1 \in DOMAIN evList /\ evList[1] = x
      BY <1>3 DEF Sized, EvListOK
    <2>2. entry[x] = "present" /\ Holds(evList, x)
      BY <2>1 DEF Sized, EvListOK, Holds
    <2> HIDE DEF x
    <2>3. /\ evList' \in Seq(Trials) /\ Distinct(evList')
          /\ \A y : Holds(evList', y) <=> Holds(evList, y) /\ y # x
      BY <1>3, <2>2, WithoutIs DEF Sized, EvListOK, x
    <2>4. \A y : Holds(evList, y) => entry[y] = "present"
      BY DEF Sized, EvListOK, Holds
    <2>5. EvListOK'
      BY <1>1, <2>3, <2>4 DEF EvListOK, Holds
    <2>6. QED
      BY <1>1, <1>3, <2>1, <2>2, <2>5, DropSized DEF x
  <1>4. QED
    BY <1>2, <1>3 DEF Evict

LEMMA DeleteSized == ASSUME Sized, NEW x \in Trials, Delete(x) PROVE Sized'
  <1>1. /\ entry[x] = "present" /\ entry' = [entry EXCEPT ![x] = "deleted"]
        /\ size' = size - stored[x] /\ UNCHANGED <<stream, timer, phase, stored>>
        /\ evList' = IF InEvList(x) THEN Without(evList, x) ELSE evList
    BY DEF Delete, logVars
  <1>2. \A y : Holds(evList, y) => entry[y] = "present"
    BY DEF Sized, EvListOK, Holds
  <1>3. /\ evList' \in Seq(Trials) /\ Distinct(evList')
        /\ \A y : Holds(evList', y) => Holds(evList, y) /\ y # x
    <2>1. CASE InEvList(x)
      <3>1. Holds(evList, x) /\ evList' = Without(evList, x)
        BY <1>1, <2>1 DEF InEvList, Holds
      <3>2. QED
        BY <3>1, WithoutIs DEF Sized, EvListOK
    <2>2. CASE ~InEvList(x)
      BY <1>1, <2>2 DEF InEvList, Holds, Sized, EvListOK
    <2>3. QED
      BY <2>1, <2>2
  <1>4. \A y : Holds(evList', y) => entry'[y] = "present"
    BY <1>1, <1>2, <1>3 DEF Sized, SizesOK
  <1>5. EvListOK'
    BY <1>3, <1>4 DEF EvListOK, Holds
  <1>6. QED
    BY <1>1, <1>5, DropSized

LEMMA FindSized == ASSUME Sized, NEW r \in Readers, Find(r) PROVE Sized'
  <1>1. UNCHANGED <<stream, timer, phase, entry, stored, size>>
    BY DEF Find, logVars
  <1>2. UNCHANGED evList \/ \E x \in Trials : MoveToBack(x)
    BY DEF Find
  <1>3. EvListOK'
    BY <1>1, <1>2, MoveKeeps DEF Sized, EvListOK
  <1>4. SizesOK' /\ Weight' = Weight /\ \A y \in Trials : Unborn(y)'
    BY <1>1 DEF Sized, SizesOK, Weight, Unborn
  <1>5. QED
    BY <1>1, <1>3, <1>4, SameWeights DEF Sized

LEMMA SizedStep == Inv /\ Sized /\ [Next]_vars => Sized'
  <1> SUFFICES ASSUME Inv, Sized, [Next]_vars
               PROVE  Sized'
    OBVIOUS
  <1>1. ASSUME NEW x \in Trials, FlushFull(x) \/ FlushTimer(x)
        PROVE  Sized'
    <2>1. entry[x] # "absent"
      BY <1>1 DEF FlushFull, FlushTimer, Sized, Unborn
    <2>2. QED
      BY <1>1, <2>1, FlushSized DEF FlushFull, FlushTimer
  <1>2. ASSUME NEW x \in Trials, Create(x) \/ AddSample(x) \/ Flushing(x)
        PROVE  Sized'
    BY <1>1, <1>2, CreateSized, StoreSized DEF Flushing
  <1>3. ASSUME NEW x \in Deletable, Delete(x)
        PROVE  Sized'
    BY <1>3, DeleteSized, DatastoreAssumption
  <1>4. ASSUME Evicting
        PROVE  Sized'
    <2>1. CASE EvictCheck
      BY <2>1, SizedKept DEF EvictCheck, logVars
    <2>2. QED
      BY <1>4, <2>1, EvictSized DEF Evicting
  <1>5. ASSUME NEW r \in Readers, Find(r)
        PROVE  Sized'
    BY <1>5, FindSized
  <1>6. ASSUME NEW r \in Readers, Observing(r) \/ Pass(r) \/ Send(r) \/ Return(r) \/ Leave(r)
        PROVE  Sized'
    <2>1. UNCHANGED <<logVars, storeVars>>
      BY <1>6 DEF Observing, Attach, Subscribe, Read, Give, Wake, Observed, Pass, Send, Return, Leave
    <2>2. QED
      BY <2>1, SizedKept DEF logVars, storeVars
  <1>7. CASE UNCHANGED vars
    BY <1>7, SizedKept DEF vars, logVars, storeVars
  <1>8. QED
    BY <1>2, <1>3, <1>4, <1>5, <1>6, <1>7 DEF Next

LEMMA SizedCovers == Sized => SizeCoversStored
  <1> SUFFICES ASSUME Sized
               PROVE  SizeCoversStored
    OBVIOUS
  <1> DEFINE there == {x \in Trials : entry[x] = "present"}
  <1>1. Weight \in [Trials -> Nat] /\ Size(Weight, Trials) \in Nat
    BY WeightIs DEF Sized
  <1>2. \A x \in Trials : stored[x] \in Nat /\ Weight[x] \in Nat
    BY <1>1 DEF Sized, SizesOK
  <1>3. \A x \in there : stored[x] <= Weight[x]
    BY DEF Sized, SizesOK, Weight
  <1>4. Size(stored, there) <= Size(Weight, Trials)
    BY <1>2, <1>3, DatastoreAssumption, SizeGrows
  <1>5. Size(stored, there) \in Nat
    <2>1. IsFiniteSet(there)
      BY DatastoreAssumption, FS_Subset
    <2>2. QED
      BY <1>2, <2>1, SizeIsNat
  <1>6. size \in Nat /\ Size(stored, there) <= size
    BY <1>1, <1>4, <1>5 DEF Sized, SizesOK
  <1>7. size >= Size(stored, there)
    BY <1>5, <1>6
  <1>8. QED
    BY <1>7 DEF SizeCoversStored, Size

\* However AddSamples, the eviction worker and DeleteTrials interleave, what they
\* subtract from samplesSize was added to it before: it never wraps below zero.
THEOREM SizeAlwaysCovers == Spec => []SizeCoversStored
  <1>1. Init => Inv /\ Sized
    BY InvInit, SizedInit
  <1>2. Inv /\ Sized /\ [Next]_vars => (Inv /\ Sized)'
    BY InvStep, SizedStep
  <1>3. QED
    BY <1>1, <1>2, SizedCovers, PTL DEF Spec
=============================================================================
