----------------------------- MODULE OutboxProofs -----------------------------
(***************************************************************************)
(* Outbox, for any rows, workers, replicas and bounds: its types, that a    *)
(* lease covers the call it was taken for, that only faults double an       *)
(* event, that one replica settles honestly, and that it implements         *)
(* AtLeastOnce.  All of it rests on one inductive invariant, OutboxInv.     *)
(***************************************************************************)
EXTENDS Outbox, TLAPS

\* What a claim knows of its row until the row is marked, and what its lease still covers.
ClaimHolds ==
    \A w \in OutboxWorkers : Busy(w) =>
        /\ held[w] \in Rows
        /\ Open(held[w])
        /\ tries[w] = attempts[held[w]]
        /\ due[held[w]] >= left[w] + (Lease - CallBound)

\* A worker that has the receiver's answer is the only one by whom an event may be ahead of
\* its faults.
SentIsCounted ==
    \A m \in Rows :
        \/ sent[m] <= spoiled[m]
        \/ /\ sent[m] <= 1 + spoiled[m]
           /\ \/ row[m] = "delivered"
              \/ \E w \in OutboxWorkers : at[w] = "markDelivered" /\ held[w] = m

\* Nobody takes the channel for off while a row that never saw it off is open.
NeverMeansOn ==
    \A m \in Rows : Open(m) /\ wasOff[m] = "never" =>
        channel = "enabled" /\ \A p \in Replicas : Seen(p) = "enabled"

DeliveredForAReason ==
    \A w \in OutboxWorkers : at[w] = "markDelivered" =>
        sent[held[w]] > 0 \/ wasOff[held[w]] # "never"

NewIsUntouched == \A m \in Rows : row[m] = "new" => attempts[m] = 0 /\ sent[m] = 0

OutboxInv ==
    /\ OutboxTypeOK
    /\ ClaimHolds
    /\ OneWorkerPerRow
    /\ SentIsCounted
    /\ NeverMeansOn
    /\ DeliveredForAReason
    /\ NewIsUntouched

\* A wait after a failed attempt is a tick at least and stays in the type of due.
LEMMA WaitsAreShort == \A n : Waits(n) \subseteq 1 .. 2 * BackoffMax
  BY DEF Waits

LEMMA InitHolds == OutboxInit => OutboxInv
  BY OutboxAssumption
  DEF OutboxInit, OutboxInv, OutboxTypeOK, ClaimHolds, OneWorkerPerRow, SentIsCounted,
      NeverMeansOn, DeliveredForAReason, NewIsUntouched, Seen, Busy, Open, Due, Channel, Steps

LEMMA EnqueueKeeps ==
  ASSUME OutboxInv, NEW m \in Rows, NEW p \in Replicas, Enqueue(m, p)
  PROVE  OutboxInv'
  <1> USE OutboxAssumption DEF OutboxInv, OutboxTypeOK, Enqueue, call
  <1>1. OutboxTypeOK'
    BY DEF Ask, Seen, Channel
  <1>2. ClaimHolds' /\ OneWorkerPerRow'
    BY DEF ClaimHolds, OneWorkerPerRow, Busy, Open
  <1>3. SentIsCounted' /\ NewIsUntouched'
    BY DEF SentIsCounted, NewIsUntouched
  <1>4. DeliveredForAReason'
    BY DEF DeliveredForAReason, ClaimHolds, Busy, Open
  <1>5. NeverMeansOn'
    BY DEF NeverMeansOn, Open, Ask, Seen, Channel
  <1> QED BY <1>1, <1>2, <1>3, <1>4, <1>5

LEMMA EditKeeps ==
  ASSUME OutboxInv, NEW p \in Replicas, EditChannel(p)
  PROVE  OutboxInv'
  <1> USE OutboxAssumption DEF OutboxInv, OutboxTypeOK, EditChannel, call
  <1>1. OutboxTypeOK'
    BY DEF Channel
  <1>2. ClaimHolds' /\ OneWorkerPerRow'
    BY DEF ClaimHolds, OneWorkerPerRow, Busy, Open
  <1>3. SentIsCounted' /\ NewIsUntouched'
    BY DEF SentIsCounted, NewIsUntouched
  <1>4. DeliveredForAReason'
    BY DEF DeliveredForAReason, ClaimHolds, Busy
  <1>5. NeverMeansOn'
    BY DEF NeverMeansOn, Open, Seen, Channel
  <1> QED BY <1>1, <1>2, <1>3, <1>4, <1>5

\* The other workers' claims are on other rows, so what one step does to its row they do not
\* see.
LEMMA ClaimKeeps ==
  ASSUME OutboxInv, NEW w \in OutboxWorkers, NEW m \in Rows, ClaimOutboxRow(w, m)
  PROVE  OutboxInv'
  <1> USE OutboxAssumption DEF OutboxInv, OutboxTypeOK, ClaimOutboxRow, Claimable, Hold, Steps
  <1>1. OutboxTypeOK'
    BY DEF Due
  <1>2. ClaimHolds'
    BY DEF ClaimHolds, Busy, Open, Due
  <1>3. OneWorkerPerRow'
    BY DEF ClaimHolds, OneWorkerPerRow, Busy, Due
  <1>4. SentIsCounted' /\ NewIsUntouched'
    BY DEF SentIsCounted, NewIsUntouched, Busy
  <1>5. DeliveredForAReason' /\ NeverMeansOn'
    BY DEF DeliveredForAReason, NeverMeansOn, Open, Seen
  <1> QED BY <1>1, <1>2, <1>3, <1>4, <1>5

LEMMA DecodeKeeps ==
  ASSUME OutboxInv, NEW w \in OutboxWorkers, Decode(w)
  PROVE  OutboxInv'
  <1> USE OutboxAssumption DEF OutboxInv, OutboxTypeOK, Decode, WorkerGoes, Steps
  <1>1. OutboxTypeOK'
    OBVIOUS
  <1>2. ClaimHolds' /\ OneWorkerPerRow'
    BY DEF ClaimHolds, OneWorkerPerRow, Busy, Open
  <1>3. SentIsCounted' /\ NewIsUntouched'
    BY DEF SentIsCounted, NewIsUntouched
  <1>4. DeliveredForAReason' /\ NeverMeansOn'
    BY DEF DeliveredForAReason, NeverMeansOn, Open, Seen
  <1> QED BY <1>1, <1>2, <1>3, <1>4

\* The lookup answers "off" only for a row that saw the channel off: NeverMeansOn.
LEMMA LookupKeeps ==
  ASSUME OutboxInv, NEW w \in OutboxWorkers, LookupChannel(w)
  PROVE  OutboxInv'
  <1> USE OutboxAssumption DEF OutboxInv, OutboxTypeOK, LookupChannel, WorkerGoes, Steps
  <1> DEFINE p == Home[w]
  <1>0. p \in Replicas /\ Ask(p)
    OBVIOUS
  <1>1. OutboxTypeOK'
    BY <1>0 DEF Ask, Seen, Channel
  <1>2. ClaimHolds' /\ OneWorkerPerRow'
    BY DEF ClaimHolds, OneWorkerPerRow, Busy, Open
  <1>3. SentIsCounted' /\ NewIsUntouched'
    BY DEF SentIsCounted, NewIsUntouched
  <1>4. DeliveredForAReason'
    BY <1>0 DEF DeliveredForAReason, NeverMeansOn, ClaimHolds, Busy
  <1>5. NeverMeansOn'
    BY <1>0 DEF NeverMeansOn, Open, Seen, Ask
  <1> QED BY <1>1, <1>2, <1>3, <1>4, <1>5

LEMMA SendKeeps ==
  ASSUME OutboxInv, NEW w \in OutboxWorkers, Send(w)
  PROVE  OutboxInv'
  <1> USE OutboxAssumption DEF OutboxInv, OutboxTypeOK, Send, WorkerGoes, Steps
  <1>0. held[w] \in Rows /\ Open(held[w])
    BY DEF ClaimHolds, Busy
  <1>1. OutboxTypeOK'
    OBVIOUS
  <1>2. ClaimHolds' /\ OneWorkerPerRow'
    BY DEF ClaimHolds, OneWorkerPerRow, Busy, Open
  <1>3. SentIsCounted'
    BY <1>0 DEF SentIsCounted, OneWorkerPerRow, Open, Busy
  <1>4. NewIsUntouched' /\ \A m \in Rows : sent'[m] >= sent[m]
    BY <1>0 DEF NewIsUntouched, Open
  <1>6. DeliveredForAReason'
    BY <1>0, <1>4 DEF DeliveredForAReason, ClaimHolds, Busy
  <1>5. NeverMeansOn'
    BY DEF NeverMeansOn, Open, Seen
  <1> QED BY <1>1, <1>2, <1>3, <1>4, <1>5, <1>6

LEMMA SendUnansweredKeeps ==
  ASSUME OutboxInv, NEW w \in OutboxWorkers, SendUnanswered(w)
  PROVE  OutboxInv'
  <1> USE OutboxAssumption
      DEF OutboxInv, OutboxTypeOK, SendUnanswered, WorkerGoes, Steps, OutboxFault
  <1>0. held[w] \in Rows /\ Open(held[w])
    BY DEF ClaimHolds, Busy
  <1>1. OutboxTypeOK'
    BY <1>0
  <1>2. ClaimHolds' /\ OneWorkerPerRow'
    BY DEF ClaimHolds, OneWorkerPerRow, Busy, Open
  <1>3. SentIsCounted'
    BY <1>0 DEF SentIsCounted, OneWorkerPerRow, Open, Busy
  <1>4. DeliveredForAReason' /\ NewIsUntouched'
    BY <1>0 DEF DeliveredForAReason, NewIsUntouched, Open
  <1>5. NeverMeansOn'
    BY DEF NeverMeansOn, Open, Seen
  <1> QED BY <1>1, <1>2, <1>3, <1>4, <1>5

LEMMA MarkDeliveredKeeps ==
  ASSUME OutboxInv, NEW w \in OutboxWorkers, MarkOutboxDelivered(w)
  PROVE  OutboxInv'
  <1> USE OutboxAssumption DEF OutboxInv, OutboxTypeOK, MarkOutboxDelivered, Release, Steps
  <1>0. held[w] \in Rows /\ Open(held[w])
    BY DEF ClaimHolds, Busy
  <1>1. OutboxTypeOK'
    BY <1>0
  <1>2. ClaimHolds' /\ OneWorkerPerRow'
    BY DEF ClaimHolds, OneWorkerPerRow, Busy, Open
  <1>3. SentIsCounted'
    BY <1>0 DEF SentIsCounted, OneWorkerPerRow, Busy
  <1>4. DeliveredForAReason' /\ NewIsUntouched'
    BY <1>0 DEF DeliveredForAReason, NewIsUntouched
  <1>5. NeverMeansOn'
    BY DEF NeverMeansOn, Open, Seen
  <1> QED BY <1>1, <1>2, <1>3, <1>4, <1>5

LEMMA MarkAttemptKeeps ==
  ASSUME OutboxInv, NEW w \in OutboxWorkers, MarkOutboxAttempt(w)
  PROVE  OutboxInv'
  <1> USE OutboxAssumption DEF OutboxInv, OutboxTypeOK, MarkOutboxAttempt, Release, Steps
  <1>0. held[w] \in Rows /\ Open(held[w])
    BY DEF ClaimHolds, Busy
  <1>1. PICK t \in 1 .. 2 * BackoffMax : due' = [due EXCEPT ![held[w]] = t]
    <2>1. CASE held[w] \in Corrupt
      <3>1. due' = [due EXCEPT ![held[w]] = BackoffMax]
        BY <2>1
      <3>2. BackoffMax \in 1 .. 2 * BackoffMax
        BY OutboxAssumption
      <3> QED BY <3>1, <3>2, Zenon
    <2>2. CASE held[w] \notin Corrupt
      <3>1. PICK t \in Waits(tries[w] + 1) : due' = [due EXCEPT ![held[w]] = t]
        BY <2>2
      <3> QED BY <3>1, WaitsAreShort
    <2> QED BY <2>1, <2>2
  <1>2. OutboxTypeOK'
    BY <1>0, <1>1 DEF Due, Open
  <1>3. ClaimHolds' /\ OneWorkerPerRow'
    BY <1>0, <1>1 DEF ClaimHolds, OneWorkerPerRow, Busy, Open
  <1>4. SentIsCounted'
    BY <1>0 DEF SentIsCounted, OneWorkerPerRow, Busy
  <1>5. DeliveredForAReason' /\ NewIsUntouched'
    BY <1>0 DEF DeliveredForAReason, NewIsUntouched, Open
  <1>6. NeverMeansOn'
    BY <1>0 DEF NeverMeansOn, Open, Seen
  <1> QED BY <1>2, <1>3, <1>4, <1>5, <1>6

LEMMA GiveUpKeeps ==
  ASSUME OutboxInv, NEW w \in OutboxWorkers, LookupFails(w) \/ Forget(w)
  PROVE  OutboxInv'
  <1> USE OutboxAssumption
      DEF OutboxInv, OutboxTypeOK, LookupFails, Forget, Busy, Release, Steps, OutboxFault
  <1>0. held[w] \in Rows
    BY DEF ClaimHolds
  <1>1. OutboxTypeOK'
    BY <1>0
  <1>2. ClaimHolds' /\ OneWorkerPerRow'
    BY DEF ClaimHolds, OneWorkerPerRow, Open
  <1>3. SentIsCounted'
    BY <1>0 DEF SentIsCounted, OneWorkerPerRow
  <1>4. DeliveredForAReason' /\ NewIsUntouched'
    BY DEF DeliveredForAReason, NewIsUntouched
  <1>5. NeverMeansOn'
    BY DEF NeverMeansOn, Open, Seen
  <1> QED BY <1>1, <1>2, <1>3, <1>4, <1>5

\* Time takes as much off the lease as off the call.
LEMMA TickKeeps ==
  ASSUME OutboxInv, OutboxTick
  PROVE  OutboxInv'
  <1> USE OutboxAssumption DEF OutboxInv, OutboxTypeOK, OutboxTick, Less
  <1>1. OutboxTypeOK'
    BY DEF Due
  <1>2. ClaimHolds' /\ OneWorkerPerRow'
    BY DEF ClaimHolds, OneWorkerPerRow, Busy, Open, Due
  <1>3. SentIsCounted' /\ DeliveredForAReason' /\ NewIsUntouched'
    BY DEF SentIsCounted, DeliveredForAReason, NewIsUntouched
  <1>4. NeverMeansOn'
    BY DEF NeverMeansOn, Open, Seen
  <1> QED BY <1>1, <1>2, <1>3, <1>4

LEMMA StepKeeps == OutboxInv /\ [OutboxNext]_OutboxVars => OutboxInv'
  <1> SUFFICES ASSUME OutboxInv, [OutboxNext]_OutboxVars PROVE OutboxInv'
    OBVIOUS
  <1>1. CASE UNCHANGED OutboxVars
    BY <1>1 DEF OutboxVars, call, OutboxInv, OutboxTypeOK, ClaimHolds, OneWorkerPerRow,
                SentIsCounted, NeverMeansOn, DeliveredForAReason, NewIsUntouched, Busy, Open, Seen
  <1>2. CASE OutboxNext
    BY <1>2, EnqueueKeeps, EditKeeps, ClaimKeeps, DecodeKeeps, LookupKeeps, SendKeeps,
       SendUnansweredKeeps, MarkDeliveredKeeps, MarkAttemptKeeps, GiveUpKeeps, TickKeeps
    DEF OutboxNext, Drain
  <1> QED BY <1>1, <1>2

\* Every variable of the outbox stays in its type, above all the waits that time takes down
\* and the attempts that retries count up.
THEOREM OutboxTypeCorrect == OutboxSpec => []OutboxTypeOK
  <1>1. OutboxInv => OutboxTypeOK
    BY DEF OutboxInv
  <1> QED BY InitHolds, StepKeeps, <1>1, PTL DEF OutboxSpec

\* However many workers and leaders there are, a row that a call works on is nobody else's:
\* the lease covers the call (ClaimOutboxRow).
THEOREM LeaseExcludes == OutboxSpec => []OneWorkerPerRow
  <1>1. OutboxInv => OneWorkerPerRow
    BY DEF OutboxInv
  <1> QED BY InitHolds, StepKeeps, <1>1, PTL DEF OutboxSpec

\* An event is only doubled by a crash, a lost mark or a lost answer (drainOne).
THEOREM DuplicatesNeedAFaultHolds == OutboxSpec => []DuplicatesNeedAFault
  <1>1. OutboxInv => DuplicatesNeedAFault
    <2> SUFFICES ASSUME OutboxInv, NEW m \in Rows PROVE sent[m] <= 1 + spoiled[m]
      BY DEF DuplicatesNeedAFault
    <2>1. sent[m] \in Nat /\ spoiled[m] \in Nat
      BY DEF OutboxInv, OutboxTypeOK
    <2> QED BY <2>1 DEF OutboxInv, SentIsCounted
  <1> QED BY InitHolds, StepKeeps, <1>1, PTL DEF OutboxSpec

-----------------------------------------------------------------------------
(* One replica *)

\* A mark that is on record had its reason, and keeps it.
SettledForAReason ==
    \A m \in Rows : row[m] = "delivered" => sent[m] > 0 \/ wasOff[m] # "never"

LEMMA InsertedUnmarked ==
  ASSUME OutboxInv, SettledForAReason, NEW n \in Rows, NEW p \in Replicas, Enqueue(n, p)
  PROVE  SettledForAReason'
  BY DEF OutboxInv, OutboxTypeOK, Enqueue, SettledForAReason

LEMMA EditLeavesTheMarked ==
  ASSUME OutboxInv, SettledForAReason, NEW p \in Replicas, EditChannel(p)
  PROVE  SettledForAReason'
  BY DEF OutboxInv, OutboxTypeOK, EditChannel, SettledForAReason, Open

LEMMA MarkHasItsReason ==
  ASSUME OutboxInv, SettledForAReason, NEW w \in OutboxWorkers, MarkOutboxDelivered(w)
  PROVE  SettledForAReason'
  BY DEF OutboxInv, OutboxTypeOK, MarkOutboxDelivered, SettledForAReason, DeliveredForAReason

LEMMA SendAddsAReason ==
  ASSUME OutboxInv, SettledForAReason, NEW w \in OutboxWorkers, Send(w) \/ SendUnanswered(w)
  PROVE  SettledForAReason'
  <1> USE DEF OutboxInv, OutboxTypeOK
  <1>1. \A m \in Rows : sent'[m] >= sent[m]
    BY DEF Send, SendUnanswered
  <1>2. row' = row /\ wasOff' = wasOff /\ \A m \in Rows : sent[m] \in Nat /\ sent'[m] \in Nat
    BY StepKeeps DEF Send, SendUnanswered, OutboxNext, Drain
  <1> QED BY <1>1, <1>2 DEF SettledForAReason

LEMMA SettledForAReasonStep ==
  ASSUME OutboxInv, SettledForAReason, [OutboxNext]_OutboxVars
  PROVE  SettledForAReason'
  <1>1. ASSUME NEW w \in OutboxWorkers,
               \/ \E m \in Rows : ClaimOutboxRow(w, m)
               \/ Decode(w) \/ LookupChannel(w) \/ LookupFails(w) \/ Forget(w)
               \/ MarkOutboxAttempt(w)
        PROVE  UNCHANGED <<row, sent, wasOff>>
    BY <1>1 DEF ClaimOutboxRow, Decode, LookupChannel, LookupFails, Forget, MarkOutboxAttempt
  <1>2. ASSUME OutboxTick \/ UNCHANGED OutboxVars
        PROVE  UNCHANGED <<row, sent, wasOff>>
    BY <1>2 DEF OutboxTick, OutboxVars
  <1>3. ASSUME UNCHANGED <<row, sent, wasOff>> PROVE SettledForAReason'
    BY <1>3 DEF SettledForAReason
  <1> QED
    BY <1>1, <1>2, <1>3, InsertedUnmarked, EditLeavesTheMarked, MarkHasItsReason, SendAddsAReason
    DEF OutboxNext, Drain

\* Whoever accepts an event on the only replica sees the channel on wherever it is seen.
LEMMA NeverStaleStep ==
  ASSUME \A p, q \in Replicas : p = q,
         OutboxInv, \A m \in Rows : wasOff[m] # "stale", [OutboxNext]_OutboxVars
  PROVE  \A m \in Rows : wasOff'[m] # "stale"
  <1> USE DEF OutboxInv, OutboxTypeOK
  <1>1. ASSUME NEW n \in Rows, NEW p \in Replicas, Enqueue(n, p)
        PROVE  \A m \in Rows : wasOff'[m] # "stale"
    BY <1>1 DEF Enqueue
  <1>2. ASSUME NEW p \in Replicas, EditChannel(p)
        PROVE  \A m \in Rows : wasOff'[m] # "stale"
    BY <1>2 DEF EditChannel
  <1>3. ASSUME NEW w \in OutboxWorkers,
               \/ \E m \in Rows : ClaimOutboxRow(w, m)
               \/ Drain(w) \/ LookupFails(w) \/ SendUnanswered(w) \/ Forget(w)
        PROVE  wasOff' = wasOff
    BY <1>3 DEF Drain, ClaimOutboxRow, Decode, LookupChannel, Send, MarkOutboxDelivered,
                MarkOutboxAttempt, LookupFails, SendUnanswered, Forget
  <1>4. ASSUME OutboxTick \/ UNCHANGED OutboxVars
        PROVE  wasOff' = wasOff
    BY <1>4 DEF OutboxTick, OutboxVars
  <1> QED BY <1>1, <1>2, <1>3, <1>4 DEF OutboxNext

\* On one replica the outbox is what its head says: an event that is marked delivered was
\* sent, unless the channel was off since it came.  It is another replica's cache, stale
\* after the channel was switched on again, that breaks this (Emit, deliverDurable).
THEOREM OneReplicaSettlesHonestly ==
  ASSUME \A p, q \in Replicas : p = q
  PROVE  OutboxSpec => []SettledWasSentOrOff
  <1> DEFINE Inv == SettledForAReason /\ \A m \in Rows : wasOff[m] # "stale"
  <1>1. OutboxInit => Inv
    BY DEF OutboxInit, SettledForAReason
  <1>2. OutboxInv /\ Inv /\ [OutboxNext]_OutboxVars => Inv'
    BY SettledForAReasonStep, NeverStaleStep
  <1>3. OutboxInv /\ Inv => SettledWasSentOrOff
    <2> SUFFICES ASSUME OutboxInv, Inv, NEW m \in Rows, row[m] = "delivered", sent[m] = 0
                 PROVE  wasOff[m] = "off"
      BY DEF SettledWasSentOrOff
    <2> QED BY DEF SettledForAReason, OutboxInv, OutboxTypeOK
  <1> QED BY InitHolds, StepKeeps, <1>1, <1>2, <1>3, PTL DEF OutboxSpec

-----------------------------------------------------------------------------
(* The refinement *)

Fate == [m \in Rows |-> IF Open(m) THEN "pending"
                       ELSE IF row[m] = "pending" THEN "dead"
                       ELSE IF row[m] = "delivered" THEN "settled" ELSE "new"]
Unwanted == [m \in Rows |-> wasOff[m] # "never"]

\* A step that leaves the rows and their histories alone is none of the abstract queue's.
LEMMA Stutter ==
  ASSUME UNCHANGED <<row, attempts, sent, wasOff>>
  PROVE  UNCHANGED Abstract!ALVars
  BY DEF Abstract!ALVars, Open

LEMMA RowStep ==
  ASSUME NEW m \in Rows,
         \/ Abstract!Receive(m) \/ Abstract!Settle(m) \/ Abstract!Bury(m)
         \/ \E off \in BOOLEAN : Abstract!Accept(m, off)
  PROVE  [Abstract!ALNext]_(Abstract!ALVars)
  BY DEF Abstract!ALNext

LEMMA EnqueueAccepts ==
  ASSUME OutboxInv, NEW m \in Rows, NEW p \in Replicas, Enqueue(m, p)
  PROVE  [Abstract!ALNext]_(Abstract!ALVars)
  <1> USE DEF OutboxInv, OutboxTypeOK, Enqueue
  <1>1. CASE Seen(p) # "enabled"
    BY <1>1, Stutter
  <1>2. CASE Seen(p) = "enabled"
    <2>0. PICK off \in BOOLEAN : off = (wasOff'[m] # "never")
      OBVIOUS
    <2>1. attempts[m] < MaxSends
      BY OutboxAssumption DEF NewIsUntouched
    <2>2. Fate[m] = "new" /\ Fate' = [Fate EXCEPT ![m] = "pending"]
      BY <1>2, <2>1 DEF Fate, Open
    <2>3. Unwanted' = [Unwanted EXCEPT ![m] = off]
      BY <1>2, <2>0 DEF Unwanted
    <2>4. Abstract!Accept(m, off)
      BY <2>2, <2>3 DEF Abstract!Accept, Fate, Unwanted
    <2> QED BY <2>4, RowStep
  <1> QED BY <1>1, <1>2

LEMMA EditSwitches ==
  ASSUME OutboxInv, NEW p \in Replicas, EditChannel(p)
  PROVE  [Abstract!ALNext]_(Abstract!ALVars)
  <1> USE DEF OutboxInv, OutboxTypeOK, EditChannel
  <1>1. CASE channel' = "enabled"
    <2>1. wasOff' = wasOff
      BY <1>1
    <2> QED BY <2>1, Stutter
  <1>2. CASE channel' # "enabled"
    <2>1. Fate' = Fate
      BY DEF Fate, Open
    <2>2. Unwanted' = [m \in Rows |-> Unwanted[m] \/ Fate[m] = "pending"]
      BY <1>2 DEF Unwanted, Fate, Open
    <2>3. Abstract!SwitchOff
      BY <2>1, <2>2 DEF Abstract!SwitchOff, Fate, Unwanted
    <2> QED BY <2>3 DEF Abstract!ALNext
  <1> QED BY <1>1, <1>2

LEMMA SendReceives ==
  ASSUME OutboxInv, NEW w \in OutboxWorkers, Send(w) \/ SendUnanswered(w)
  PROVE  [Abstract!ALNext]_(Abstract!ALVars)
  <1> USE DEF OutboxInv, OutboxTypeOK, Send, SendUnanswered
  <1>0. PICK m \in Rows : m = held[w] /\ Open(m)
    BY DEF ClaimHolds, Busy
  <1>1. CASE sent' = sent
    BY <1>1, Stutter
  <1>2. CASE sent' = [sent EXCEPT ![m] = @ + 1]
    <2>1. Abstract!Receive(m)
      BY <1>0, <1>2 DEF Abstract!Receive, Open
    <2> QED BY <1>0, <2>1, RowStep
  <1> QED BY <1>0, <1>1, <1>2

LEMMA MarkSettles ==
  ASSUME OutboxInv, NEW w \in OutboxWorkers, MarkOutboxDelivered(w)
  PROVE  [Abstract!ALNext]_(Abstract!ALVars)
  <1> USE DEF OutboxInv, OutboxTypeOK, MarkOutboxDelivered
  <1>0. PICK m \in Rows : m = held[w] /\ Open(m)
    BY DEF ClaimHolds, Busy
  <1>1. Fate[m] = "pending" /\ Fate' = [Fate EXCEPT ![m] = "settled"]
    BY <1>0 DEF Fate, Open
  <1>2. sent[m] > 0 \/ Unwanted[m]
    BY <1>0 DEF DeliveredForAReason, Unwanted
  <1>3. Abstract!Settle(m)
    BY <1>1, <1>2 DEF Abstract!Settle, Fate, Unwanted
  <1> QED BY <1>0, <1>3, RowStep

LEMMA LastAttemptBuries ==
  ASSUME OutboxInv, NEW w \in OutboxWorkers, MarkOutboxAttempt(w)
  PROVE  [Abstract!ALNext]_(Abstract!ALVars)
  <1> USE OutboxAssumption DEF OutboxInv, OutboxTypeOK, MarkOutboxAttempt
  <1>0. PICK m \in Rows : m = held[w] /\ Open(m)
    BY DEF ClaimHolds, Busy
  <1>1. CASE attempts[m] + 1 < MaxSends
    <2>1. Fate' = Fate
      BY <1>0, <1>1 DEF Fate, Open
    <2> QED BY <2>1 DEF Abstract!ALVars, Fate
  <1>2. CASE ~(attempts[m] + 1 < MaxSends)
    <2>1. attempts' = [attempts EXCEPT ![m] = @ + 1] /\ row' = row /\ row[m] = "pending"
      BY <1>0 DEF Open
    <2>2. \A n \in Rows : Open(n)' <=> Open(n) /\ n # m
      BY <1>2, <2>1 DEF Open
    <2>3. Fate[m] = "pending" /\ Fate' = [Fate EXCEPT ![m] = "dead"]
      <3> HIDE DEF OutboxInv, OutboxTypeOK, MarkOutboxAttempt
      <3> QED BY <1>0, <2>1, <2>2 DEF Fate
    <2>4. Abstract!Bury(m)
      BY <2>3 DEF Abstract!Bury, Fate
    <2> QED BY <1>0, <2>4, RowStep
  <1> QED BY <1>1, <1>2

\* The outbox implements AtLeastOnce: nothing is sent before it is accepted or after it is
\* settled or dead, and nothing is settled without being sent unless the channel was off.
THEOREM OutboxImplements == OutboxSpec => DeliversAtLeastOnce
  <1>1. OutboxInit => Abstract!ALInit
    BY OutboxAssumption DEF OutboxInit, Abstract!ALInit, Open
  <1>2. OutboxInv /\ [OutboxNext]_OutboxVars => [Abstract!ALNext]_(Abstract!ALVars)
    <2> SUFFICES ASSUME OutboxInv, [OutboxNext]_OutboxVars
                 PROVE  [Abstract!ALNext]_(Abstract!ALVars)
      OBVIOUS
    <2>1. CASE UNCHANGED OutboxVars
      BY <2>1, Stutter DEF OutboxVars
    <2>2. ASSUME NEW w \in OutboxWorkers, NEW m \in Rows, ClaimOutboxRow(w, m)
          PROVE  UNCHANGED Abstract!ALVars
      BY <2>2, Stutter DEF ClaimOutboxRow
    <2>3. CASE OutboxTick
      BY <2>3, Stutter DEF OutboxTick
    <2>4. ASSUME NEW w \in OutboxWorkers, Decode(w) \/ LookupChannel(w) \/ LookupFails(w) \/ Forget(w)
          PROVE  UNCHANGED Abstract!ALVars
      BY <2>4, Stutter DEF Decode, LookupChannel, LookupFails, Forget
    <2> QED
      BY <2>1, <2>2, <2>3, <2>4, EnqueueAccepts, EditSwitches, SendReceives, MarkSettles,
         LastAttemptBuries
      DEF OutboxNext, Drain
  <1> QED BY InitHolds, StepKeeps, <1>1, <1>2, PTL DEF OutboxSpec, DeliversAtLeastOnce,
          Abstract!ALSpec
=============================================================================
