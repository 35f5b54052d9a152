-------------------------------- MODULE Outbox --------------------------------
(***************************************************************************)
(* The notification outbox of one channel (notify/outbox.go, notify.go,     *)
(* db/notification_outbox.go).  Emit puts a row per event; workers claim a  *)
(* due row under a lease, look the channel up through their replica's       *)
(* cache, send, and mark the row in a statement of its own.  Time is kept   *)
(* as what is left of each wait, so that it has no end.                     *)
(***************************************************************************)
EXTENDS Integers

CONSTANTS
    Rows,         \* events the channel admits
    NoRow,
    Corrupt,      \* rows whose payload does not decode
    OutboxWorkers, \* workers that hold the leader's gate, one after another or together
    Replicas,
    Home,         \* [OutboxWorkers -> Replicas]
    MaxSends,     \* db.MaxOutboxAttempts
    Lease,        \* db.OutboxClaimLease, in ticks
    CallBound,    \* the longest a lookup, a delivery and a mark take together
    CacheTTL,     \* notifsCacheTTL
    BackoffBase, BackoffMax,
    MaxOutboxFaults \* bound on crashes, lost marks and answers that get lost

ASSUME OutboxAssumption ==
    /\ NoRow \notin Rows
    /\ Home \in [OutboxWorkers -> Replicas]
    /\ MaxSends \in Nat \ {0}
    /\ CallBound \in Nat \ {0}
    /\ Lease \in Nat
    /\ Lease > CallBound
    /\ CacheTTL \in Nat
    /\ BackoffBase \in Nat \ {0}
    /\ BackoffMax \in Nat \ {0}
    /\ MaxOutboxFaults \in Nat

VARIABLES
    row,      \* [Rows -> "new" | "pending" | "delivered"]
    attempts, \* [Rows -> failed attempts on record]
    due,      \* [Rows -> ticks until nextAttemptAt]
    at,       \* [OutboxWorkers -> where drainOne is]
    held,     \* [OutboxWorkers -> the row it has claimed]
    tries,    \* [OutboxWorkers -> the attempts it was read with]
    left,     \* [OutboxWorkers -> ticks until the call has ended one way or the other]
    channel,  \* the channel in the database
    copy,     \* [Replicas -> the channel in notifsCache]
    ttl,      \* [Replicas -> ticks until the cache expires]
    sent,     \* [Rows -> how often the receiver got it]
    wasOff,   \* [Rows -> the channel was "off" at some time since the row is there, or was
              \*          on again but still off in some cache when it came ("stale")]
    spoiled,  \* [Rows -> faults that may have doubled it]
    outboxFaults

call == <<at, held, tries, left>>
OutboxVars == <<row, attempts, due, call, channel, copy, ttl, sent, wasOff, spoiled, outboxFaults>>

Channel == {"enabled", "disabled", "deleted"}
Steps == {"idle", "lookup", "send", "markDelivered", "markFailed"}
Due == 0 .. (Lease + 2 * BackoffMax)
Busy(w) == at[w] # "idle"

OutboxTypeOK ==
    /\ row \in [Rows -> {"new", "pending", "delivered"}]
    /\ attempts \in [Rows -> 0 .. MaxSends]
    /\ due \in [Rows -> Due]
    /\ at \in [OutboxWorkers -> Steps]
    /\ held \in [OutboxWorkers -> Rows \cup {NoRow}]
    /\ tries \in [OutboxWorkers -> 0 .. MaxSends]
    /\ left \in [OutboxWorkers -> 0 .. CallBound]
    /\ channel \in Channel
    /\ copy \in [Replicas -> Channel]
    /\ ttl \in [Replicas -> 0 .. CacheTTL]
    /\ sent \in [Rows -> Nat]
    /\ wasOff \in [Rows -> {"never", "stale", "off"}]
    /\ spoiled \in [Rows -> Nat]
    /\ outboxFaults \in 0 .. MaxOutboxFaults

OutboxInit ==
    /\ row = [m \in Rows |-> "new"]
    /\ attempts = [m \in Rows |-> 0]
    /\ due = [m \in Rows |-> 0]
    /\ at = [w \in OutboxWorkers |-> "idle"]
    /\ held = [w \in OutboxWorkers |-> NoRow]
    /\ tries = [w \in OutboxWorkers |-> 0]
    /\ left = [w \in OutboxWorkers |-> 0]
    /\ channel = "enabled"
    /\ copy = [p \in Replicas |-> "enabled"]
    /\ ttl = [p \in Replicas |-> 0]
    /\ sent = [m \in Rows |-> 0]
    /\ wasOff = [m \in Rows |-> "never"]
    /\ spoiled = [m \in Rows |-> 0]
    /\ outboxFaults = 0

\* What Emit and the workers of a replica take for the channel, and the refresh that comes
\* with the question (cachedNotifications).
Seen(p) == IF ttl[p] > 0 THEN copy[p] ELSE channel
Ask(p) ==
    /\ copy' = [copy EXCEPT ![p] = Seen(p)]
    /\ ttl' = [ttl EXCEPT ![p] = IF @ > 0 THEN @ ELSE CacheTTL]

OutboxFault(m) ==
    /\ outboxFaults < MaxOutboxFaults
    /\ outboxFaults' = outboxFaults + 1
    /\ spoiled' = [spoiled EXCEPT ![m] = @ + 1]

\* Base * 2^(n-1), capped, and up to a fifth more or less (outboxBackoff).
Waits(n) ==
    LET full == BackoffBase * 2 ^ (n - 1)
        base == IF full > BackoffMax THEN BackoffMax ELSE full
    IN  {t \in 1 .. 2 * BackoffMax : 5 * t >= 4 * base /\ 5 * t <= 6 * base}

\* Mutant: the cap is tested one attempt late.
OpenOnceMore(m) == row[m] = "pending" /\ attempts[m] <= MaxSends

\* Not delivered, and not a dead letter.
Open(m) == row[m] = "pending" /\ attempts[m] < MaxSends

-----------------------------------------------------------------------------
(* The emitting side *)

\* EmitDurable, on any replica.  The insert may fail: then there is no row, and the caller
\* is told.
Enqueue(m, p) ==
    /\ row[m] = "new"
    /\ Ask(p)
    /\ IF Seen(p) = "enabled"
         THEN /\ row' = [row EXCEPT ![m] = "pending"]
              /\ wasOff' = [wasOff EXCEPT ![m] =
                              IF channel # "enabled" THEN "off"
                              ELSE IF \E q \in Replicas : Seen(q) # "enabled" THEN "stale"
                              ELSE "never"]
         ELSE UNCHANGED <<row, wasOff>>
    /\ UNCHANGED <<attempts, due, call, channel, sent, spoiled, outboxFaults>>

\* The notifications handler on replica p: only p's own cache is dropped.
EditChannel(p) ==
    /\ channel # "deleted"
    /\ channel' \in Channel \ {channel}
    /\ wasOff' = [m \in Rows |-> IF Open(m) /\ channel' # "enabled" THEN "off" ELSE wasOff[m]]
    /\ ttl' = [ttl EXCEPT ![p] = 0]
    /\ UNCHANGED <<row, attempts, due, call, copy, sent, spoiled, outboxFaults>>

-----------------------------------------------------------------------------
(* drainOne *)

Claimable(m) == Open(m) /\ due[m] = 0

Hold(w, m) ==
    /\ at' = [at EXCEPT ![w] = "lookup"]
    /\ held' = [held EXCEPT ![w] = m]
    /\ tries' = [tries EXCEPT ![w] = attempts[m]]
    /\ left' = [left EXCEPT ![w] = CallBound]

Release(w) ==
    /\ at' = [at EXCEPT ![w] = "idle"]
    /\ held' = [held EXCEPT ![w] = NoRow]
    /\ tries' = [tries EXCEPT ![w] = 0]
    /\ left' = [left EXCEPT ![w] = 0]

WorkerGoes(w, l) == at' = [at EXCEPT ![w] = l] /\ UNCHANGED <<held, tries, left>>

\* Mutant: the claim is committed, but takes no lease.
ClaimOutboxRowNoLease(w, m) ==
    /\ ~Busy(w)
    /\ Claimable(m)
    /\ Hold(w, m)
    /\ UNCHANGED <<row, attempts, due, channel, copy, ttl, sent, wasOff, spoiled, outboxFaults>>

\* The row lock lasts only for the claim; the lease outlives it.
ClaimOutboxRow(w, m) ==
    /\ ~Busy(w)
    /\ Claimable(m)
    /\ Hold(w, m)
    /\ due' = [due EXCEPT ![m] = Lease]
    /\ UNCHANGED <<row, attempts, channel, copy, ttl, sent, wasOff, spoiled, outboxFaults>>

\* A payload that does not decode is one more failed attempt.
Decode(w) ==
    /\ at[w] = "lookup"
    /\ held[w] \in Corrupt
    /\ WorkerGoes(w, "markFailed")
    /\ UNCHANGED <<row, attempts, due, channel, copy, ttl, sent, wasOff, spoiled, outboxFaults>>

\* A channel that is off or gone takes the row with it.  One that the cache does not have
\* is looked for in the database.
LookupChannel(w) ==
    LET p == Home[w]
        found == IF Seen(p) = "deleted" THEN channel ELSE Seen(p)
    IN  /\ at[w] = "lookup"
        /\ held[w] \notin Corrupt
        /\ Ask(p)
        /\ WorkerGoes(w, IF found = "enabled" THEN "send" ELSE "markDelivered")
        /\ UNCHANGED <<row, attempts, due, channel, sent, wasOff, spoiled, outboxFaults>>

\* Mutant: a database that does not answer is a channel that is gone.
LookupFailsDrops(w) ==
    /\ at[w] = "lookup"
    /\ OutboxFault(held[w])
    /\ WorkerGoes(w, "markDelivered")
    /\ UNCHANGED <<row, attempts, due, channel, copy, ttl, sent, wasOff>>

\* The database does not answer: the claim is left to its lease.
LookupFails(w) ==
    /\ at[w] = "lookup"
    /\ OutboxFault(held[w])
    /\ Release(w)
    /\ UNCHANGED <<row, attempts, due, channel, copy, ttl, sent, wasOff>>

Send(w) ==
    /\ at[w] = "send"
    /\ \/ /\ sent' = [sent EXCEPT ![held[w]] = @ + 1]
          /\ WorkerGoes(w, "markDelivered")
       \/ WorkerGoes(w, "markFailed") /\ UNCHANGED sent
    /\ UNCHANGED <<row, attempts, due, channel, copy, ttl, wasOff, spoiled, outboxFaults>>

\* The receiver has it, and its answer is lost.
SendUnanswered(w) ==
    /\ at[w] = "send"
    /\ OutboxFault(held[w])
    /\ sent' = [sent EXCEPT ![held[w]] = @ + 1]
    /\ WorkerGoes(w, "markFailed")
    /\ UNCHANGED <<row, attempts, due, channel, copy, ttl, wasOff>>

\* Mutant: the statement finds no row.
MarkOutboxDeliveredNowhere(w) ==
    /\ at[w] = "markDelivered"
    /\ Release(w)
    /\ UNCHANGED <<row, attempts, due, channel, copy, ttl, sent, wasOff, spoiled, outboxFaults>>

MarkOutboxDelivered(w) ==
    /\ at[w] = "markDelivered"
    /\ row' = [row EXCEPT ![held[w]] = "delivered"]
    /\ Release(w)
    /\ UNCHANGED <<attempts, due, channel, copy, ttl, sent, wasOff, spoiled, outboxFaults>>

\* Mutant: the attempt is not counted, only put off.
MarkOutboxAttemptUncounted(w) ==
    LET m == held[w]
    IN  /\ at[w] = "markFailed"
        /\ \E t \in IF m \in Corrupt THEN {BackoffMax} ELSE Waits(tries[w] + 1) :
            due' = [due EXCEPT ![m] = t]
        /\ Release(w)
        /\ UNCHANGED <<row, attempts, channel, copy, ttl, sent, wasOff, spoiled, outboxFaults>>

\* The count is the database's own, the wait comes from the attempts read with the claim.
MarkOutboxAttempt(w) ==
    LET m == held[w]
    IN  /\ at[w] = "markFailed"
        /\ attempts' = [attempts EXCEPT ![m] = @ + 1]
        /\ \E t \in IF m \in Corrupt THEN {BackoffMax} ELSE Waits(tries[w] + 1) :
            due' = [due EXCEPT ![m] = t]
        /\ Release(w)
        /\ UNCHANGED <<row, channel, copy, ttl, sent, wasOff, spoiled, outboxFaults>>

\* The mark fails, or the process dies anywhere after the claim.
Forget(w) ==
    /\ Busy(w)
    /\ OutboxFault(held[w])
    /\ Release(w)
    /\ UNCHANGED <<row, attempts, due, channel, copy, ttl, sent, wasOff>>

-----------------------------------------------------------------------------
(* Time passes, except over the end of a call: each has a timeout *)

Less(n) == IF n > 0 THEN n - 1 ELSE 0

OutboxTick ==
    /\ \A w \in OutboxWorkers : Busy(w) => left[w] > 0
    /\ due' = [m \in Rows |-> Less(due[m])]
    /\ ttl' = [p \in Replicas |-> Less(ttl[p])]
    /\ left' = [w \in OutboxWorkers |-> Less(left[w])]
    /\ <<due, ttl, left>>' # <<due, ttl, left>>
    /\ UNCHANGED <<row, attempts, at, held, tries, channel, copy, sent, wasOff, spoiled, outboxFaults>>

Drain(w) ==
    \/ Decode(w) \/ LookupChannel(w) \/ Send(w) \/ MarkOutboxDelivered(w) \/ MarkOutboxAttempt(w)

OutboxNext ==
    \/ \E m \in Rows, p \in Replicas : Enqueue(m, p)
    \/ \E p \in Replicas : EditChannel(p)
    \/ \E w \in OutboxWorkers, m \in Rows : ClaimOutboxRow(w, m)
    \/ \E w \in OutboxWorkers : Drain(w) \/ LookupFails(w) \/ SendUnanswered(w) \/ Forget(w)
    \/ OutboxTick

OutboxSpec == OutboxInit /\ [][OutboxNext]_OutboxVars

\* A call ends (its timeouts), time passes, and the claim takes the row that has been due
\* the longest (ORDER BY "nextAttemptAt"), so none is passed over for ever.
OutboxFairness ==
    /\ \A w \in OutboxWorkers : WF_OutboxVars(Drain(w))
    /\ \A m \in Rows : SF_OutboxVars(\E w \in OutboxWorkers : ClaimOutboxRow(w, m))
    /\ WF_OutboxVars(OutboxTick)

OutboxFairSpec == OutboxSpec /\ OutboxFairness

-----------------------------------------------------------------------------
(* Properties *)

\* "Workers drain in parallel without double-delivery": a row that a call still works on is
\* in no other worker's hands, although the row lock is gone since the claim committed
\* (ClaimOutboxRow, OutboxClaimLease).
OneWorkerPerRow ==
    \A v, w \in OutboxWorkers : Busy(v) /\ Busy(w) /\ held[v] = held[w] => v = w

\* The receiver gets an event twice only if a crash, a lost mark or a lost answer came
\* between: retries, leases and two leaders alone never double one (drainOne).
DuplicatesNeedAFault == \A m \in Rows : sent[m] <= 1 + spoiled[m]

\* A row that is marked delivered was sent, unless the channel was off at some time since
\* the row is there: "the outbox flips webhook delivery from at-most-once to at-least-once".
SettledWasSentOrOff ==
    \A m \in Rows : row[m] = "delivered" /\ sent[m] = 0 => wasOff[m] = "off"

\* Every row is marked delivered or becomes a dead letter, whatever crashes, and whatever
\* marks are lost: no row is claimed and put off for ever.
EveryRowSettles == \A m \in Rows : row[m] = "pending" ~> ~Open(m)

Abstract == INSTANCE AtLeastOnce
    WITH Messages <- Rows,
         fate <- [m \in Rows |-> IF Open(m) THEN "pending"
                                 ELSE IF row[m] = "pending" THEN "dead"
                                 ELSE IF row[m] = "delivered" THEN "settled" ELSE "new"],
         received <- sent,
         unwanted <- [m \in Rows |-> wasOff[m] # "never"]

\* The outbox keeps the promise of AtLeastOnce: nothing is sent before it is accepted or
\* after it is settled or buried, and nothing is settled that was neither sent nor, as far
\* as some replica knew, unwanted.
DeliversAtLeastOnce == Abstract!ALSpec
=============================================================================
