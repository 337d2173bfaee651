-------------------------- MODULE NotificationOutbox --------------------------
(***************************************************************************)
(* The durable notification outbox of the PA store (pa/store.rs): a table  *)
(* of notifications that producers enqueue under an idempotency key and    *)
(* that delivery workers claim for a bounded lease, deliver, and complete  *)
(* or release.  Every store call is one SQLite transaction and so one      *)
(* action; a worker's own memory (its claims) is lost when it crashes.     *)
(*                                                                         *)
(* The delivery worker itself is not in the repository: its steps are the  *)
(* calls the store's API documents, in any order two or more of them can   *)
(* interleave.                                                             *)
(***************************************************************************)
EXTENDS Integers, FiniteSets

CONSTANTS
    Keys,          \* idempotency keys a producer may use
    Contents,      \* kind, recipient, references and template of a request
    Workers,       \* delivery workers, each with its own store instance
    NoKey,         \* the key of a table slot that holds no row
    NoContent,     \* the content of a table slot that holds no row
    MaxId,         \* bound: largest SQLite row id
    MaxRows,       \* bound: rows ever inserted
    MaxTime,       \* bound: last instant of the clock
    MaxAttempts,   \* bound: deliveries claimed for one row
    MaxFailures,   \* bound: crashes, rescheduled attempts and stale clocks
    LeaseDuration, \* lease a worker asks for
    ClaimLimit,    \* batch size a worker asks for
    MaxStaleness   \* how old the `now` of a claim may be when it commits

ASSUME OutboxAssumption ==
    /\ MaxId \in Nat \ {0} /\ MaxRows \in Nat /\ MaxTime \in Nat
    /\ MaxAttempts \in Nat \ {0} /\ MaxFailures \in Nat
    /\ LeaseDuration \in Nat \ {0} /\ ClaimLimit \in Nat \ {0}
    /\ MaxStaleness \in Nat
    /\ NoKey \notin Keys /\ NoContent \notin Contents

VARIABLES
    outbox,    \* table notification_outbox, by row id
    now,       \* wall clock
    claims,    \* rows each worker got from claim_notifications
    sends,     \* history: [gen, attempt] of every message handed to mail
    inserted,  \* history: rows inserted so far
    failures   \* history: failures so far

vars == <<outbox, now, claims, sends, inserted, failures>>

Ids == 1..MaxId
Times == 0..MaxTime
NoTime == -1
Status == {"absent", "pending", "delivering", "sent"}
ErrorCode == {"none", "failed"}

\* A notification row.  `gen` numbers the inserted rows: history, no column.
Row == [gen : Nat, key : Keys \cup {NoKey}, content : Contents \cup {NoContent},
        availableAt : Times \cup {NoTime}, status : Status,
        leaseUntil : Nat \cup {NoTime}, sentAt : Times \cup {NoTime},
        errorCode : ErrorCode, attempts : Nat]

NoRow == [gen |-> 0, key |-> NoKey, content |-> NoContent,
          availableAt |-> NoTime, status |-> "absent", leaseUntil |-> NoTime,
          sentAt |-> NoTime, errorCode |-> "none", attempts |-> 0]

Present(i) == outbox[i].status # "absent"

Claim == [id : Ids, gen : Nat, attempt : Nat]

Init ==
    /\ outbox = [i \in Ids |-> NoRow]
    /\ now = 0
    /\ claims = [w \in Workers |-> {}]
    /\ sends = {}
    /\ inserted = 0
    /\ failures = 0

-----------------------------------------------------------------------------
(* Producers.                                                              *)

\* SQLite assigns an INTEGER PRIMARY KEY without AUTOINCREMENT the largest id
\* in use plus one, so the id of a deleted last row is used again.
NextId(i) ==
    /\ \A j \in Ids : Present(j) => j < i
    /\ i = 1 \/ (i - 1 \in Ids /\ Present(i - 1))

\* No row has the key.  Otherwise enqueue_notification returns the row, or a
\* conflict if the inputs differ, and changes nothing.
KeyFree(k) == \A i \in Ids : Present(i) => outbox[i].key # k

\* The inserted row.
NewRow(k, content, at) ==
    [gen |-> inserted + 1, key |-> k, content |-> content,
     availableAt |-> at, status |-> "pending",
     leaseUntil |-> NoTime, sentAt |-> NoTime, errorCode |-> "none",
     attempts |-> 0]

EnqueueNotification(k, content, at) ==
    /\ inserted < MaxRows
    /\ KeyFree(k)
    /\ \E i \in Ids :
          /\ NextId(i)
          /\ outbox' = [outbox EXCEPT ![i] = NewRow(k, content, at)]
    /\ inserted' = inserted + 1
    /\ UNCHANGED <<now, claims, sends, failures>>

DeleteNotification(i) ==
    /\ Present(i)
    /\ outbox' = [outbox EXCEPT ![i] = NoRow]
    /\ UNCHANGED <<now, claims, sends, inserted, failures>>

-----------------------------------------------------------------------------
(* Delivery workers.                                                       *)

\* Mutation of Eligible: an abandoned attempt is never picked up again.
EligibleNoRecovery(i, n) ==
    outbox[i].status = "pending" /\ outbox[i].availableAt <= n

\* Mutation of Eligible: a delivering row is eligible whatever its lease.
EligibleIgnoringLease(i, n) ==
    \/ outbox[i].status = "pending" /\ outbox[i].availableAt <= n
    \/ outbox[i].status = "delivering"

Eligible(i, n) ==
    \/ outbox[i].status = "pending" /\ outbox[i].availableAt <= n
    \/ outbox[i].status = "delivering" /\ outbox[i].leaseUntil <= n

\* ORDER BY available_at ASC, id ASC
Precedes(i, j) ==
    \/ outbox[i].availableAt < outbox[j].availableAt
    \/ outbox[i].availableAt = outbox[j].availableAt /\ i < j

\* The rows the SELECT ... LIMIT picks.
Candidates(n) ==
    LET E == {i \in Ids : Eligible(i, n)}
    IN  {i \in E : Cardinality({j \in E : Precedes(j, i)}) < ClaimLimit}

\* Mutations of Claimed: the attempt is not counted, or keeps the error of
\* the attempt before.
ClaimedUncounted(row, n) ==
    [row EXCEPT !.status = "delivering", !.leaseUntil = n + LeaseDuration,
                !.sentAt = NoTime, !.errorCode = "none"]

ClaimedKeepingError(row, n) ==
    [row EXCEPT !.status = "delivering", !.attempts = @ + 1,
                !.leaseUntil = n + LeaseDuration, !.sentAt = NoTime]

Claimed(row, n) ==
    [row EXCEPT !.status = "delivering", !.attempts = @ + 1,
                !.leaseUntil = n + LeaseDuration,
                !.sentAt = NoTime, !.errorCode = "none"]

\* claim_notifications(n, ...): n was read before the write lock was obtained,
\* and is the time of the commit unless the caller had to wait for the lock.
ClaimNotifications(w, n) ==
    /\ claims[w] = {}
    /\ n < now => failures < MaxFailures
    /\ Candidates(n) # {}
    /\ \A i \in Candidates(n) : outbox[i].attempts < MaxAttempts
    /\ outbox' = [i \in Ids |-> IF i \in Candidates(n)
                                THEN Claimed(outbox[i], n) ELSE outbox[i]]
    /\ claims' = [claims EXCEPT ![w] =
          {[id |-> i, gen |-> outbox[i].gen,
            attempt |-> outbox[i].attempts + 1] : i \in Candidates(n)}]
    /\ failures' = IF n < now THEN failures + 1 ELSE failures
    /\ UNCHANGED <<now, sends, inserted>>

\* The worker hands the message to the mail provider.
Deliver(w, c) ==
    /\ c \in claims[w]
    /\ sends' = sends \cup {[gen |-> c.gen, attempt |-> c.attempt]}
    /\ UNCHANGED <<outbox, now, claims, inserted, failures>>

Delivered(c) == [gen |-> c.gen, attempt |-> c.attempt] \in sends

\* Mutation of OwnsAttempt: half of the cursor test.
OwnsAnyAttempt(c) == outbox[c.id].status = "delivering"

\* The cursor test of mark_notification_sent and reschedule_notification.
OwnsAttempt(c) ==
    /\ outbox[c.id].status = "delivering"
    /\ outbox[c.id].attempts = c.attempt

\* mark_notification_sent(c.id, c.attempt, now); the answer may be lost, in
\* which case the worker keeps the claim and will ask again.
MarkNotificationSent(w, c) ==
    /\ c \in claims[w]
    /\ Delivered(c)
    /\ OwnsAttempt(c)
    /\ outbox' = [outbox EXCEPT ![c.id] =
          [@ EXCEPT !.status = "sent", !.leaseUntil = NoTime,
                    !.sentAt = now, !.errorCode = "none"]]
    /\ \/ claims' = [claims EXCEPT ![w] = @ \ {c}]
       \/ UNCHANGED claims
    /\ UNCHANGED <<now, sends, inserted, failures>>

\* reschedule_notification(c.id, c.attempt, at, code) after a failed send.
RescheduleNotification(w, c, at) ==
    /\ c \in claims[w]
    /\ OwnsAttempt(c)
    /\ failures < MaxFailures
    /\ outbox' = [outbox EXCEPT ![c.id] =
          [@ EXCEPT !.status = "pending", !.availableAt = at,
                    !.leaseUntil = NoTime, !.sentAt = NoTime,
                    !.errorCode = "failed"]]
    /\ claims' = [claims EXCEPT ![w] = @ \ {c}]
    /\ failures' = failures + 1
    /\ UNCHANGED <<now, sends, inserted>>

\* Either call with a cursor the row no longer has: the exact repetition of a
\* completion, a cursor conflict or a missing row.  The worker moves on.
CompletionRefused(w, c) ==
    /\ c \in claims[w]
    /\ ~OwnsAttempt(c)
    /\ claims' = [claims EXCEPT ![w] = @ \ {c}]
    /\ UNCHANGED <<outbox, now, sends, inserted, failures>>

\* The worker process dies; its leases stay in the table.
WorkerCrash(w) ==
    /\ claims[w] # {}
    /\ failures < MaxFailures
    /\ now + LeaseDuration <= MaxTime
    /\ claims' = [claims EXCEPT ![w] = {}]
    /\ failures' = failures + 1
    /\ UNCHANGED <<outbox, now, sends, inserted>>

Tick ==
    /\ now < MaxTime
    /\ now' = now + 1
    /\ UNCHANGED <<outbox, claims, sends, inserted, failures>>

WorkerStep(w) ==
    \/ \E n \in Times : /\ n <= now /\ now <= n + MaxStaleness
                        /\ ClaimNotifications(w, n)
    \/ \E c \in claims[w] : \/ Deliver(w, c)
                            \/ MarkNotificationSent(w, c)
                            \/ CompletionRefused(w, c)

Next ==
    \/ \E k \in Keys, content \in Contents, at \in Times :
          EnqueueNotification(k, content, at)
    \/ \E w \in Workers : WorkerStep(w)
    \/ \E w \in Workers : \E c \in claims[w], at \in Times :
          RescheduleNotification(w, c, at)
    \/ \E w \in Workers : WorkerCrash(w)
    \/ \E i \in Ids : DeleteNotification(i)
    \/ Tick

Spec == Init /\ [][Next]_vars

\* Time passes and a worker loop keeps polling, sending and completing.  No
\* crash, reschedule or enqueue is ever forced.
Fairness ==
    /\ WF_vars(Tick)
    /\ \A w \in Workers :
          /\ WF_vars(ClaimNotifications(w, now))
          /\ WF_vars(\E c \in claims[w] : ~Delivered(c) /\ Deliver(w, c))
          /\ WF_vars(\E c \in claims[w] : MarkNotificationSent(w, c))
          /\ WF_vars(\E c \in claims[w] : CompletionRefused(w, c))

LiveSpec == Spec /\ Fairness

-----------------------------------------------------------------------------
(* Properties.                                                             *)

TypeOK ==
    /\ outbox \in [Ids -> Row]
    /\ now \in Times
    /\ claims \in [Workers -> SUBSET Claim]
    /\ sends \subseteq [gen : Nat, attempt : Nat]
    /\ inserted \in 0..MaxRows
    /\ failures \in 0..MaxFailures

\* The conditions decode_notification_row puts on a stored row: a row that
\* fails them can never be loaded, claimed or completed again.
Decodable(row) ==
    \/ /\ row.status = "pending"
       /\ row.leaseUntil = NoTime /\ row.sentAt = NoTime
    \/ /\ row.status = "delivering" /\ row.attempts > 0
       /\ row.leaseUntil # NoTime /\ row.sentAt = NoTime /\ row.errorCode = "none"
    \/ /\ row.status = "sent" /\ row.attempts > 0
       /\ row.leaseUntil = NoTime /\ row.sentAt # NoTime /\ row.errorCode = "none"

\* Whatever claims, completions, releases and re-claims a row went through,
\* the decoder still accepts it.
RowsDecodable == \A i \in Ids : Present(i) => Decodable(outbox[i])

\* No delivery attempt of a row is ever in two workers' hands, however late a
\* lease expires, a completion arrives or the clock a worker read is.
AttemptExclusive ==
    \A v, w \in Workers :
       v # w => \A c \in claims[v], d \in claims[w] :
                   c.gen = d.gen => c.attempt # d.attempt

\* Rows are numbered as they are inserted and no two present rows have the
\* same number, although they may have had the same id.
RowsNumbered ==
    \A i \in Ids :
       /\ outbox[i].gen <= inserted
       /\ Present(i) => outbox[i].gen > 0
       /\ ~Present(i) => outbox[i].gen = 0
       /\ \A j \in Ids : Present(i) /\ outbox[i].gen = outbox[j].gen => i = j

\* A claim belongs to a row that was inserted, and to an attempt the row has
\* already counted.
ClaimsCounted ==
    \A w \in Workers : \A c \in claims[w] :
       /\ c.gen > 0 /\ c.gen <= inserted
       /\ \A i \in Ids : outbox[i].gen = c.gen => c.attempt <= outbox[i].attempts

\* AttemptExclusive with what makes it inductive: the attempt counter of a row
\* dominates every claim on it, so a new claim is a new attempt.
ExclusionInv == RowsNumbered /\ ClaimsCounted /\ AttemptExclusive

\* A row that is still delivering its current attempt under a lease that has
\* not run out cannot be handed to anybody else: whoever holds the row's
\* current attempt is alone until lease_until.
LeaseRespected ==
    [][\A i \in Ids :
          /\ outbox[i].status = "delivering"
          /\ now < outbox[i].leaseUntil
          /\ outbox'[i].gen = outbox[i].gen
          => outbox'[i].attempts = outbox[i].attempts]_vars

\* A completed notification is never delivered, released or changed again; it
\* can only be deleted.
SentIsFinal ==
    [][\A i \in Ids : outbox[i].status = "sent"
                         => outbox'[i] \in {outbox[i], NoRow}]_vars

\* The attempt recorded in a sent row is one whose message was handed to the
\* mail provider: nobody can complete an attempt on another's behalf.
SentWasDelivered ==
    \A i \in Ids : outbox[i].status = "sent" =>
       [gen |-> outbox[i].gen, attempt |-> outbox[i].attempts] \in sends

\* SentWasDelivered for the rows up to the first one whose id was used before:
\* ids are assigned upwards, so the row inserted as the i-th has id i until
\* then.  Only the reuse of an id lets a claim complete somebody else's row.
FirstUseSentWasDelivered ==
    \A i \in Ids : outbox[i].status = "sent" /\ outbox[i].gen = i =>
       [gen |-> i, attempt |-> outbox[i].attempts] \in sends

\* The safety half of EventuallySent: whoever holds an unsent row, whatever
\* clock its claim read and whether the holder is still alive, one lease from
\* now, or when it falls due, a claim can take the row.
NeverStranded ==
    \A i \in Ids : Present(i) /\ outbox[i].status # "sent" =>
       LET lease == now + LeaseDuration
           due == outbox[i].availableAt
       IN  Eligible(i, IF due > lease THEN due ELSE lease)

\* Every enqueued notification is eventually sent, in spite of crashed workers,
\* failed sends and stale clocks, unless it is deleted.
EventuallySent ==
    \A i \in Ids : Present(i) ~> outbox[i].status \in {"sent", "absent"}
=============================================================================
