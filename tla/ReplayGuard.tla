----------------------------- MODULE ReplayGuard -----------------------------
(***************************************************************************)
(* HMAC admission of internal requests and its replay protection           *)
(* (pa/http/middleware_hmac.rs, pa/auth.rs, PaStore::consume_replay_nonce).*)
(*                                                                         *)
(* A request carries a timestamp, a nonce and a signature over both.  It   *)
(* is admitted if the timestamp is close to the clock, the signature is    *)
(* right and the nonce is not in the table of consumed nonces, from which  *)
(* rows are deleted when their retention is over.  The clock is read       *)
(* BEFORE the lock of the store and the write lock of the database are     *)
(* obtained, so that the instant an admission works with may be older than *)
(* the one another admission has used in between.                          *)
(*                                                                         *)
(* The process-local InMemoryReplayGuard is the same protocol with a       *)
(* bounded table: Capacity is its bound, and any number not below          *)
(* Cardinality(Nonces) stands for the unbounded table of the store.        *)
(***************************************************************************)
EXTENDS Integers, FiniteSets

CONSTANTS
    Nonces,        \* well-formed nonces
    Messages,      \* requests that may arrive, again and again
    Handlers,      \* concurrent admissions, of one or several processes
    NoMessage,     \* what an idle handler works on
    Skew,          \* MAX_CLOCK_SKEW_SECONDS
    Retention,     \* REPLAY_RETENTION_SECONDS
    Capacity,      \* entries the table can hold
    MaxWait,       \* longest time from the clock reading to the commit
    MaxTime        \* bound: last instant of the clock

ASSUME ReplayAssumption ==
    /\ Skew \in Nat /\ Retention \in Nat \ {0} /\ Capacity \in Nat \ {0}
    /\ MaxWait \in Nat /\ MaxTime \in Nat
    /\ Messages \subseteq [timestamp : Nat, nonce : Nonces, signature : {"right", "wrong"}]
    /\ NoMessage \notin Messages

\* The constants of auth.rs (60 s and 300 s) leave 180 s for MaxWait.
ASSUME RetentionCoversSkew == Retention > 2 * Skew + MaxWait

VARIABLES
    nonces,    \* table replay_nonces: when a consumed nonce expires
    clock,     \* wall clock, whole seconds
    handler,   \* the admissions: the request, the clock read for it, the answer
    accepted,  \* history: how often a request was admitted
    acceptedAt \* history: the clock reading of its last admission

vars == <<nonces, clock, handler, accepted, acceptedAt>>

Times == 0..MaxTime
Absent == -1
Idle == [message |-> NoMessage, now |-> Absent, answer |-> "none"]
Answers == {"none", "accepted", "authentication_failed", "replay", "unavailable"}

Admission == [message : Messages \cup {NoMessage},
              now : Times \cup {Absent}, answer : Answers]

Init ==
    /\ nonces = [x \in Nonces |-> Absent]
    /\ clock = 0
    /\ handler = [h \in Handlers |-> Idle]
    /\ accepted = [m \in Messages |-> 0]
    /\ acceptedAt = [m \in Messages |-> Absent]

-----------------------------------------------------------------------------
(* The guard.                                                              *)

\* Mutation of Retained: entries leave the table when the skew is over.
RetainedForSkew(t, x, n) == t[x] # Absent /\ t[x] - Retention + Skew > n

\* DELETE ... WHERE expires_at <= now; evict_expired keeps accepted_at +
\* REPLAY_RETENTION_SECONDS > now.
Retained(t, x, n) == t[x] # Absent /\ t[x] > n

Purged(t, n) == [x \in Nonces |-> IF Retained(t, x, n) THEN t[x] ELSE Absent]

Full(t) == Cardinality({x \in Nonces : t[x] # Absent}) >= Capacity

\* INSERT ... ON CONFLICT(nonce) DO NOTHING, or contains_key and the capacity.
Fresh(t, x) == t[x] = Absent /\ ~Full(t)

Consumed(t, x, n) == [t EXCEPT ![x] = n + Retention]

-----------------------------------------------------------------------------
(* Admission.                                                              *)

\* admit reads the clock.
ReadClock(h, m) ==
    /\ handler[h].now = Absent
    /\ handler' = [handler EXCEPT ![h] =
                      [message |-> m, now |-> clock, answer |-> "none"]]
    /\ UNCHANGED <<nonces, clock, accepted, acceptedAt>>

Answer(h, a) ==
    handler' = [handler EXCEPT ![h] = [message |-> handler[h].message,
                                       now |-> Absent, answer |-> a]]

\* timestamp.abs_diff(current_timestamp) <= MAX_CLOCK_SKEW_SECONDS
WithinSkew(m, n) == m.timestamp - n <= Skew /\ n - m.timestamp <= Skew

Authentic(m, n) == WithinSkew(m, n) /\ m.signature = "right"

\* Mutation of RejectUnauthentic: the nonce is recorded before the HMAC.
RejectUnauthenticRecording(h) ==
    /\ handler[h].now # Absent
    /\ ~Authentic(handler[h].message, handler[h].now)
    /\ nonces' = Consumed(nonces, handler[h].message.nonce, handler[h].now)
    /\ Answer(h, "authentication_failed")
    /\ UNCHANGED <<clock, accepted, acceptedAt>>

\* verify_request up to the HMAC: the table is not touched.
RejectUnauthentic(h) ==
    /\ handler[h].now # Absent
    /\ ~Authentic(handler[h].message, handler[h].now)
    /\ Answer(h, "authentication_failed")
    /\ UNCHANGED <<nonces, clock, accepted, acceptedAt>>

\* check_and_record of an authentic request, one immediate transaction.
CheckAndRecord(h) ==
    LET m == handler[h].message
        n == handler[h].now
        t == Purged(nonces, n)
    IN  /\ n # Absent
        /\ Authentic(m, n)
        /\ \/ /\ Fresh(t, m.nonce)
              /\ nonces' = Consumed(t, m.nonce, n)
              /\ accepted' = [accepted EXCEPT ![m] = @ + 1]
              /\ acceptedAt' = [acceptedAt EXCEPT ![m] = n]
              /\ Answer(h, "accepted")
           \/ /\ ~Fresh(t, m.nonce)
              /\ nonces' = t
              /\ Answer(h, "replay")
              /\ UNCHANGED <<accepted, acceptedAt>>
        /\ UNCHANGED clock

\* The transaction fails and is rolled back: StoreReplayGuard refuses.
PersistenceFailed(h) ==
    /\ handler[h].now # Absent
    /\ Authentic(handler[h].message, handler[h].now)
    /\ Answer(h, "unavailable")
    /\ UNCHANGED <<nonces, clock, accepted, acceptedAt>>

\* Time passes; no admission waits longer than MaxWait for its locks.
Tick ==
    /\ clock < MaxTime
    /\ \A h \in Handlers :
          handler[h].now # Absent => clock < handler[h].now + MaxWait
    /\ clock' = clock + 1
    /\ UNCHANGED <<nonces, handler, accepted, acceptedAt>>

Next ==
    \/ \E h \in Handlers, m \in Messages : ReadClock(h, m)
    \/ \E h \in Handlers : RejectUnauthentic(h)
    \/ \E h \in Handlers : CheckAndRecord(h)
    \/ \E h \in Handlers : PersistenceFailed(h)
    \/ Tick

Spec == Init /\ [][Next]_vars

-----------------------------------------------------------------------------
(* Properties.                                                             *)

TypeOK ==
    /\ nonces \in [Nonces -> Nat \cup {Absent}]
    /\ clock \in Times
    /\ handler \in [Handlers -> Admission]
    /\ \A h \in Handlers : handler[h].now # Absent => handler[h].message \in Messages
    /\ accepted \in [Messages -> Nat]
    /\ acceptedAt \in [Messages -> Times \cup {Absent}]

\* No request is ever admitted twice, however often it arrives, whichever
\* admissions overlap and however stale the clock they read has become: a row
\* that was deleted cannot be missed by an admission that still believes the
\* timestamp to be recent.
NoReplay == \A m \in Messages : accepted[m] <= 1

\* No admission works with a clock reading older than MaxWait.
ReadingsRecent ==
    \A h \in Handlers : handler[h].now # Absent =>
       /\ handler[h].now <= clock
       /\ clock <= handler[h].now + MaxWait

\* An admitted request is still guarded by its row, or the clock has passed
\* the retention of its row.
AcceptedIsGuarded ==
    \A m \in Messages : accepted[m] > 0 =>
       /\ acceptedAt[m] # Absent
       /\ WithinSkew(m, acceptedAt[m])
       /\ \/ nonces[m.nonce] = acceptedAt[m] + Retention
          \/ clock >= acceptedAt[m] + Retention

\* NoReplay with what makes it inductive.
ReplayInv == ReadingsRecent /\ AcceptedIsGuarded /\ NoReplay

\* The table holds only nonces of requests that were admitted, with the expiry
\* of that admission: an unauthentic request, a refused one or a failed
\* transaction cannot use up a nonce that its sender is going to need.
NoncesAreEarned ==
    \A x \in Nonces : nonces[x] # Absent =>
       \E m \in Messages : /\ m.nonce = x /\ m.signature = "right"
                           /\ accepted[m] > 0
                           /\ nonces[x] = acceptedAt[m] + Retention
=============================================================================
