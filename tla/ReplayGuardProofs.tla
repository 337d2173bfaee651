-------------------------- MODULE ReplayGuardProofs --------------------------
(***************************************************************************)
(* Proofs about ReplayGuard: type correctness, that no request is admitted *)
(* twice and that only an admitted request uses up a nonce, for any number *)
(* of nonces, requests and concurrent admissions.                          *)
(***************************************************************************)
EXTENDS ReplayGuard, TLAPS

\* What the guard reads and leaves behind: the purged table keeps exactly the
\* rows that are still retained.
LEMMA PurgedTable ==
    ASSUME NEW t \in [Nonces -> Nat \cup {Absent}], NEW n \in Nat
    PROVE  /\ Purged(t, n) \in [Nonces -> Nat \cup {Absent}]
           /\ \A x \in Nonces : \/ Purged(t, n)[x] = t[x]
                                \/ Purged(t, n)[x] = Absent /\ t[x] <= n
  BY DEF Purged, Retained, Absent

\* A nonce is consumed for Retention after the clock reading.
LEMMA ConsumedTable ==
    ASSUME NEW t \in [Nonces -> Nat \cup {Absent}], NEW n \in Nat,
           NEW y \in Nonces
    PROVE  /\ Consumed(t, y, n) \in [Nonces -> Nat \cup {Absent}]
           /\ Consumed(t, y, n)[y] = n + Retention
           /\ \A x \in Nonces : x # y => Consumed(t, y, n)[x] = t[x]
  <1>1. n + Retention \in Nat
    BY ReplayAssumption
  <1> QED
    BY <1>1 DEF Consumed

\* A request has the fields that were signed.
LEMMA MessageFields ==
    ASSUME NEW m \in Messages
    PROVE  m.timestamp \in Nat /\ m.nonce \in Nonces
  BY ReplayAssumption

\* An answered admission is idle and keeps its request.
LEMMA AnsweredHandlers ==
    ASSUME TypeOK, NEW h \in Handlers, NEW a \in Answers, Answer(h, a)
    PROVE  /\ handler' \in [Handlers -> Admission]
           /\ \A g \in Handlers : handler'[g].now # Absent
                                     => handler'[g].message \in Messages
  <1>1. handler[h].message \in Messages \cup {NoMessage}
    BY DEF TypeOK, Admission
  <1>2. [message |-> handler[h].message, now |-> Absent, answer |-> a] \in Admission
    BY <1>1 DEF Admission
  <1> QED
    BY <1>2 DEF TypeOK, Answer

\* Type correctness: the guard, the admissions and the history stay in their
\* ranges whatever arrives.
THEOREM TypeCorrect == Spec => []TypeOK
<1>1. Init => TypeOK
  <2> SUFFICES ASSUME Init PROVE TypeOK
    OBVIOUS
  <2>1. Idle \in Admission
    BY DEF Idle, Answers, Admission
  <2>2. handler \in [Handlers -> Admission]
    BY <2>1 DEF Init
  <2>3. \A h \in Handlers : handler[h].now = Absent
    BY DEF Init, Idle
  <2>4. 0 \in Times
    BY ReplayAssumption DEF Times
  <2> QED
    BY <2>2, <2>3, <2>4 DEF Init, TypeOK
<1>2. TypeOK /\ [Next]_vars => TypeOK'
  <2> SUFFICES ASSUME TypeOK, [Next]_vars PROVE TypeOK'
    OBVIOUS
  <2> USE DEF TypeOK
  <2>1. ASSUME NEW h \in Handlers, NEW m \in Messages, ReadClock(h, m)
        PROVE  TypeOK'
    <3>1. [message |-> m, now |-> clock, answer |-> "none"] \in Admission
      BY DEF Admission, Answers
    <3> QED
      BY <2>1, <3>1 DEF ReadClock
  <2>2. ASSUME NEW h \in Handlers, RejectUnauthentic(h)
        PROVE  TypeOK'
    <3>1. Answer(h, "authentication_failed") /\ "authentication_failed" \in Answers
      BY <2>2 DEF RejectUnauthentic, Answers
    <3> QED
      BY <2>2, <3>1, AnsweredHandlers DEF RejectUnauthentic
  <2>3. ASSUME NEW h \in Handlers, CheckAndRecord(h)
        PROVE  TypeOK'
    <3> DEFINE m == handler[h].message
               n == handler[h].now
               t == Purged(nonces, n)
    <3>1. n \in Times /\ n \in Nat /\ m \in Messages /\ m.nonce \in Nonces
      BY <2>3, MessageFields DEF CheckAndRecord, Times, Absent, Admission
    <3>2. t \in [Nonces -> Nat \cup {Absent}]
      BY <3>1, PurgedTable
    <3>3. Consumed(t, m.nonce, n) \in [Nonces -> Nat \cup {Absent}]
      BY <3>1, <3>2, ConsumedTable
    <3>4. nonces' \in [Nonces -> Nat \cup {Absent}]
      BY <2>3, <3>2, <3>3 DEF CheckAndRecord
    <3>5. accepted' \in [Messages -> Nat]
          /\ acceptedAt' \in [Messages -> Times \cup {Absent}]
      BY <2>3, <3>1 DEF CheckAndRecord
    <3>6. /\ handler' \in [Handlers -> Admission]
          /\ \A g \in Handlers : handler'[g].now # Absent
                                    => handler'[g].message \in Messages
      <4>1. PICK a \in Answers : Answer(h, a)
        BY <2>3 DEF CheckAndRecord, Answers
      <4> QED
        BY <4>1, AnsweredHandlers
    <3> QED
      BY <2>3, <3>4, <3>5, <3>6 DEF CheckAndRecord
  <2>4. ASSUME NEW h \in Handlers, PersistenceFailed(h)
        PROVE  TypeOK'
    <3>1. Answer(h, "unavailable") /\ "unavailable" \in Answers
      BY <2>4 DEF PersistenceFailed, Answers
    <3> QED
      BY <2>4, <3>1, AnsweredHandlers DEF PersistenceFailed
  <2>5. CASE Tick
    BY <2>5, ReplayAssumption DEF Tick, Times
  <2>6. CASE UNCHANGED vars
    BY <2>6 DEF vars
  <2> QED
    BY <2>1, <2>2, <2>3, <2>4, <2>5, <2>6 DEF Next
<1> QED
  BY <1>1, <1>2, PTL DEF Spec

\* An admission with a recent clock reading finds the row of a request that was
\* admitted before: the row can only be gone when the timestamp is out of skew.
LEMMA AdmittedIsNotFresh ==
    ASSUME TypeOK, ReplayInv, NEW h \in Handlers, handler[h].now # Absent,
           WithinSkew(handler[h].message, handler[h].now),
           accepted[handler[h].message] > 0
    PROVE  ~Fresh(Purged(nonces, handler[h].now), handler[h].message.nonce)
  <1> DEFINE m == handler[h].message
             n == handler[h].now
             a == acceptedAt[m]
  <1>1. m \in Messages /\ n \in Nat /\ clock \in Nat
    BY ReplayAssumption DEF TypeOK, Times, Absent, Admission
  <1>2. m.timestamp \in Nat /\ m.nonce \in Nonces
    BY <1>1, MessageFields
  <1>3. a \in Nat /\ WithinSkew(m, a)
    BY <1>1 DEF TypeOK, ReplayInv, AcceptedIsGuarded, Times, Absent
  <1>4. n - a <= 2 * Skew
    BY <1>1, <1>2, <1>3, ReplayAssumption DEF WithinSkew
  <1>5. clock <= n + MaxWait
    BY DEF ReplayInv, ReadingsRecent
  <1>6. clock < a + Retention /\ n < a + Retention
    BY <1>1, <1>3, <1>4, <1>5, ReplayAssumption, RetentionCoversSkew
  <1>7. nonces[m.nonce] = a + Retention
    BY <1>1, <1>3, <1>6, ReplayAssumption DEF ReplayInv, AcceptedIsGuarded
  <1>8. Purged(nonces, n)[m.nonce] = a + Retention
    BY <1>2, <1>3, <1>6, <1>7, ReplayAssumption DEF Purged, Retained, Absent
  <1> QED
    BY <1>3, <1>8, ReplayAssumption DEF Fresh, Absent

\* No request is admitted twice by verify_request and consume_replay_nonce: a
\* nonce outlives the skew of its request plus the wait for the locks.
THEOREM AdmittedOnce == Spec => []NoReplay
<1>1. Init => ReplayInv
  <2> SUFFICES ASSUME Init PROVE ReplayInv
    OBVIOUS
  <2> QED
    BY DEF Init, Idle, ReplayInv, ReadingsRecent, AcceptedIsGuarded, NoReplay
<1>2. TypeOK /\ ReplayInv /\ [Next]_vars => ReplayInv'
  <2> SUFFICES ASSUME TypeOK, ReplayInv, [Next]_vars PROVE ReplayInv'
    OBVIOUS
  <2>0. clock \in Nat /\ MaxWait \in Nat /\ Retention \in Nat
    BY ReplayAssumption DEF TypeOK, Times
  <2>1. ASSUME NEW h \in Handlers, NEW m \in Messages, ReadClock(h, m)
        PROVE  ReplayInv'
    <3>1. ReadingsRecent'
      BY <2>0, <2>1 DEF ReadClock, ReplayInv, ReadingsRecent, TypeOK
    <3> QED
      BY <2>1, <3>1 DEF ReadClock, ReplayInv, AcceptedIsGuarded, NoReplay
  <2>2. ASSUME NEW h \in Handlers, UNCHANGED <<nonces, clock, accepted, acceptedAt>>,
               NEW a, Answer(h, a)
        PROVE  ReplayInv'
    <3>1. ReadingsRecent'
      BY <2>2 DEF Answer, ReplayInv, ReadingsRecent, TypeOK
    <3> QED
      BY <2>2, <3>1 DEF ReplayInv, AcceptedIsGuarded, NoReplay
  <2>3. ASSUME NEW h \in Handlers, CheckAndRecord(h)
        PROVE  ReplayInv'
    <3> DEFINE m == handler[h].message
               n == handler[h].now
               t == Purged(nonces, n)
    <3>1. n \in Nat /\ m \in Messages /\ m.nonce \in Nonces /\ n <= clock
      BY <2>3, MessageFields DEF CheckAndRecord, TypeOK, Times, Absent, Admission,
                                 ReplayInv, ReadingsRecent
    <3>2. /\ t \in [Nonces -> Nat \cup {Absent}]
          /\ \A x \in Nonces : \/ t[x] = nonces[x]
                               \/ t[x] = Absent /\ nonces[x] <= n
      <4>1. nonces \in [Nonces -> Nat \cup {Absent}]
        BY DEF TypeOK
      <4> QED
        BY <3>1, <4>1, PurgedTable
    <3>3. ReadingsRecent'
      BY <2>3 DEF CheckAndRecord, Answer, ReplayInv, ReadingsRecent, TypeOK
    <3>4. \A k \in Messages : accepted[k] > 0 =>
             /\ acceptedAt[k] \in Nat
             /\ WithinSkew(k, acceptedAt[k])
             /\ \/ t[k.nonce] = acceptedAt[k] + Retention
                \/ clock >= acceptedAt[k] + Retention
      <4> SUFFICES ASSUME NEW k \in Messages, accepted[k] > 0
                   PROVE  /\ acceptedAt[k] \in Nat
                          /\ WithinSkew(k, acceptedAt[k])
                          /\ \/ t[k.nonce] = acceptedAt[k] + Retention
                             \/ clock >= acceptedAt[k] + Retention
        OBVIOUS
      <4>1. acceptedAt[k] \in Nat /\ WithinSkew(k, acceptedAt[k])
        BY DEF ReplayInv, AcceptedIsGuarded, TypeOK, Times, Absent
      <4>2. k.nonce \in Nonces
        BY MessageFields
      <4>3. \/ nonces[k.nonce] = acceptedAt[k] + Retention
            \/ clock >= acceptedAt[k] + Retention
        BY DEF ReplayInv, AcceptedIsGuarded
      <4> QED
        BY <2>0, <3>1, <3>2, <4>1, <4>2, <4>3
    <3>5. CASE ~Fresh(t, m.nonce)
      <4>1. nonces' = t /\ UNCHANGED <<clock, accepted, acceptedAt>>
        BY <2>3, <3>5 DEF CheckAndRecord
      <4>2. AcceptedIsGuarded'
        BY <3>4, <4>1 DEF AcceptedIsGuarded, Absent
      <4> QED
        BY <3>3, <4>1, <4>2 DEF ReplayInv, NoReplay
    <3>6. CASE Fresh(t, m.nonce)
      <4>1. /\ nonces' = Consumed(t, m.nonce, n)
            /\ accepted' = [accepted EXCEPT ![m] = @ + 1]
            /\ acceptedAt' = [acceptedAt EXCEPT ![m] = n]
            /\ clock' = clock
            /\ WithinSkew(m, n) /\ n # Absent
        BY <2>3, <3>6 DEF CheckAndRecord, Authentic
      <4>2. accepted[m] = 0
        BY <3>1, <3>6, <4>1, AdmittedIsNotFresh DEF TypeOK
      <4>3. NoReplay'
        BY <3>1, <4>1, <4>2 DEF NoReplay, ReplayInv, TypeOK
      <4>4. /\ nonces'[m.nonce] = n + Retention
            /\ \A x \in Nonces : x # m.nonce => nonces'[x] = t[x]
        BY <3>1, <3>2, <4>1, ConsumedTable
      <4>5. t[m.nonce] = Absent
        BY <3>6 DEF Fresh
      <4>6. ASSUME NEW k \in Messages, accepted'[k] > 0
            PROVE  /\ acceptedAt'[k] # Absent
                   /\ WithinSkew(k, acceptedAt'[k])
                   /\ \/ nonces'[k.nonce] = acceptedAt'[k] + Retention
                      \/ clock' >= acceptedAt'[k] + Retention
        <5>1. CASE k = m
          BY <5>1, <3>1, <4>1, <4>4 DEF TypeOK
        <5>2. CASE k # m
          <6>1. accepted[k] > 0 /\ acceptedAt'[k] = acceptedAt[k]
            BY <5>2, <4>1, <4>6 DEF TypeOK
          <6>2. /\ acceptedAt[k] \in Nat
                /\ WithinSkew(k, acceptedAt[k])
                /\ \/ t[k.nonce] = acceptedAt[k] + Retention
                   \/ clock >= acceptedAt[k] + Retention
            BY <3>4, <6>1
          <6>3. k.nonce \in Nonces
            BY MessageFields
          <6>4. CASE k.nonce = m.nonce
            BY <2>0, <4>1, <4>5, <6>1, <6>2, <6>4 DEF Absent
          <6>5. CASE k.nonce # m.nonce
            BY <4>1, <4>4, <6>1, <6>2, <6>3, <6>5 DEF Absent
          <6> QED
            BY <6>4, <6>5
        <5> QED
          BY <5>1, <5>2
      <4>7. AcceptedIsGuarded'
        BY <4>6 DEF AcceptedIsGuarded, WithinSkew
      <4> QED
        BY <3>3, <4>3, <4>7 DEF ReplayInv
    <3> QED
      BY <3>5, <3>6
  <2>4. CASE Tick
    <3>1. clock' = clock + 1 /\ UNCHANGED <<nonces, handler, accepted, acceptedAt>>
      BY <2>4 DEF Tick
    <3>2. ReadingsRecent'
      BY <2>0, <2>4, <3>1 DEF Tick, ReplayInv, ReadingsRecent, TypeOK, Times, Absent, Admission
    <3>3. ASSUME NEW k \in Messages, accepted[k] > 0
          PROVE  /\ acceptedAt[k] # Absent
                 /\ WithinSkew(k, acceptedAt[k])
                 /\ \/ nonces[k.nonce] = acceptedAt[k] + Retention
                    \/ clock + 1 >= acceptedAt[k] + Retention
      <4>1. acceptedAt[k] # Absent /\ acceptedAt[k] \in Nat
        BY <3>3 DEF ReplayInv, AcceptedIsGuarded, TypeOK, Times, Absent
      <4> QED
        BY <2>0, <3>3, <4>1 DEF ReplayInv, AcceptedIsGuarded
    <3>4. AcceptedIsGuarded'
      BY <3>1, <3>3 DEF AcceptedIsGuarded, WithinSkew
    <3> QED
      BY <3>1, <3>2, <3>4 DEF ReplayInv, NoReplay
  <2>5. CASE UNCHANGED vars
    BY <2>5 DEF vars, ReplayInv, ReadingsRecent, AcceptedIsGuarded, NoReplay
  <2>6. ASSUME NEW h \in Handlers, RejectUnauthentic(h)
        PROVE  ReplayInv'
    BY <2>2, <2>6 DEF RejectUnauthentic
  <2>7. ASSUME NEW h \in Handlers, PersistenceFailed(h)
        PROVE  ReplayInv'
    BY <2>2, <2>7 DEF PersistenceFailed
  <2> QED
    BY <2>1, <2>3, <2>4, <2>5, <2>6, <2>7 DEF Next
<1>3. ReplayInv => NoReplay
  BY DEF ReplayInv
<1> QED
  BY <1>1, <1>2, <1>3, TypeCorrect, PTL DEF Spec

\* Only an authentic request that was admitted uses up its nonce, and for no
\* longer than its own retention.
THEOREM OnlyAdmittedConsume == Spec => []NoncesAreEarned
<1>1. Init => NoncesAreEarned
  BY DEF Init, NoncesAreEarned
<1>2. TypeOK /\ NoncesAreEarned /\ [Next]_vars => NoncesAreEarned'
  <2> SUFFICES ASSUME TypeOK, NoncesAreEarned, [Next]_vars PROVE NoncesAreEarned'
    OBVIOUS
  <2>1. CASE UNCHANGED <<nonces, accepted, acceptedAt>>
    BY <2>1 DEF NoncesAreEarned
  <2>2. ASSUME NEW h \in Handlers, CheckAndRecord(h)
        PROVE  NoncesAreEarned'
    <3> DEFINE m == handler[h].message
               n == handler[h].now
               t == Purged(nonces, n)
    <3>1. n \in Nat /\ m \in Messages /\ m.nonce \in Nonces
      BY <2>2, MessageFields DEF CheckAndRecord, TypeOK, Times, Absent, Admission
    <3>2. /\ t \in [Nonces -> Nat \cup {Absent}]
          /\ \A x \in Nonces : t[x] = nonces[x] \/ t[x] = Absent
      <4>1. nonces \in [Nonces -> Nat \cup {Absent}]
        BY DEF TypeOK
      <4> QED
        BY <3>1, <4>1, PurgedTable
    <3>3. CASE ~Fresh(t, m.nonce)
      <4>1. nonces' = t /\ UNCHANGED <<accepted, acceptedAt>>
        BY <2>2, <3>3 DEF CheckAndRecord
      <4> QED
        BY <3>2, <4>1 DEF NoncesAreEarned
    <3>4. CASE Fresh(t, m.nonce)
      <4>1. /\ nonces' = Consumed(t, m.nonce, n)
            /\ accepted' = [accepted EXCEPT ![m] = @ + 1]
            /\ acceptedAt' = [acceptedAt EXCEPT ![m] = n]
            /\ m.signature = "right"
        BY <2>2, <3>4 DEF CheckAndRecord, Authentic
      <4>2. /\ nonces'[m.nonce] = n + Retention
            /\ \A x \in Nonces : x # m.nonce => nonces'[x] = t[x]
        BY <3>1, <3>2, <4>1, ConsumedTable
      <4>3. accepted'[m] > 0 /\ acceptedAt'[m] = n
        BY <3>1, <4>1 DEF TypeOK
      <4>4. \A k \in Messages : k # m => /\ accepted'[k] = accepted[k]
                                         /\ acceptedAt'[k] = acceptedAt[k]
        BY <4>1 DEF TypeOK
      <4>5. ASSUME NEW x \in Nonces, nonces'[x] # Absent
            PROVE  \E k \in Messages : /\ k.nonce = x /\ k.signature = "right"
                                       /\ accepted'[k] > 0
                                       /\ nonces'[x] = acceptedAt'[k] + Retention
        <5>1. CASE x = m.nonce
          BY <3>1, <4>1, <4>2, <4>3, <5>1
        <5>2. CASE x # m.nonce
          <6>1. nonces'[x] = nonces[x] /\ nonces[x] # Absent
            BY <3>2, <4>2, <4>5, <5>2
          <6>2. PICK k \in Messages : /\ k.nonce = x /\ k.signature = "right"
                                      /\ accepted[k] > 0
                                      /\ nonces[x] = acceptedAt[k] + Retention
            BY <6>1 DEF NoncesAreEarned
          <6> QED
            BY <4>4, <5>2, <6>1, <6>2
        <5> QED
          BY <5>1, <5>2
      <4> QED
        BY <4>5 DEF NoncesAreEarned
    <3> QED
      BY <3>3, <3>4
  <2> QED
    BY <2>1, <2>2 DEF Next, vars, ReadClock, RejectUnauthentic, PersistenceFailed, Tick
<1> QED
  BY <1>1, <1>2, TypeCorrect, PTL DEF Spec
=============================================================================
