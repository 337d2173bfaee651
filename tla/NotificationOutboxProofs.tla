----------------------- MODULE NotificationOutboxProofs -----------------------
(***************************************************************************)
(* Proofs about NotificationOutbox, for every set of keys, contents and    *)
(* workers and every value of the bounds.                                  *)
(***************************************************************************)
EXTENDS NotificationOutbox, TLAPS

(* What one step may do to the table: every action is one of these four    *)
(* kinds of change, which is all the proofs below need to know of it.      *)

LEMMA NoRowType == NoRow \in Row
  BY DEF NoRow, Row, Status, ErrorCode, NoTime

LEMMA CandidatesEligible ==
    \A n : Candidates(n) \subseteq Ids /\ \A i \in Candidates(n) : Eligible(i, n)
  BY DEF Candidates

LEMMA ClaimedType ==
    ASSUME NEW row \in Row, NEW n \in Times
    PROVE  /\ Claimed(row, n) \in Row
           /\ Claimed(row, n).gen = row.gen
           /\ Claimed(row, n).attempts = row.attempts + 1
           /\ Claimed(row, n).status = "delivering"
           /\ Claimed(row, n).leaseUntil # NoTime
           /\ Claimed(row, n).sentAt = NoTime
           /\ Claimed(row, n).errorCode = "none"
  <1>1. n + LeaseDuration \in Nat
    BY OutboxAssumption DEF Times
  <1>2. Claimed(row, n) \in Row
    <2>1. row.attempts + 1 \in Nat
      BY DEF Row
    <2> QED
      BY <1>1, <2>1 DEF Claimed, Row, Status, ErrorCode
  <1>3. /\ Claimed(row, n).gen = row.gen
        /\ Claimed(row, n).attempts = row.attempts + 1
        /\ Claimed(row, n).status = "delivering"
    BY DEF Claimed, Row
  <1>4. Claimed(row, n).leaseUntil = n + LeaseDuration
    BY DEF Claimed, Row
  <1>5. /\ Claimed(row, n).sentAt = NoTime
        /\ Claimed(row, n).errorCode = "none"
    BY DEF Claimed, Row
  <1> QED
    BY <1>1, <1>2, <1>3, <1>4, <1>5 DEF NoTime

-----------------------------------------------------------------------------
(* Type correctness.                                                       *)

\* The initial state is well typed.
LEMMA InitTypeOK == Init => TypeOK
  BY OutboxAssumption, NoRowType DEF Init, TypeOK, Times, Claim

\* Every store call, worker step, crash and clock tick keeps the types.
LEMMA NextTypeOK == TypeOK /\ [Next]_vars => TypeOK'
  <1> SUFFICES ASSUME TypeOK, [Next]_vars PROVE TypeOK'
    OBVIOUS
  <1> USE OutboxAssumption
  <1>1. ASSUME NEW k \in Keys, NEW content \in Contents, NEW at \in Times,
               EnqueueNotification(k, content, at)
        PROVE  TypeOK'
    <2>1. NewRow(k, content, at) \in Row
      BY <1>1 DEF TypeOK, NewRow, Row, Status, ErrorCode, NoTime
    <2> QED
      BY <1>1, <2>1 DEF TypeOK, EnqueueNotification
  <1>2. ASSUME NEW i \in Ids, DeleteNotification(i) PROVE TypeOK'
    BY <1>2, NoRowType DEF TypeOK, DeleteNotification
  <1>3. ASSUME NEW w \in Workers, NEW n \in Times, ClaimNotifications(w, n)
        PROVE  TypeOK'
    <2>1. outbox' \in [Ids -> Row]
      BY <1>3, ClaimedType DEF TypeOK, ClaimNotifications
    <2>2. \A i \in Candidates(n) :
             [id |-> i, gen |-> outbox[i].gen,
              attempt |-> outbox[i].attempts + 1] \in Claim
      BY CandidatesEligible DEF TypeOK, Claim, Row
    <2> QED
      BY <1>3, <2>1, <2>2 DEF TypeOK, ClaimNotifications
  <1>4. ASSUME NEW w \in Workers, NEW c \in claims[w], Deliver(w, c) PROVE TypeOK'
    <2>1. c \in Claim
      BY <1>4 DEF TypeOK
    <2> QED
      BY <1>4, <2>1 DEF TypeOK, Deliver, Claim
  <1>5. ASSUME NEW w \in Workers, NEW c \in claims[w], MarkNotificationSent(w, c)
        PROVE  TypeOK'
    <2>1. c.id \in Ids /\ outbox[c.id] \in Row
      BY <1>5 DEF TypeOK, Claim
    <2>2. [outbox[c.id] EXCEPT !.status = "sent", !.leaseUntil = NoTime,
                               !.sentAt = now, !.errorCode = "none"] \in Row
      BY <2>1 DEF TypeOK, Row, Status, ErrorCode
    <2>3. outbox' \in [Ids -> Row]
      BY <1>5, <2>1, <2>2 DEF TypeOK, MarkNotificationSent
    <2>4. claims' \in [Workers -> SUBSET Claim]
      BY <1>5 DEF TypeOK, MarkNotificationSent
    <2> QED
      BY <1>5, <2>3, <2>4 DEF TypeOK, MarkNotificationSent
  <1>6. ASSUME NEW w \in Workers, NEW c \in claims[w], NEW at \in Times,
               RescheduleNotification(w, c, at)
        PROVE  TypeOK'
    <2>1. c.id \in Ids /\ outbox[c.id] \in Row
      BY <1>6 DEF TypeOK, Claim
    <2>2. [outbox[c.id] EXCEPT !.status = "pending", !.availableAt = at,
                               !.leaseUntil = NoTime, !.sentAt = NoTime,
                               !.errorCode = "failed"] \in Row
      BY <2>1 DEF Row, Status, ErrorCode
    <2>3. outbox' \in [Ids -> Row]
      BY <1>6, <2>1, <2>2 DEF TypeOK, RescheduleNotification
    <2>4. claims' \in [Workers -> SUBSET Claim]
      BY <1>6 DEF TypeOK, RescheduleNotification
    <2> QED
      BY <1>6, <2>3, <2>4 DEF TypeOK, RescheduleNotification
  <1>7. ASSUME NEW w \in Workers, NEW c \in claims[w], CompletionRefused(w, c)
        PROVE  TypeOK'
    BY <1>7 DEF TypeOK, CompletionRefused
  <1>8. ASSUME NEW w \in Workers, WorkerCrash(w) PROVE TypeOK'
    BY <1>8 DEF TypeOK, WorkerCrash
  <1>9. ASSUME Tick PROVE TypeOK'
    BY <1>9 DEF TypeOK, Tick, Times
  <1>10. ASSUME UNCHANGED vars PROVE TypeOK'
    BY <1>10 DEF TypeOK, vars
  <1> QED
    BY <1>1, <1>2, <1>3, <1>4, <1>5, <1>6, <1>7, <1>8, <1>9, <1>10
    DEF Next, WorkerStep

\* The table, the claims and the counters always have their types.
THEOREM TypeCorrect == Spec => []TypeOK
  BY InitTypeOK, NextTypeOK, PTL DEF Spec

-----------------------------------------------------------------------------
(* Exclusive attempts.                                                     *)

LEMMA InitExclusion == Init => ExclusionInv
  BY OutboxAssumption
  DEF Init, ExclusionInv, RowsNumbered, ClaimsCounted, AttemptExclusive,
      Present, NoRow

\* A step that leaves the row numbers, their presence and attempts alone and
\* adds no claim cannot break exclusivity.
LEMMA NoNewClaim ==
    ASSUME TypeOK, ExclusionInv,
           inserted' = inserted,
           \A w \in Workers : claims'[w] \subseteq claims[w],
           \A i \in Ids : /\ outbox'[i].gen = outbox[i].gen
                          /\ outbox'[i].attempts = outbox[i].attempts
                          /\ Present(i)' <=> Present(i)
    PROVE  ExclusionInv'
  <1>1. RowsNumbered'
    BY DEF ExclusionInv, RowsNumbered
  <1>2. ClaimsCounted'
    BY DEF ExclusionInv, ClaimsCounted
  <1>3. AttemptExclusive'
    BY DEF ExclusionInv, AttemptExclusive
  <1> QED
    BY <1>1, <1>2, <1>3 DEF ExclusionInv

LEMMA EnqueueExclusion ==
    ASSUME TypeOK, ExclusionInv, NEW k \in Keys, NEW content \in Contents,
           NEW at \in Times, EnqueueNotification(k, content, at)
    PROVE  ExclusionInv'
  <1>1. PICK i \in Ids : /\ NextId(i)
                         /\ outbox' = [outbox EXCEPT ![i] = NewRow(k, content, at)]
    BY DEF EnqueueNotification
  <1>2. /\ outbox'[i] = NewRow(k, content, at)
        /\ \A j \in Ids \ {i} : outbox'[j] = outbox[j]
        /\ outbox'[i].gen = inserted + 1 /\ outbox'[i].status = "pending"
        /\ inserted' = inserted + 1 /\ claims' = claims
        /\ inserted \in Nat
    BY <1>1 DEF TypeOK, EnqueueNotification, NewRow
  <1>3. \A j \in Ids : outbox[j].gen \in Nat /\ outbox[j].attempts \in Nat
    BY DEF TypeOK, Row
  <1>4. RowsNumbered'
    BY <1>2, <1>3 DEF ExclusionInv, RowsNumbered, Present
  <1>5. \A w \in Workers : \A c \in claims[w] : c.gen \in Nat
    BY DEF TypeOK, Claim
  <1>6. ClaimsCounted'
    BY <1>2, <1>3, <1>5 DEF ExclusionInv, ClaimsCounted
  <1>7. AttemptExclusive'
    BY <1>2 DEF ExclusionInv, AttemptExclusive
  <1> QED
    BY <1>4, <1>6, <1>7 DEF ExclusionInv

LEMMA DeleteExclusion ==
    ASSUME TypeOK, ExclusionInv, NEW i \in Ids, DeleteNotification(i)
    PROVE  ExclusionInv'
  <1>1. /\ outbox'[i] = NoRow
        /\ \A j \in Ids \ {i} : outbox'[j] = outbox[j]
        /\ inserted' = inserted /\ claims' = claims /\ inserted \in Nat
    BY DEF TypeOK, DeleteNotification
  <1>2. NoRow.gen = 0 /\ NoRow.status = "absent"
    BY DEF NoRow
  <1>3. RowsNumbered'
    BY <1>1, <1>2 DEF ExclusionInv, RowsNumbered, Present
  <1>4. ClaimsCounted'
    <2>1. \A w \in Workers : \A c \in claims[w] : c.gen > 0 /\ c.gen \in Nat
      BY DEF ExclusionInv, ClaimsCounted, TypeOK, Claim
    <2> QED
      BY <1>1, <1>2, <2>1 DEF ExclusionInv, ClaimsCounted
  <1>5. AttemptExclusive'
    BY <1>1 DEF ExclusionInv, AttemptExclusive
  <1> QED
    BY <1>3, <1>4, <1>5 DEF ExclusionInv

LEMMA ClaimExclusion ==
    ASSUME TypeOK, ExclusionInv, NEW w \in Workers, NEW n \in Times,
           ClaimNotifications(w, n)
    PROVE  ExclusionInv'
  <1> DEFINE C == Candidates(n)
  <1>1. /\ C \subseteq Ids
        /\ \A i \in C : outbox'[i] = Claimed(outbox[i], n)
        /\ \A i \in Ids \ C : outbox'[i] = outbox[i]
        /\ inserted' = inserted
    BY CandidatesEligible DEF ClaimNotifications
  <1>2. \A i \in C : /\ outbox'[i].gen = outbox[i].gen
                     /\ outbox'[i].attempts = outbox[i].attempts + 1
                     /\ outbox'[i].status = "delivering"
    BY <1>1, ClaimedType DEF TypeOK
  <1>3. \A i \in Ids : outbox[i].gen \in Nat /\ outbox[i].attempts \in Nat
    BY DEF TypeOK, Row
  <1>4. \A i \in C : Present(i) /\ Present(i)'
    BY <1>1, <1>2, CandidatesEligible DEF Eligible, Present
  <1>5. \A i \in Ids : /\ outbox'[i].gen = outbox[i].gen
                       /\ outbox'[i].attempts >= outbox[i].attempts
                       /\ Present(i)' <=> Present(i)
    BY <1>1, <1>2, <1>3, <1>4 DEF Present
  <1>6. /\ claims[w] = {}
        /\ claims'[w] = {[id |-> i, gen |-> outbox[i].gen,
                          attempt |-> outbox[i].attempts + 1] : i \in C}
        /\ \A v \in Workers \ {w} : claims'[v] = claims[v]
    BY DEF TypeOK, ClaimNotifications
  <1>7. \A c \in claims'[w] : \E i \in C : /\ c.gen = outbox[i].gen
                                           /\ c.attempt = outbox[i].attempts + 1
    BY <1>6
  <1>8. RowsNumbered'
    BY <1>1, <1>5 DEF ExclusionInv, RowsNumbered
  <1>9. ClaimsCounted'
    <2> SUFFICES ASSUME NEW v \in Workers, NEW c \in claims'[v]
                 PROVE  /\ c.gen > 0 /\ c.gen <= inserted'
                        /\ \A i \in Ids : outbox'[i].gen = c.gen
                                             => c.attempt <= outbox'[i].attempts
      BY DEF ClaimsCounted
    <2>1. CASE v = w
      <3>1. PICK i \in C : /\ c.gen = outbox[i].gen
                           /\ c.attempt = outbox[i].attempts + 1
        BY <1>7, <2>1
      <3>2. /\ c.gen > 0 /\ c.gen <= inserted
            /\ \A j \in Ids : outbox[j].gen = c.gen => j = i
        BY <1>1, <1>4, <3>1 DEF ExclusionInv, RowsNumbered
      <3>3. outbox'[i].attempts = c.attempt /\ c.attempt \in Nat
        BY <1>1, <1>2, <1>3, <3>1
      <3>4. \A j \in Ids : outbox'[j].gen = c.gen => c.attempt <= outbox'[j].attempts
        BY <1>1, <1>5, <3>2, <3>3
      <3> QED
        BY <1>1, <3>2, <3>4
    <2>2. CASE v # w
      <3>1. c \in claims[v] /\ c.attempt \in Nat
        BY <1>6, <2>2 DEF TypeOK, Claim
      <3>2. /\ c.gen > 0 /\ c.gen <= inserted
            /\ \A i \in Ids : outbox[i].gen = c.gen => c.attempt <= outbox[i].attempts
        BY <3>1 DEF ExclusionInv, ClaimsCounted
      <3>3. \A i \in Ids : outbox'[i].attempts \in Nat
        BY <1>1, <1>2, <1>3
      <3> QED
        BY <1>1, <1>3, <1>5, <3>1, <3>2, <3>3
    <2> QED
      BY <2>1, <2>2
  <1>10. AttemptExclusive'
    <2>1. \A v \in Workers \ {w} : \A c \in claims[v], d \in claims'[w] :
             c.gen = d.gen => c.attempt # d.attempt
      <3> SUFFICES ASSUME NEW v \in Workers \ {w}, NEW c \in claims[v],
                          NEW d \in claims'[w], c.gen = d.gen
                   PROVE  c.attempt # d.attempt
        OBVIOUS
      <3>1. PICK i \in C : /\ d.gen = outbox[i].gen
                           /\ d.attempt = outbox[i].attempts + 1
        BY <1>7
      <3>2. c.attempt <= outbox[i].attempts /\ c.attempt \in Nat
        BY <1>1, <3>1 DEF ExclusionInv, ClaimsCounted, TypeOK, Claim
      <3> QED
        BY <1>1, <1>3, <3>1, <3>2
    <2> QED
      BY <1>6, <2>1 DEF ExclusionInv, AttemptExclusive
  <1> QED
    BY <1>8, <1>9, <1>10 DEF ExclusionInv

LEMMA NextExclusion == TypeOK /\ ExclusionInv /\ [Next]_vars => ExclusionInv'
  <1> SUFFICES ASSUME TypeOK, ExclusionInv, [Next]_vars PROVE ExclusionInv'
    OBVIOUS
  <1>1. ASSUME NEW w \in Workers, NEW c \in claims[w], MarkNotificationSent(w, c)
        PROVE  ExclusionInv'
    <2>1. c.id \in Ids /\ outbox[c.id] \in Row
      BY <1>1 DEF TypeOK, Claim
    <2>2. \A v \in Workers : claims'[v] \subseteq claims[v]
      BY <1>1 DEF MarkNotificationSent, TypeOK
    <2>3. /\ outbox'[c.id].gen = outbox[c.id].gen
          /\ outbox'[c.id].attempts = outbox[c.id].attempts
          /\ outbox'[c.id].status = "sent" /\ outbox[c.id].status = "delivering"
      BY <1>1, <2>1 DEF MarkNotificationSent, OwnsAttempt, TypeOK, Row
    <2>4. \A i \in Ids \ {c.id} : outbox'[i] = outbox[i]
      BY <1>1 DEF MarkNotificationSent, TypeOK
    <2> QED
      BY <1>1, <2>2, <2>3, <2>4, NoNewClaim DEF Present, MarkNotificationSent
  <1>2. ASSUME NEW w \in Workers, NEW c \in claims[w], NEW at \in Times,
               RescheduleNotification(w, c, at)
        PROVE  ExclusionInv'
    <2>1. c.id \in Ids /\ outbox[c.id] \in Row
      BY <1>2 DEF TypeOK, Claim
    <2>2. \A v \in Workers : claims'[v] \subseteq claims[v]
      BY <1>2 DEF RescheduleNotification, TypeOK
    <2>3. /\ outbox'[c.id].gen = outbox[c.id].gen
          /\ outbox'[c.id].attempts = outbox[c.id].attempts
          /\ outbox'[c.id].status = "pending" /\ outbox[c.id].status = "delivering"
      BY <1>2, <2>1 DEF RescheduleNotification, OwnsAttempt, TypeOK, Row
    <2>4. \A i \in Ids \ {c.id} : outbox'[i] = outbox[i]
      BY <1>2 DEF RescheduleNotification, TypeOK
    <2> QED
      BY <1>2, <2>2, <2>3, <2>4, NoNewClaim DEF Present, RescheduleNotification
  <1>3. ASSUME NEW w \in Workers, NEW c \in claims[w], CompletionRefused(w, c)
        PROVE  ExclusionInv'
    BY <1>3, NoNewClaim DEF CompletionRefused, TypeOK, Present
  <1>4. ASSUME NEW w \in Workers, WorkerCrash(w) PROVE ExclusionInv'
    BY <1>4, NoNewClaim DEF WorkerCrash, TypeOK, Present
  <1>5. ASSUME NEW w \in Workers, NEW c \in claims[w], Deliver(w, c)
        PROVE  ExclusionInv'
    BY <1>5, NoNewClaim DEF Deliver, Present
  <1>6. ASSUME Tick PROVE ExclusionInv'
    BY <1>6, NoNewClaim DEF Tick, Present
  <1>7. ASSUME UNCHANGED vars PROVE ExclusionInv'
    BY <1>7, NoNewClaim DEF vars, Present
  <1> QED
    BY <1>1, <1>2, <1>3, <1>4, <1>5, <1>6, <1>7,
       EnqueueExclusion, DeleteExclusion, ClaimExclusion
    DEF Next, WorkerStep

\* No delivery attempt is ever claimed by two workers: claim_notifications
\* hands out fresh attempts for any number of workers, any lease, any clock
\* staleness, and whatever rows are deleted and re-inserted meanwhile.
THEOREM ExclusiveAttempts == Spec => []AttemptExclusive
  <1>1. Init => TypeOK /\ ExclusionInv
    BY InitTypeOK, InitExclusion
  <1>2. TypeOK /\ ExclusionInv /\ [Next]_vars => TypeOK' /\ ExclusionInv'
    BY NextTypeOK, NextExclusion
  <1>3. ExclusionInv => AttemptExclusive
    BY DEF ExclusionInv
  <1> QED
    BY <1>1, <1>2, <1>3, PTL DEF Spec

-----------------------------------------------------------------------------
(* The decoder and the finality of sent rows.                              *)

LEMMA NextDecodable == TypeOK /\ RowsDecodable /\ [Next]_vars => RowsDecodable'
  <1> SUFFICES ASSUME TypeOK, RowsDecodable, [Next]_vars PROVE RowsDecodable'
    OBVIOUS
  <1> USE DEF RowsDecodable, Present
  <1>1. ASSUME NEW k \in Keys, NEW content \in Contents, NEW at \in Times,
               EnqueueNotification(k, content, at)
        PROVE  RowsDecodable'
    <2>1. Decodable(NewRow(k, content, at))
      BY DEF Decodable, NewRow
    <2> QED
      BY <1>1, <2>1 DEF EnqueueNotification, TypeOK
  <1>2. ASSUME NEW i \in Ids, DeleteNotification(i) PROVE RowsDecodable'
    BY <1>2 DEF DeleteNotification, TypeOK, NoRow
  <1>3. ASSUME NEW w \in Workers, NEW n \in Times, ClaimNotifications(w, n)
        PROVE  RowsDecodable'
    <2>1. \A i \in Ids : Decodable(Claimed(outbox[i], n))
      <3> SUFFICES ASSUME NEW i \in Ids PROVE Decodable(Claimed(outbox[i], n))
        OBVIOUS
      <3>1. outbox[i] \in Row /\ outbox[i].attempts \in Nat
        BY DEF TypeOK, Row
      <3> QED
        BY <3>1, ClaimedType DEF Decodable
    <2> QED
      BY <1>3, <2>1 DEF ClaimNotifications, TypeOK
  <1>4. ASSUME NEW w \in Workers, NEW c \in claims[w], MarkNotificationSent(w, c)
        PROVE  RowsDecodable'
    <2>1. c.id \in Ids /\ outbox[c.id] \in Row /\ now # NoTime
      BY <1>4 DEF TypeOK, Claim, Times, NoTime
    <2>2. outbox[c.id].attempts > 0
      BY <1>4, <2>1 DEF MarkNotificationSent, OwnsAttempt, Decodable
    <2>3. Decodable(outbox'[c.id])
      BY <1>4, <2>1, <2>2 DEF MarkNotificationSent, TypeOK, Decodable, Row
    <2> QED
      BY <1>4, <2>3 DEF MarkNotificationSent, TypeOK
  <1>5. ASSUME NEW w \in Workers, NEW c \in claims[w], NEW at \in Times,
               RescheduleNotification(w, c, at)
        PROVE  RowsDecodable'
    <2>1. c.id \in Ids /\ outbox[c.id] \in Row
      BY <1>5 DEF TypeOK, Claim
    <2>2. Decodable(outbox'[c.id])
      BY <1>5, <2>1 DEF RescheduleNotification, TypeOK, Decodable, Row
    <2> QED
      BY <1>5, <2>2 DEF RescheduleNotification, TypeOK
  <1>6. ASSUME UNCHANGED outbox PROVE RowsDecodable'
    BY <1>6
  <1> QED
    BY <1>1, <1>2, <1>3, <1>4, <1>5, <1>6
    DEF Next, WorkerStep, Deliver, CompletionRefused, WorkerCrash,
        Tick, vars

\* Every row the store's own calls can produce is accepted by
\* decode_notification_row, so no call ever makes a notification unreadable.
THEOREM DecodableRows == Spec => []RowsDecodable
  <1>1. Init => RowsDecodable
    BY DEF Init, RowsDecodable, Present, NoRow
  <1> QED
    BY <1>1, InitTypeOK, NextTypeOK, NextDecodable, PTL DEF Spec

\* A sent row never changes again except by being deleted: late completions,
\* releases and claims of other workers bounce off it.
THEOREM SentFinal == Spec => SentIsFinal
  <1> DEFINE Final == \A i \in Ids : outbox[i].status = "sent"
                                        => outbox'[i] \in {outbox[i], NoRow}
  <1>1. TypeOK /\ [Next]_vars => Final
    <2> SUFFICES ASSUME TypeOK, [Next]_vars, NEW i \in Ids,
                        outbox[i].status = "sent"
                 PROVE  outbox'[i] \in {outbox[i], NoRow}
      OBVIOUS
    <2>1. ASSUME NEW k \in Keys, NEW content \in Contents, NEW at \in Times,
                 EnqueueNotification(k, content, at)
          PROVE  outbox'[i] = outbox[i]
      <3>1. ~NextId(i)
        BY DEF NextId, Present, Ids
      <3> QED
        BY <2>1, <3>1 DEF EnqueueNotification, TypeOK
    <2>2. ASSUME NEW j \in Ids, DeleteNotification(j)
          PROVE  outbox'[i] \in {outbox[i], NoRow}
      BY <2>2 DEF DeleteNotification, TypeOK
    <2>3. ASSUME NEW w \in Workers, NEW n \in Times, ClaimNotifications(w, n)
          PROVE  outbox'[i] = outbox[i]
      BY <2>3, CandidatesEligible DEF ClaimNotifications, Eligible
    <2>4. ASSUME NEW w \in Workers, NEW c \in claims[w], MarkNotificationSent(w, c)
          PROVE  outbox'[i] = outbox[i]
      BY <2>4 DEF MarkNotificationSent, OwnsAttempt, TypeOK
    <2>5. ASSUME NEW w \in Workers, NEW c \in claims[w], NEW at \in Times,
                 RescheduleNotification(w, c, at)
          PROVE  outbox'[i] = outbox[i]
      BY <2>5 DEF RescheduleNotification, OwnsAttempt, TypeOK
    <2> QED
      BY <2>1, <2>2, <2>3, <2>4, <2>5
      DEF Next, WorkerStep, Deliver, CompletionRefused, WorkerCrash,
          Tick, vars
  <1>2. TypeOK /\ [Next]_vars => [Final]_vars
    BY <1>1
  <1>3. [Final]_vars <=> [\A i \in Ids : outbox[i].status = "sent"
                             => outbox'[i] \in {outbox[i], NoRow}]_vars
    OBVIOUS
  <1> QED
    BY <1>2, TypeCorrect, PTL DEF Spec, SentIsFinal

-----------------------------------------------------------------------------
(* Leases, and the deliveries behind sent rows.                            *)

\* While a worker's lease runs, claim_notifications hands its row to nobody,
\* whatever `now` the other worker read before it waited for the write lock.
THEOREM LeasesHold == Spec => LeaseRespected
  <1> DEFINE Respected == \A i \in Ids :
                /\ outbox[i].status = "delivering"
                /\ now < outbox[i].leaseUntil
                /\ outbox'[i].gen = outbox[i].gen
                => outbox'[i].attempts = outbox[i].attempts
  <1>1. TypeOK /\ ExclusionInv /\ RowsDecodable /\ [Next]_vars => Respected
    <2> SUFFICES ASSUME TypeOK, ExclusionInv, RowsDecodable, [Next]_vars, NEW i \in Ids,
                        outbox[i].status = "delivering", now < outbox[i].leaseUntil,
                        outbox'[i].gen = outbox[i].gen
                 PROVE  outbox'[i].attempts = outbox[i].attempts
      OBVIOUS
    <2>1. ASSUME NEW k \in Keys, NEW content \in Contents, NEW at \in Times,
                 EnqueueNotification(k, content, at)
          PROVE  outbox'[i] = outbox[i]
      <3>1. ~NextId(i)
        BY DEF NextId, Present, Ids
      <3> QED
        BY <2>1, <3>1 DEF EnqueueNotification, TypeOK
    <2>2. ASSUME NEW j \in Ids, DeleteNotification(j)
          PROVE  outbox'[i] = outbox[i]
      <3>1. outbox[i].gen > 0
        BY DEF ExclusionInv, RowsNumbered, Present
      <3>2. j # i
        BY <2>2, <3>1 DEF DeleteNotification, TypeOK, NoRow
      <3> QED
        BY <2>2, <3>2 DEF DeleteNotification, TypeOK
    <2>3. ASSUME NEW w \in Workers, NEW n \in Times, n <= now, ClaimNotifications(w, n)
          PROVE  outbox'[i] = outbox[i]
      <3>1. outbox[i].leaseUntil \in Nat /\ now \in Nat /\ n \in Nat
        <4>1. outbox[i].leaseUntil \in Nat \cup {NoTime} /\ outbox[i].leaseUntil # NoTime
          BY DEF TypeOK, Row, RowsDecodable, Present, Decodable
        <4> QED
          BY <4>1 DEF TypeOK, Times
      <3>2. ~Eligible(i, n)
        BY <2>3, <3>1 DEF Eligible
      <3>3. i \notin Candidates(n)
        BY <3>2, CandidatesEligible
      <3> QED
        BY <2>3, <3>3 DEF ClaimNotifications, TypeOK
    <2>4. ASSUME NEW w \in Workers, NEW c \in claims[w], MarkNotificationSent(w, c)
          PROVE  outbox'[i].attempts = outbox[i].attempts
      <3>1. c.id \in Ids /\ outbox[c.id] \in Row
        BY <2>4 DEF TypeOK, Claim
      <3>2. outbox'[c.id].attempts = outbox[c.id].attempts
        BY <2>4, <3>1 DEF MarkNotificationSent, TypeOK, Row
      <3>3. \A j \in Ids \ {c.id} : outbox'[j] = outbox[j]
        BY <2>4 DEF MarkNotificationSent, TypeOK
      <3> QED
        BY <3>2, <3>3
    <2>5. ASSUME NEW w \in Workers, NEW c \in claims[w], NEW at \in Times,
                 RescheduleNotification(w, c, at)
          PROVE  outbox'[i].attempts = outbox[i].attempts
      <3>1. c.id \in Ids /\ outbox[c.id] \in Row
        BY <2>5 DEF TypeOK, Claim
      <3>2. outbox'[c.id].attempts = outbox[c.id].attempts
        BY <2>5, <3>1 DEF RescheduleNotification, TypeOK, Row
      <3>3. \A j \in Ids \ {c.id} : outbox'[j] = outbox[j]
        BY <2>5 DEF RescheduleNotification, TypeOK
      <3> QED
        BY <3>2, <3>3
    <2>6. CASE UNCHANGED outbox
      BY <2>6
    <2> QED
      BY <2>1, <2>2, <2>3, <2>4, <2>5, <2>6
      DEF Next, WorkerStep, Deliver, CompletionRefused, WorkerCrash, Tick, vars
  <1>2. Spec => [](TypeOK /\ ExclusionInv /\ RowsDecodable)
    <2>1. Init => TypeOK /\ ExclusionInv /\ RowsDecodable
      BY InitTypeOK, InitExclusion DEF Init, RowsDecodable, Present, NoRow
    <2> QED
      BY <2>1, NextTypeOK, NextExclusion, NextDecodable, PTL DEF Spec
  <1> QED
    BY <1>1, <1>2, PTL DEF Spec, LeaseRespected

\* SQLite gives the row inserted as the n-th an id of at most n, and a claim on
\* an id is never newer than the row that has it.
IdsClimb ==
    /\ \A i \in Ids : Present(i) => i <= outbox[i].gen
    /\ \A w \in Workers : \A c \in claims[w] :
          /\ c.id <= c.gen
          /\ Present(c.id) => c.gen <= outbox[c.id].gen

FirstUseInv == IdsClimb /\ FirstUseSentWasDelivered

LEMMA FewerClaimsFirstUse ==
    ASSUME TypeOK, ExclusionInv, FirstUseInv,
           \A w \in Workers : claims'[w] \subseteq claims[w],
           sends \subseteq sends', UNCHANGED outbox
    PROVE  FirstUseInv'
BY DEF FirstUseInv, IdsClimb, FirstUseSentWasDelivered, Present

LEMMA EnqueueFirstUse ==
    ASSUME TypeOK, ExclusionInv, FirstUseInv, NEW k \in Keys, NEW content \in Contents,
           NEW at \in Times, EnqueueNotification(k, content, at)
    PROVE  FirstUseInv'
  <1> DEFINE row == NewRow(k, content, at)
  <1>1. PICK i \in Ids : NextId(i) /\ outbox' = [outbox EXCEPT ![i] = row]
    BY DEF EnqueueNotification
  <1>2. UNCHANGED <<claims, sends>> /\ inserted \in Nat
    BY DEF EnqueueNotification, TypeOK
  <1>3. row.gen = inserted + 1 /\ row.status = "pending"
    BY DEF NewRow
  <1> HIDE DEF row
  <1>4. \A j \in Ids : outbox'[j] = IF j = i THEN row ELSE outbox[j]
    BY <1>1 DEF TypeOK
  <1>5. i <= inserted + 1
    <2>1. CASE i = 1
      BY <1>2, <2>1
    <2>2. CASE i # 1
      <3>1. i - 1 \in Ids /\ Present(i - 1)
        BY <1>1, <2>2 DEF NextId
      <3>2. i - 1 <= outbox[i - 1].gen /\ outbox[i - 1].gen <= inserted
        BY <3>1 DEF FirstUseInv, IdsClimb, ExclusionInv, RowsNumbered
      <3>3. outbox[i - 1].gen \in Nat /\ i \in Nat
        BY <3>1 DEF TypeOK, Row, Ids
      <3> QED
        BY <1>2, <3>2, <3>3
    <2> QED
      BY <2>1, <2>2
  <1>6. \A j \in Ids : Present(j)' => j <= outbox'[j].gen
    BY <1>3, <1>4, <1>5 DEF Present, FirstUseInv, IdsClimb
  <1>7. ASSUME NEW w \in Workers, NEW c \in claims[w]
        PROVE  c.id <= c.gen /\ (Present(c.id)' => c.gen <= outbox'[c.id].gen)
    <2>1. c.id \in Ids /\ c.gen \in Nat /\ c.id <= c.gen /\ c.gen <= inserted
      BY DEF TypeOK, Claim, FirstUseInv, IdsClimb, ExclusionInv, ClaimsCounted
    <2>2. CASE c.id = i
      BY <1>2, <1>3, <1>4, <2>1, <2>2
    <2>3. CASE c.id # i
      BY <1>4, <2>1, <2>3 DEF Present, FirstUseInv, IdsClimb
    <2> QED
      BY <2>1, <2>2, <2>3
  <1>8. IdsClimb'
    BY <1>2, <1>6, <1>7 DEF IdsClimb
  <1>9. FirstUseSentWasDelivered'
    BY <1>2, <1>3, <1>4 DEF FirstUseInv, FirstUseSentWasDelivered
  <1> QED
    BY <1>8, <1>9 DEF FirstUseInv

LEMMA DeleteFirstUse ==
    ASSUME TypeOK, FirstUseInv, NEW i \in Ids, DeleteNotification(i)
    PROVE  FirstUseInv'
  <1>1. UNCHANGED <<claims, sends>>
        /\ \A j \in Ids : outbox'[j] = IF j = i THEN NoRow ELSE outbox[j]
    BY DEF DeleteNotification, TypeOK
  <1>2. NoRow.status = "absent"
    BY DEF NoRow
  <1>3. IdsClimb'
    <2>1. \A w \in Workers : \A c \in claims[w] : c.id \in Ids
      BY DEF TypeOK, Claim
    <2> QED
      BY <1>1, <1>2, <2>1 DEF FirstUseInv, IdsClimb, Present
  <1>4. FirstUseSentWasDelivered'
    BY <1>1, <1>2 DEF FirstUseInv, FirstUseSentWasDelivered
  <1> QED
    BY <1>3, <1>4 DEF FirstUseInv

LEMMA ClaimFirstUse ==
    ASSUME TypeOK, ExclusionInv, FirstUseInv, NEW w \in Workers, NEW n \in Times,
           ClaimNotifications(w, n)
    PROVE  FirstUseInv'
  <1>1. \A i \in Ids :
           /\ outbox'[i].gen = outbox[i].gen
           /\ outbox'[i].status # "absent" => Present(i)
           /\ outbox'[i].status = "sent" =>
                 /\ outbox[i].status = "sent"
                 /\ outbox'[i].attempts = outbox[i].attempts
    <2> SUFFICES ASSUME NEW i \in Ids
                 PROVE  /\ outbox'[i].gen = outbox[i].gen
                        /\ outbox'[i].status # "absent" => Present(i)
                        /\ outbox'[i].status = "sent" =>
                              /\ outbox[i].status = "sent"
                              /\ outbox'[i].attempts = outbox[i].attempts
      OBVIOUS
    <2>1. outbox[i] \in Row
      BY DEF TypeOK
    <2>2. CASE i \in Candidates(n)
      <3>1. outbox'[i] = Claimed(outbox[i], n) /\ Eligible(i, n)
        BY <2>2, CandidatesEligible DEF ClaimNotifications
      <3>2. Claimed(outbox[i], n).gen = outbox[i].gen
            /\ Claimed(outbox[i], n).status = "delivering"
        BY <2>1, ClaimedType
      <3> QED
        BY <3>1, <3>2 DEF Eligible, Present
    <2>3. CASE i \notin Candidates(n)
      BY <2>3 DEF ClaimNotifications, Present
    <2> QED
      BY <2>2, <2>3
  <1>2. ASSUME NEW v \in Workers, NEW c \in claims'[v]
        PROVE  /\ c.id <= c.gen
               /\ outbox'[c.id].status # "absent" => c.gen <= outbox'[c.id].gen
    <2>1. CASE v # w
      <3>1. c \in claims[v] /\ c.id \in Ids
        BY <2>1 DEF ClaimNotifications, TypeOK, Claim
      <3> QED
        BY <1>1, <3>1 DEF FirstUseInv, IdsClimb, Present
    <2>2. CASE v = w
      <3>1. PICK i \in Candidates(n) : c = [id |-> i, gen |-> outbox[i].gen,
                                            attempt |-> outbox[i].attempts + 1]
        BY <2>2 DEF ClaimNotifications, TypeOK
      <3>2. i \in Ids /\ Present(i) /\ c.id = i /\ c.gen = outbox[i].gen
        BY <3>1, CandidatesEligible DEF Eligible, Present
      <3>3. outbox[i].gen \in Nat /\ i <= outbox[i].gen
        BY <3>2 DEF TypeOK, Row, FirstUseInv, IdsClimb
      <3> QED
        BY <1>1, <3>2, <3>3
    <2> QED
      BY <2>1, <2>2
  <1>3. IdsClimb'
    BY <1>1, <1>2 DEF FirstUseInv, IdsClimb, Present
  <1>4. sends' = sends
    BY DEF ClaimNotifications
  <1>5. FirstUseSentWasDelivered'
    BY <1>1, <1>4 DEF FirstUseInv, FirstUseSentWasDelivered
  <1> QED
    BY <1>3, <1>5 DEF FirstUseInv

\* A completion of the row that its claim was made for.
LEMMA SentFirstUse ==
    ASSUME TypeOK, ExclusionInv, FirstUseInv, NEW w \in Workers, NEW c \in claims[w],
           MarkNotificationSent(w, c)
    PROVE  FirstUseInv'
  <1>1. c.id \in Ids /\ outbox[c.id] \in Row /\ c.gen \in Nat /\ c.attempt \in Nat
    BY DEF TypeOK, Claim
  <1>2. /\ outbox'[c.id].gen = outbox[c.id].gen
        /\ outbox'[c.id].attempts = outbox[c.id].attempts
        /\ outbox'[c.id].status = "sent" /\ outbox[c.id].status = "delivering"
        /\ outbox[c.id].attempts = c.attempt
    BY <1>1 DEF MarkNotificationSent, OwnsAttempt, TypeOK, Row
  <1>3. \A i \in Ids \ {c.id} : outbox'[i] = outbox[i]
    BY DEF MarkNotificationSent, TypeOK
  <1>4. \A v \in Workers : claims'[v] \subseteq claims[v]
    BY DEF MarkNotificationSent, TypeOK
  <1>5. sends' = sends /\ [gen |-> c.gen, attempt |-> c.attempt] \in sends
    BY DEF MarkNotificationSent, Delivered
  <1>6. \A i \in Ids : outbox'[i].gen = outbox[i].gen /\ Present(i)' = Present(i)
    BY <1>2, <1>3 DEF Present
  <1>7. IdsClimb'
    <2>1. \A v \in Workers : \A d \in claims[v] : d.id \in Ids
      BY DEF TypeOK, Claim
    <2> QED
      BY <1>4, <1>6, <2>1 DEF FirstUseInv, IdsClimb
  <1>8. outbox[c.id].gen = c.id => c.gen = c.id
    <2>1. c.id <= c.gen /\ c.gen <= outbox[c.id].gen
      BY <1>2 DEF FirstUseInv, IdsClimb, Present
    <2> QED
      BY <1>1, <2>1 DEF Ids
  <1>9. FirstUseSentWasDelivered'
    <2> SUFFICES ASSUME NEW i \in Ids, outbox'[i].status = "sent", outbox'[i].gen = i
                 PROVE  [gen |-> i, attempt |-> outbox'[i].attempts] \in sends
      BY <1>5 DEF FirstUseSentWasDelivered
    <2>1. CASE i = c.id
      BY <1>2, <1>5, <1>8, <2>1
    <2>2. CASE i # c.id
      BY <1>3, <2>2 DEF FirstUseInv, FirstUseSentWasDelivered
    <2> QED
      BY <2>1, <2>2
  <1> QED
    BY <1>7, <1>9 DEF FirstUseInv

LEMMA NextFirstUse ==
    TypeOK /\ ExclusionInv /\ FirstUseInv /\ [Next]_vars => FirstUseInv'
  <1> SUFFICES ASSUME TypeOK, ExclusionInv, FirstUseInv, [Next]_vars
               PROVE  FirstUseInv'
    OBVIOUS
  <1>1. ASSUME NEW w \in Workers, NEW c \in claims[w], NEW at \in Times,
               RescheduleNotification(w, c, at)
        PROVE  FirstUseInv'
    <2>1. c.id \in Ids /\ outbox[c.id] \in Row
      BY <1>1 DEF TypeOK, Claim
    <2>2. /\ outbox'[c.id].gen = outbox[c.id].gen
          /\ outbox'[c.id].status = "pending" /\ outbox[c.id].status = "delivering"
      BY <1>1, <2>1 DEF RescheduleNotification, OwnsAttempt, TypeOK, Row
    <2>3. \A i \in Ids \ {c.id} : outbox'[i] = outbox[i]
      BY <1>1 DEF RescheduleNotification, TypeOK
    <2>4. \A v \in Workers : claims'[v] \subseteq claims[v]
      BY <1>1 DEF RescheduleNotification, TypeOK
    <2>5. \A v \in Workers : \A d \in claims[v] : d.id \in Ids
      BY DEF TypeOK, Claim
    <2>6. IdsClimb'
      BY <2>2, <2>3, <2>4, <2>5 DEF FirstUseInv, IdsClimb, Present
    <2>7. FirstUseSentWasDelivered'
      BY <1>1, <2>2, <2>3 DEF FirstUseInv, FirstUseSentWasDelivered, RescheduleNotification
    <2> QED
      BY <2>6, <2>7 DEF FirstUseInv
  <1>2. ASSUME NEW w \in Workers,
               WorkerCrash(w) \/ \E c \in claims[w] : CompletionRefused(w, c) \/ Deliver(w, c)
        PROVE  FirstUseInv'
    BY <1>2, FewerClaimsFirstUse DEF WorkerCrash, CompletionRefused, Deliver, TypeOK
  <1>3. CASE Tick \/ UNCHANGED vars
    BY <1>3, FewerClaimsFirstUse DEF Tick, vars
  <1> QED
    BY <1>1, <1>2, <1>3, EnqueueFirstUse, DeleteFirstUse, ClaimFirstUse, SentFirstUse
    DEF Next, WorkerStep

\* Until an id is used a second time, mark_notification_sent completes only
\* attempts whose message was handed to the mail provider.  (With reuse it does
\* not: see SentWasDelivered.)
THEOREM FirstUsesDelivered == Spec => []FirstUseSentWasDelivered
  <1>1. Init => TypeOK /\ ExclusionInv /\ FirstUseInv
    <2>1. Init => FirstUseInv
      BY DEF Init, FirstUseInv, IdsClimb, FirstUseSentWasDelivered, Present, NoRow
    <2> QED
      BY <2>1, InitTypeOK, InitExclusion
  <1>2. TypeOK /\ ExclusionInv /\ FirstUseInv /\ [Next]_vars
           => TypeOK' /\ ExclusionInv' /\ FirstUseInv'
    BY NextTypeOK, NextExclusion, NextFirstUse
  <1>3. FirstUseInv => FirstUseSentWasDelivered
    BY DEF FirstUseInv
  <1> QED
    BY <1>1, <1>2, <1>3, PTL DEF Spec

-----------------------------------------------------------------------------
(* No row is out of reach for longer than a lease.                         *)

LeasesEnd ==
    \A i \in Ids : outbox[i].status = "delivering" =>
       outbox[i].leaseUntil <= now + LeaseDuration

LEMMA EarlierPlus ==
    \A m, n, p, d \in Nat : m <= n /\ n <= p => m + d <= p + d
  OBVIOUS

LEMMA NextLeasesEnd ==
    TypeOK /\ RowsDecodable /\ LeasesEnd /\ [Next]_vars => LeasesEnd'
  <1> SUFFICES ASSUME TypeOK, RowsDecodable, LeasesEnd, [Next]_vars, NEW i \in Ids,
                      outbox'[i].status = "delivering"
               PROVE  outbox'[i].leaseUntil <= now' + LeaseDuration
    BY DEF LeasesEnd
  <1>1. now \in Nat /\ now' \in Nat /\ now <= now' /\ LeaseDuration \in Nat
    <2>1. now \in Nat /\ LeaseDuration \in Nat
      BY OutboxAssumption DEF TypeOK, Times
    <2>2. now' = now \/ now' = now + 1
      BY DEF Next, WorkerStep, EnqueueNotification, DeleteNotification, ClaimNotifications,
             Deliver, MarkNotificationSent, CompletionRefused, RescheduleNotification,
             WorkerCrash, Tick, vars
    <2> QED
      BY <2>1, <2>2
  <1>2. ASSUME outbox'[i] = outbox[i] PROVE outbox'[i].leaseUntil <= now' + LeaseDuration
    <2>1. outbox[i].leaseUntil \in Nat
      BY <1>2 DEF TypeOK, Row, RowsDecodable, Present, Decodable
    <2>2. outbox[i].leaseUntil <= now + LeaseDuration
      BY <1>2 DEF LeasesEnd
    <2> QED
      BY <1>1, <1>2, <2>1, <2>2
  <1>3. ASSUME NEW k \in Keys, NEW content \in Contents, NEW at \in Times,
               EnqueueNotification(k, content, at)
        PROVE  outbox'[i] = outbox[i]
    <2>1. NewRow(k, content, at).status = "pending"
      BY DEF NewRow
    <2> QED
      BY <1>3, <2>1 DEF EnqueueNotification, TypeOK
  <1>4. ASSUME NEW j \in Ids, DeleteNotification(j)
        PROVE  outbox'[i] = outbox[i]
    BY <1>4 DEF DeleteNotification, TypeOK, NoRow
  <1>5. ASSUME NEW w \in Workers, NEW n \in Times, n <= now, ClaimNotifications(w, n)
        PROVE  outbox'[i].leaseUntil <= now' + LeaseDuration
    <2>1. CASE i \in Candidates(n)
      <3>1. outbox'[i] = Claimed(outbox[i], n)
        BY <1>5, <2>1 DEF ClaimNotifications
      <3>2. outbox'[i].leaseUntil = n + LeaseDuration
        BY <3>1 DEF Claimed, TypeOK, Row
      <3>3. n \in Nat /\ n <= now
        BY <1>5 DEF Times
      <3>4. n + LeaseDuration <= now' + LeaseDuration
        BY <1>1, <3>3, EarlierPlus
      <3> QED
        BY <3>2, <3>4
    <2>2. CASE i \notin Candidates(n)
      <3>1. outbox'[i] = outbox[i]
        BY <1>5, <2>2 DEF ClaimNotifications
      <3> QED
        BY <1>2, <3>1
    <2> QED
      BY <2>1, <2>2
  <1>6. ASSUME NEW w \in Workers, NEW c \in claims[w], MarkNotificationSent(w, c)
        PROVE  outbox'[i] = outbox[i]
    <2>1. c.id \in Ids /\ outbox[c.id] \in Row
      BY <1>6 DEF TypeOK, Claim
    <2>2. outbox'[c.id].status = "sent"
      BY <1>6, <2>1 DEF MarkNotificationSent, TypeOK, Row
    <2> QED
      BY <1>6, <2>1, <2>2 DEF MarkNotificationSent, TypeOK
  <1>7. ASSUME NEW w \in Workers, NEW c \in claims[w], NEW at \in Times,
               RescheduleNotification(w, c, at)
        PROVE  outbox'[i] = outbox[i]
    <2>1. c.id \in Ids /\ outbox[c.id] \in Row
      BY <1>7 DEF TypeOK, Claim
    <2>2. outbox'[c.id].status = "pending"
      BY <1>7, <2>1 DEF RescheduleNotification, TypeOK, Row
    <2> QED
      BY <1>7, <2>1, <2>2 DEF RescheduleNotification, TypeOK
  <1>8. CASE UNCHANGED outbox
    BY <1>2, <1>8
  <1> QED
    BY <1>2, <1>3, <1>4, <1>5, <1>6, <1>7, <1>8
    DEF Next, WorkerStep, Deliver, CompletionRefused, WorkerCrash, Tick, vars

\* No crash, lost answer or stale clock puts an unsent notification out of
\* reach: its lease ends at most one lease from now, because the clock of a
\* claim is never ahead, and the decoder accepts its row.
THEOREM RowsComeBack == Spec => []NeverStranded
  <1>1. Init => RowsDecodable /\ LeasesEnd
    BY DEF Init, RowsDecodable, LeasesEnd, Present, NoRow
  <1>2. TypeOK /\ RowsDecodable /\ LeasesEnd => NeverStranded
    <2> SUFFICES ASSUME TypeOK, RowsDecodable, LeasesEnd, NEW i \in Ids,
                        Present(i), outbox[i].status # "sent"
                 PROVE  Eligible(i, IF outbox[i].availableAt > now + LeaseDuration
                                    THEN outbox[i].availableAt ELSE now + LeaseDuration)
      BY DEF NeverStranded
    <2> DEFINE lease == now + LeaseDuration
               due == outbox[i].availableAt
               n == IF due > lease THEN due ELSE lease
    <2>1. lease \in Nat /\ due \in Int
      BY OutboxAssumption DEF TypeOK, Row, Times, NoTime
    <2>2. n >= due /\ n >= lease /\ n \in Int
      BY <2>1
    <2>3. CASE outbox[i].status = "pending"
      BY <2>1, <2>2, <2>3 DEF Eligible
    <2>4. CASE outbox[i].status = "delivering"
      <3>1. outbox[i].leaseUntil <= lease /\ outbox[i].leaseUntil \in Nat
        BY <2>4 DEF LeasesEnd, TypeOK, Row, RowsDecodable, Present, Decodable
      <3> QED
        BY <2>1, <2>2, <2>4, <3>1 DEF Eligible
    <2> QED
      BY <2>3, <2>4 DEF RowsDecodable, Present, Decodable
  <1> QED
    BY <1>1, <1>2, InitTypeOK, NextTypeOK, NextDecodable, NextLeasesEnd, PTL DEF Spec
=============================================================================
