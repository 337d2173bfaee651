-------------------------- MODULE AppointmentProofs --------------------------
(***************************************************************************)
(* Theorems about AppointmentSubmission for any number of quotes, of       *)
(* overlapping executions of submit_request, of faults and of owner        *)
(* actions.                                                                *)
(***************************************************************************)
EXTENDS AppointmentSubmission, TLAPS

QuoteRecords == [state : {"none", "issued", "prepared", "consumed"},
                 issuedAt : Times \cup {NoTime}, offered : SUBSET Starts,
                 slot : Starts \cup {NoTime}, included : {"yes", "no"},
                 consumedAt : Nat \cup {NoTime}]
EventRecords == [state : EventStates, seenGoogle : SUBSET Quotes,
                 seenOutlook : SUBSET OwnerStarts]
CallRecords == [point : Points, q : Quotes \cup {"none"}, at : Times \cup {NoTime},
                durable : Nat \cup {NoTime}, retry : {"yes", "no"},
                busy : {"yes", "no"}, seenGoogle : SUBSET Quotes,
                seenOutlook : SUBSET OwnerStarts, result : {"none", "submitted"}]

TypeQuote == quote \in [Quotes -> QuoteRecords]
TypeGoogle == google \in [Quotes -> EventRecords]
TypeCall == call \in [Calls -> CallRecords]
TypeTables ==
    /\ proposal \in [Quotes -> ProposalStates]
    /\ mapping \in [Quotes -> {"none", "attached"}]
    /\ notes \in [Quotes -> [Recipients -> {"none", "queued", "moved"}]]
    /\ audit \in [Quotes -> SUBSET AuditKinds]
TypeWorld ==
    /\ outlook \subseteq OwnerStarts
    /\ now \in Times
    /\ faults \in 0..MaxFaults

Types == TypeQuote /\ TypeGoogle /\ TypeCall /\ TypeTables /\ TypeWorld

LEMMA TypesSuffice == Types => TypeOK
<1> SUFFICES ASSUME Types
             PROVE  TypeOK
  OBVIOUS
<1>1. \A q \in Quotes : quote[q] \in QuoteRecords /\ google[q] \in EventRecords
  BY DEF Types, TypeQuote, TypeGoogle
<1>2. \A c \in Calls : call[c] \in CallRecords
  BY DEF Types, TypeCall
<1> QED
  BY <1>1, <1>2 DEF Types, TypeTables, TypeWorld, TypeOK, QuoteRecords, EventRecords,
                    CallRecords

-----------------------------------------------------------------------------
(* What the steps of an execution leave in its record.                     *)

\* Everything but the point.
SameBut(r, s) ==
    /\ r.q = s.q /\ r.at = s.at /\ r.durable = s.durable
    /\ r.busy = s.busy /\ r.seenGoogle = s.seenGoogle
    /\ r.seenOutlook = s.seenOutlook /\ r.result = s.result

OthersRest(c) == \A d \in Calls : d # c => call'[d] = call[d]

LEMMA GoToKeeps ==
    ASSUME TypeCall, NEW c \in Calls, NEW p \in Points, GoTo(c, p)
    PROVE  /\ TypeCall' /\ OthersRest(c)
           /\ call'[c].point = p /\ call'[c].retry = call[c].retry
           /\ SameBut(call'[c], call[c])
<1> DEFINE r == [call[c] EXCEPT !.point = p]
<1>1. call[c] \in CallRecords
  BY DEF TypeCall
<1>2. call' = [call EXCEPT ![c] = r]
  BY DEF GoTo
<1>3. /\ r \in CallRecords /\ r.point = p /\ r.retry = call[c].retry
      /\ SameBut(r, call[c])
  BY <1>1 DEF CallRecords, SameBut
<1> HIDE DEF r
<1> QED
  BY <1>2, <1>3 DEF TypeCall, OthersRest

LEMMA IdleIsTyped == Idle \in CallRecords
BY DEF Idle, CallRecords, Points, NoTime

LEMMA RefuseIdles ==
    ASSUME TypeCall, NEW c \in Calls, Refuse(c)
    PROVE  TypeCall' /\ OthersRest(c) /\ call'[c] = Idle
BY IdleIsTyped DEF TypeCall, Refuse, OthersRest

LEMMA SucceedEnds ==
    ASSUME TypeCall, NEW c \in Calls, Succeed(c)
    PROVE  /\ TypeCall' /\ OthersRest(c)
           /\ call'[c].point = "idle" /\ call'[c].retry = "no"
           /\ call'[c].q = call[c].q /\ call'[c].result = "submitted"
<1> DEFINE r == [Idle EXCEPT !.q = call[c].q, !.result = "submitted"]
<1>1. call[c].q \in Quotes \cup {"none"}
  BY DEF TypeCall, CallRecords
<1>2. call' = [call EXCEPT ![c] = r]
  BY DEF Succeed
<1>3. /\ r \in CallRecords /\ r.point = "idle" /\ r.retry = "no" /\ r.q = call[c].q
      /\ r.result = "submitted"
  BY <1>1 DEF Idle, CallRecords, Points, NoTime
<1> HIDE DEF r
<1> QED
  BY <1>2, <1>3 DEF TypeCall, OthersRest

LEMMA EnterTailBegins ==
    ASSUME TypeCall, NEW c \in Calls, EnterTail(c)
    PROVE  /\ TypeCall' /\ OthersRest(c)
           /\ call'[c].point = "notify_owner" /\ call'[c].retry = "no"
           /\ call'[c].q = call[c].q /\ call'[c].result = "none"
<1> DEFINE r == [Idle EXCEPT !.q = call[c].q, !.point = "notify_owner"]
<1>1. call[c].q \in Quotes \cup {"none"}
  BY DEF TypeCall, CallRecords
<1>2. call' = [call EXCEPT ![c] = r]
  BY DEF EnterTail
<1>3. /\ r \in CallRecords /\ r.point = "notify_owner" /\ r.retry = "no"
      /\ r.q = call[c].q /\ r.result = "none"
  BY <1>1 DEF Idle, CallRecords, Points, NoTime
<1> HIDE DEF r
<1> QED
  BY <1>2, <1>3 DEF TypeCall, OthersRest

LEMMA BusyOutlookKeeps ==
    ASSUME TypeCall, NEW c \in Calls, ListBusyOutlook(c)
    PROVE  /\ TypeCall' /\ OthersRest(c)
           /\ call'[c].point = "busy_google" /\ call'[c].retry = call[c].retry
           /\ call'[c].busy = IF OutlookBusy(Slot(c)) THEN "yes" ELSE "no"
           /\ call'[c].q = call[c].q /\ call'[c].durable = call[c].durable
           /\ call'[c].seenGoogle = call[c].seenGoogle
           /\ call'[c].seenOutlook = call[c].seenOutlook
           /\ call'[c].result = call[c].result
<1> DEFINE b == IF OutlookBusy(Slot(c)) THEN "yes" ELSE "no"
<1>0. b \in {"yes", "no"}
  OBVIOUS
<1> HIDE DEF b
<1> DEFINE r == [call[c] EXCEPT !.point = "busy_google", !.busy = b]
<1>1. call[c] \in CallRecords
  BY DEF TypeCall
<1>2. call' = [call EXCEPT ![c] = r]
  BY DEF ListBusyOutlook, b
<1>3. /\ r \in CallRecords /\ r.point = "busy_google" /\ r.retry = call[c].retry
      /\ r.busy = b /\ r.q = call[c].q /\ r.durable = call[c].durable
      /\ r.seenGoogle = call[c].seenGoogle /\ r.seenOutlook = call[c].seenOutlook
      /\ r.result = call[c].result
  BY <1>0, <1>1 DEF CallRecords, Points
<1> HIDE DEF r
<1> QED
  BY <1>2, <1>3 DEF TypeCall, OthersRest, b

LEMMA RetryKeeps ==
    ASSUME TypeCall, NEW c \in Calls,
           call' = [call EXCEPT ![c].point = "find", ![c].retry = "yes"]
    PROVE  /\ TypeCall' /\ OthersRest(c)
           /\ call'[c].point = "find" /\ call'[c].retry = "yes"
           /\ SameBut(call'[c], call[c])
<1> DEFINE r == [call[c] EXCEPT !.point = "find", !.retry = "yes"]
<1>1. call[c] \in CallRecords
  BY DEF TypeCall
<1>2. call' = [call EXCEPT ![c] = r]
  OBVIOUS
<1>3. /\ r \in CallRecords /\ r.point = "find" /\ r.retry = "yes"
      /\ SameBut(r, call[c])
  BY <1>1 DEF CallRecords, Points, SameBut
<1> HIDE DEF r
<1> QED
  BY <1>2, <1>3 DEF TypeCall, OthersRest

-----------------------------------------------------------------------------
(* The durable timestamp.                                                  *)

\* Division by a positive whole number.
LEMMA WholeQuotient ==
    ASSUME NEW n \in Nat, NEW s \in Nat \ {0}
    PROVE  /\ n \div s \in Nat
           /\ (n \div s) * s \in Nat
           /\ n < (n \div s) * s + s
BY Z3

LEMMA WholeMultiple ==
    ASSUME NEW k \in Nat, NEW s \in Nat \ {0}
    PROVE  (k * s) % s = 0
BY Z3

LEMMA NextMultiple ==
    ASSUME NEW k \in Nat, NEW s \in Nat \ {0}
    PROVE  k * s + s = (k + 1) * s
BY Z3

\* canonicalize_submission_timestamp yields a whole second that is not before
\* the issue of a quote that was issued by now.
LEMMA DurableIsWhole ==
    ASSUME NEW q \in Quotes, NEW n \in Nat, quote[q].issuedAt \in Nat,
           quote[q].issuedAt <= n
    PROVE  /\ Durable(q, n) \in Nat
           /\ Durable(q, n) % Second = 0
           /\ quote[q].issuedAt <= Durable(q, n)
<1> DEFINE k == n \div Second
           m == k * Second
           i == quote[q].issuedAt
<1>0. Second \in Nat \ {0} /\ i \in Nat /\ i <= n
  BY SubmissionAssumption
<1>1. k \in Nat /\ m \in Nat /\ n < m + Second
  BY <1>0, WholeQuotient
<1>2. Durable(q, n) = IF m >= i THEN m ELSE m + Second
  BY DEF Durable
<1>3. m % Second = 0
  BY <1>0, <1>1, WholeMultiple
<1>4. m + Second = (k + 1) * Second /\ k + 1 \in Nat
  BY <1>0, <1>1, NextMultiple
<1>5. ((k + 1) * Second) % Second = 0
  BY <1>0, <1>4, WholeMultiple
<1>6. (m + Second) % Second = 0
  BY <1>4, <1>5
<1> HIDE DEF k, m, i
<1>7. Durable(q, n) \in Nat /\ i <= Durable(q, n)
  BY <1>0, <1>1, <1>2
<1>8. Durable(q, n) % Second = 0
  BY <1>2, <1>3, <1>6
<1> QED
  BY <1>7, <1>8 DEF i

LEMMA SubmitBegins ==
    ASSUME Types, NEW c \in Calls, NEW q \in Quotes, Submit(c, q),
           Durable(q, now) \in Nat
    PROVE  /\ TypeCall' /\ OthersRest(c)
           /\ call'[c].point = (IF quote[q].state = "consumed" THEN "load_proposal"
                                                              ELSE "busy_outlook")
           /\ call'[c].q = q /\ call'[c].durable = Durable(q, now)
           /\ call'[c].retry = "no" /\ call'[c].busy = "no"
           /\ call'[c].seenGoogle = {p \in Quotes : Live(p)}
           /\ call'[c].seenOutlook = outlook /\ call'[c].result = "none"
<1> DEFINE point == IF quote[q].state = "consumed" THEN "load_proposal" ELSE "busy_outlook"
           seen == {p \in Quotes : Live(p)}
           durable == Durable(q, now)
           r == [Idle EXCEPT !.point = point, !.q = q, !.at = now, !.durable = durable,
                             !.seenGoogle = seen, !.seenOutlook = outlook]
<1>1. /\ point \in Points /\ seen \in SUBSET Quotes /\ durable \in Nat
      /\ outlook \in SUBSET OwnerStarts /\ now \in Times
  BY DEF Points, Types, TypeWorld
<1>2. call' = [call EXCEPT ![c] = r]
  BY DEF Submit
<1> HIDE DEF point, seen, durable
<1>3. /\ r \in CallRecords /\ r.point = point /\ r.q = q /\ r.durable = durable
      /\ r.retry = "no" /\ r.busy = "no" /\ r.seenGoogle = seen
      /\ r.seenOutlook = outlook /\ r.result = "none"
  BY <1>1 DEF Idle, CallRecords, NoTime
<1> HIDE DEF r
<1>4. TypeCall' /\ OthersRest(c) /\ call'[c] = r
  BY <1>2, <1>3 DEF TypeCall, OthersRest, Types
<1> QED
  BY <1>3, <1>4 DEF point, seen, durable

-----------------------------------------------------------------------------
(* What the store and the calendar hold of a quote.                        *)

Frozen(q) == quote[q].state \in {"prepared", "consumed"}
Consumed(q) == quote[q].state = "consumed"
EventMade(q) == google[q].state # "none"
Attached(q) == mapping[q] = "attached"
Noted(q, r) == notes[q][r] # "none"
Included(q) == quote[q].included = "yes"

QuoteInOrder(q) ==
    /\ quote[q].state # "none" => quote[q].issuedAt \in Nat /\ quote[q].issuedAt <= now
    /\ ~Frozen(q) => quote[q].slot = NoTime
    /\ Frozen(q) => quote[q].slot \in quote[q].offered
    /\ ~Consumed(q) => quote[q].consumedAt = NoTime /\ proposal[q] = "none"
    /\ Consumed(q) => /\ proposal[q] # "none"
                      /\ quote[q].consumedAt \in Nat
                      /\ Valid(q, quote[q].consumedAt)
                      /\ quote[q].consumedAt % Second = 0

RecordInOrder(q) ==
    /\ EventMade(q) => Consumed(q)
    /\ Attached(q) => EventMade(q)
    /\ (audit[q] # {} \/ \E r \in Recipients : Noted(q, r)) => Attached(q)
    /\ Noted(q, "requester") \/ "requester" \in audit[q] => Included(q)

\* Where an execution has already written to the store.
Tail == {"notify_owner", "notify_requester", "audit_request", "audit_proposal",
         "audit_owner", "audit_requester"}
Audits == Tail \ {"notify_owner", "notify_requester"}
Submitted(c) == call[c].result = "submitted"

CallOfQuote(c) ==
    LET q == call[c].q IN
    ~At(c, "idle") \/ Submitted(c) => q \in Quotes /\ Frozen(q)

CallAdmitted(c) ==
    LET q == call[c].q IN
    /\ call[c].point \notin Tail \cup {"idle"} =>
          /\ call[c].durable \in Nat
          /\ call[c].durable % Second = 0
          /\ quote[q].issuedAt <= call[c].durable
    /\ call[c].point \in {"load_proposal", "load_mapping", "create"} => Consumed(q)
    /\ call[c].retry = "yes" => ~At(c, "idle") /\ Consumed(q)
    /\ call[c].point \in {"submit_found", "attach"} => EventMade(q)

CallRecorded(c) ==
    LET q == call[c].q IN
    /\ call[c].point \in Tail \/ Submitted(c) => Attached(q)
    /\ call[c].point \in Tail \ {"notify_owner"} \/ Submitted(c) => Noted(q, "owner")
    /\ call[c].point \in {"notify_requester", "audit_requester"} => Included(q)
    /\ call[c].point \in Audits \/ Submitted(c)
          => (Included(q) => Noted(q, "requester"))
    /\ call[c].point \in Audits \ {"audit_request"} \/ Submitted(c)
          => "request" \in audit[q]
    /\ call[c].point \in {"audit_owner", "audit_requester"} \/ Submitted(c)
          => "proposal" \in audit[q]
    /\ At(c, "audit_requester") \/ Submitted(c) => "owner" \in audit[q]
    /\ Submitted(c) => (Included(q) => "requester" \in audit[q])

StoreInOrder == \A q \in Quotes : QuoteInOrder(q) /\ RecordInOrder(q)
CallInOrder(c) == CallOfQuote(c) /\ CallAdmitted(c) /\ CallRecorded(c)
CallsInOrder == \A c \in Calls : CallInOrder(c)

Inv == Types /\ StoreInOrder /\ CallsInOrder


\* What is durable stays as it is or grows.
Grows(q) ==
    /\ Frozen(q) => /\ Frozen(q)'
                    /\ quote'[q].issuedAt = quote[q].issuedAt
                    /\ quote'[q].offered = quote[q].offered
                    /\ quote'[q].slot = quote[q].slot
                    /\ quote'[q].included = quote[q].included
    /\ Consumed(q) => quote'[q] = quote[q]
    /\ proposal[q] \notin {"none", "pending"} => proposal'[q] = proposal[q]
    /\ EventMade(q) => /\ EventMade(q)'
                       /\ Live(q)' => Live(q)
                       /\ google'[q].seenGoogle = google[q].seenGoogle
                       /\ google'[q].seenOutlook = google[q].seenOutlook
    /\ Attached(q) => Attached(q)'
    /\ \A r \in Recipients : Noted(q, r) => Noted(q, r)'
    /\ audit[q] \subseteq audit'[q]

StoreGrows == \A q \in Quotes : Grows(q)

\* Nothing of the quote changes.
Rests(q) ==
    /\ quote'[q] = quote[q] /\ proposal'[q] = proposal[q] /\ mapping'[q] = mapping[q]
    /\ notes'[q] = notes[q] /\ audit'[q] = audit[q] /\ google'[q] = google[q]

Later == now' \in Times /\ now <= now'

LEMMA RestIsGrowth ==
    ASSUME NEW q \in Quotes, Rests(q)
    PROVE  Grows(q)
BY DEF Rests, Grows, Frozen, Consumed, EventMade, Attached, Noted, Live

LEMMA RestsInOrder ==
    ASSUME NEW q \in Quotes, Rests(q), now \in Times, Later,
           QuoteInOrder(q), RecordInOrder(q)
    PROVE  QuoteInOrder(q)' /\ RecordInOrder(q)' /\ Grows(q)
<1>1. QuoteInOrder(q)'
  <2>1. quote'[q].state # "none"
          => quote'[q].issuedAt \in Nat /\ quote'[q].issuedAt <= now'
    BY DEF Rests, Later, QuoteInOrder, Times
  <2> QED
    BY <2>1 DEF Rests, QuoteInOrder, Frozen, Consumed, Valid
<1>2. RecordInOrder(q)'
  BY DEF Rests, RecordInOrder, EventMade, Consumed, Attached, Noted, Included
<1> QED
  BY <1>1, <1>2, RestIsGrowth

\* An execution that does not move stays in order when the store grows.
LEMMA CallStays ==
    ASSUME TypeCall, StoreGrows, NEW c \in Calls, CallInOrder(c), call'[c] = call[c]
    PROVE  CallInOrder(c)'
<1> DEFINE q == call[c].q
<1>1. call[c] \in CallRecords
  BY DEF TypeCall
<1>2. CASE At(c, "idle") /\ ~Submitted(c)
  <2>1. call[c].retry = "no"
    BY <1>1, <1>2 DEF CallInOrder, CallAdmitted, CallRecords
  <2> QED
    BY <1>2, <2>1 DEF CallInOrder, CallOfQuote, CallAdmitted, CallRecorded, At,
                      Submitted, Tail, Audits
<1>3. CASE ~At(c, "idle") \/ Submitted(c)
  <2>1. q \in Quotes /\ Frozen(q) /\ Grows(q)
    BY <1>3 DEF CallInOrder, CallOfQuote, StoreGrows
  <2>2. CallOfQuote(c)'
    BY <2>1 DEF CallOfQuote, Grows
  <2>3. CallAdmitted(c)'
    <3>1. Consumed(q) => Consumed(q)'
      BY <2>1 DEF Grows, Consumed
    <3> QED
      BY <2>1, <3>1 DEF CallInOrder, CallAdmitted, Grows, At
  <2>4. CallRecorded(c)'
    <3>1. Included(q)' <=> Included(q)
      BY <2>1 DEF Grows, Included
    <3>2. /\ Attached(q) => Attached(q)'
          /\ Noted(q, "owner") => Noted(q, "owner")'
          /\ Noted(q, "requester") => Noted(q, "requester")'
          /\ audit[q] \subseteq audit'[q]
      BY <2>1 DEF Grows, Recipients
    <3> QED
      BY <3>1, <3>2 DEF CallInOrder, CallRecorded, At, Submitted
  <2> QED
    BY <2>2, <2>3, <2>4 DEF CallInOrder
<1> QED
  BY <1>2, <1>3

LEMMA OneCallMoves ==
    ASSUME TypeCall, StoreGrows, CallsInOrder, NEW c \in Calls, OthersRest(c),
           CallInOrder(c)'
    PROVE  CallsInOrder'
<1> SUFFICES ASSUME NEW d \in Calls
             PROVE  CallInOrder(d)'
  BY DEF CallsInOrder
<1>1. CASE d = c
  BY <1>1
<1>2. CASE d # c
  BY <1>2, CallStays DEF OthersRest, CallsInOrder
<1> QED
  BY <1>1, <1>2

LEMMA IdleInOrder ==
    ASSUME NEW c \in Calls, call'[c] = Idle
    PROVE  CallInOrder(c)'
BY DEF Idle, CallInOrder, CallOfQuote, CallAdmitted, CallRecorded, At, Submitted,
       Tail, Audits

-----------------------------------------------------------------------------
(* Where a step leaves the execution that takes it.                        *)

Early == Points \ (Tail \cup {"idle"})

SameRequest(c) ==
    /\ call'[c].q = call[c].q /\ call'[c].durable = call[c].durable
    /\ call'[c].result = call[c].result

LEMMA RequestIsFrozen ==
    ASSUME CallsInOrder, NEW c \in Calls, ~At(c, "idle")
    PROVE  call[c].q \in Quotes /\ Frozen(call[c].q)
BY DEF CallsInOrder, CallInOrder, CallOfQuote

LEMMA EarlyGoesOn ==
    ASSUME CallsInOrder, StoreGrows, NEW c \in Calls, call[c].point \in Early,
           NEW p \in Early, call'[c].point = p, SameRequest(c),
           call'[c].retry = "yes" => Consumed(call[c].q)',
           p \in {"load_proposal", "load_mapping", "create"} => Consumed(call[c].q)',
           p \in {"submit_found", "attach"} => EventMade(call[c].q)'
    PROVE  CallInOrder(c)'
<1> DEFINE q == call[c].q
<1>1. q \in Quotes /\ Frozen(q) /\ Grows(q)
  BY RequestIsFrozen DEF Early, At, StoreGrows
<1>2. p \notin Tail \cup {"idle"} /\ call[c].point \notin Tail \cup {"idle"}
  BY DEF Early
<1>3. CallInOrder(c)
  BY DEF CallsInOrder
<1>4. CallOfQuote(c)'
  BY <1>1 DEF CallOfQuote, SameRequest, Grows
<1>5. CallAdmitted(c)'
  <2>1. /\ call'[c].durable \in Nat /\ call'[c].durable % Second = 0
        /\ quote'[q].issuedAt <= call'[c].durable
    BY <1>1, <1>2, <1>3 DEF CallInOrder, CallAdmitted, SameRequest, Grows
  <2>2. (call'[c].q = q) /\ ~At(c, "idle")'
    BY <1>2 DEF SameRequest, At
  <2> QED
    BY <2>1, <2>2 DEF CallAdmitted, Consumed, EventMade
<1>6. CallRecorded(c)'
  <2>1. Included(q)' <=> Included(q)
    BY <1>1 DEF Grows, Included, SameRequest
  <2>2. /\ Attached(q) => Attached(q)'
        /\ Noted(q, "owner") => Noted(q, "owner")'
        /\ Noted(q, "requester") => Noted(q, "requester")'
        /\ audit[q] \subseteq audit'[q]
    BY <1>1 DEF Grows, Recipients, Attached, Noted, SameRequest
  <2>3. p \notin Tail /\ p \notin Audits /\ ~At(c, "audit_requester")'
    BY <1>2 DEF Tail, Audits, At
  <2>4. p \notin {"notify_requester", "audit_requester", "audit_owner"}
    BY <1>2 DEF Tail
  <2> QED
    BY <1>3, <2>1, <2>2, <2>3, <2>4
       DEF CallInOrder, CallRecorded, SameRequest, Submitted, Noted, Attached
<1> QED
  BY <1>4, <1>5, <1>6 DEF CallInOrder

LEMMA TailBegins ==
    ASSUME CallsInOrder, StoreGrows, NEW c \in Calls, ~At(c, "idle"),
           TypeCall', call'[c].point = "notify_owner", call'[c].retry = "no",
           call'[c].q = call[c].q, call'[c].result = "none",
           Attached(call[c].q)'
    PROVE  CallInOrder(c)'
<1> DEFINE q == call[c].q
<1>1. q \in Quotes /\ Frozen(q)'
  BY RequestIsFrozen DEF StoreGrows, Grows
<1>2. CallOfQuote(c)'
  BY <1>1 DEF CallOfQuote
<1>3. CallAdmitted(c)'
  BY DEF CallAdmitted, Tail
<1>4. CallRecorded(c)'
  BY DEF CallRecorded, Tail, Audits, At, Submitted, Attached
<1> QED
  BY <1>2, <1>3, <1>4 DEF CallInOrder

-----------------------------------------------------------------------------
(* Steps that only read the store and the calendars.                       *)

LEMMA StoreRests ==
    ASSUME Types, StoreInOrder, UNCHANGED <<store, google>>, Later
    PROVE  /\ StoreInOrder' /\ StoreGrows
           /\ TypeQuote' /\ TypeGoogle' /\ TypeTables'
<1>1. \A q \in Quotes : Rests(q)
  BY DEF Rests, store
<1>2. now \in Times
  BY DEF Types, TypeWorld
<1>3. \A q \in Quotes : QuoteInOrder(q)' /\ RecordInOrder(q)' /\ Grows(q)
  BY <1>1, <1>2, RestsInOrder DEF StoreInOrder
<1>4. StoreInOrder' /\ StoreGrows
  BY <1>3 DEF StoreInOrder, StoreGrows
<1>5. TypeQuote' /\ TypeGoogle' /\ TypeTables'
  BY DEF Types, TypeQuote, TypeGoogle, TypeTables, store
<1> QED
  BY <1>4, <1>5

Reads == UNCHANGED <<store, google, outlook, now>>

LEMMA ReadRests ==
    ASSUME Inv, Reads
    PROVE  /\ StoreInOrder' /\ StoreGrows
           /\ TypeQuote' /\ TypeGoogle' /\ TypeTables'
<1>1. UNCHANGED <<store, google>> /\ Later
  BY DEF Reads, Later, Inv, Types, TypeWorld, Times
<1> QED
  BY <1>1, StoreRests DEF Inv

LEMMA ReaderMoves ==
    ASSUME Inv, Reads, faults' \in 0..MaxFaults, NEW c \in Calls,
           TypeCall', OthersRest(c), CallInOrder(c)'
    PROVE  Inv' /\ StoreGrows
<1>1. StoreInOrder' /\ StoreGrows /\ TypeQuote' /\ TypeGoogle' /\ TypeTables'
  BY ReadRests
<1>2. CallsInOrder'
  BY <1>1, OneCallMoves DEF Inv, Types
<1>3. TypeWorld'
  BY DEF Inv, Types, TypeWorld, Reads
<1> QED
  BY <1>1, <1>2, <1>3 DEF Inv, Types

LEMMA RefusedReader ==
    ASSUME Inv, Reads, faults' \in 0..MaxFaults, NEW c \in Calls, Refuse(c)
    PROVE  Inv' /\ StoreGrows
<1>1. TypeCall' /\ OthersRest(c) /\ call'[c] = Idle
  BY RefuseIdles DEF Inv, Types
<1>2. CallInOrder(c)'
  BY <1>1, IdleInOrder
<1> QED
  BY <1>1, <1>2, ReaderMoves

\* An execution goes on before another call of the saga's first half.
LEMMA EarlyReader ==
    ASSUME Inv, Reads, UNCHANGED faults, NEW c \in Calls, call[c].point \in Early,
           TypeCall', OthersRest(c), SameRequest(c), call'[c].point \in Early,
           call'[c].retry = "yes" => Consumed(call[c].q),
           call'[c].point \in {"load_proposal", "load_mapping", "create"}
              => Consumed(call[c].q),
           call'[c].point \in {"submit_found", "attach"} => EventMade(call[c].q)
    PROVE  Inv' /\ StoreGrows
<1>1. StoreGrows /\ call[c].q \in Quotes
  BY ReadRests, RequestIsFrozen DEF Early, At, Inv
<1>2. /\ Consumed(call[c].q) => Consumed(call[c].q)'
      /\ EventMade(call[c].q) => EventMade(call[c].q)'
  BY <1>1 DEF StoreGrows, Grows, Consumed, EventMade, SameRequest
<1>3. CallInOrder(c)'
  BY <1>1, <1>2, EarlyGoesOn DEF Inv
<1>4. faults' \in 0..MaxFaults
  BY DEF Inv, Types, TypeWorld
<1> QED
  BY <1>3, <1>4, ReaderMoves

LEMMA GoesOnEarly ==
    ASSUME Inv, Reads, UNCHANGED faults, NEW c \in Calls, call[c].point \in Early,
           NEW p \in Early, GoTo(c, p),
           p \in {"load_proposal", "load_mapping", "create"} => Consumed(call[c].q),
           p \in {"submit_found", "attach"} => EventMade(call[c].q)
    PROVE  Inv' /\ StoreGrows
<1>1. /\ TypeCall' /\ OthersRest(c) /\ call'[c].point = p
      /\ call'[c].retry = call[c].retry /\ SameBut(call'[c], call[c])
  BY GoToKeeps DEF Inv, Types, Early
<1>2. SameRequest(c)
  BY <1>1 DEF SameBut, SameRequest
<1>3. call'[c].retry = "yes" => Consumed(call[c].q)
  BY <1>1 DEF Inv, CallsInOrder, CallInOrder, CallAdmitted
<1> QED
  BY <1>1, <1>2, <1>3, EarlyReader

LEMMA FaultsStay ==
    ASSUME Inv, UNCHANGED faults
    PROVE  faults' \in 0..MaxFaults
BY DEF Inv, Types, TypeWorld

\* The cause of a refusal makes no difference to what it leaves.
LEMMA RefusesEarly ==
    ASSUME Inv, Reads, UNCHANGED faults, NEW c \in Calls, Refuse(c)
    PROVE  Inv' /\ StoreGrows
BY FaultsStay, RefusedReader

LEMMA SubmitMoves ==
    ASSUME Inv, NEW c \in Calls, NEW q \in Quotes, Submit(c, q)
    PROVE  Inv' /\ StoreGrows
<1>1. /\ Reads /\ UNCHANGED faults /\ Frozen(q) /\ At(c, "idle")
  BY DEF Submit, Reads, Frozen
<1>2. /\ now \in Nat /\ quote[q].issuedAt \in Nat /\ quote[q].issuedAt <= now
  BY <1>1 DEF Inv, Types, TypeWorld, Times, StoreInOrder, QuoteInOrder, Frozen
<1>3. /\ Durable(q, now) \in Nat /\ Durable(q, now) % Second = 0
      /\ quote[q].issuedAt <= Durable(q, now)
  BY <1>2, DurableIsWhole
<1>4. /\ TypeCall' /\ OthersRest(c)
      /\ call'[c].point = (IF Consumed(q) THEN "load_proposal" ELSE "busy_outlook")
      /\ call'[c].q = q /\ call'[c].durable = Durable(q, now)
      /\ call'[c].retry = "no" /\ call'[c].result = "none"
  BY <1>3, SubmitBegins DEF Inv, Consumed
<1>5. StoreGrows
  BY <1>1, ReadRests
<1>6. quote'[q] = quote[q]
  BY <1>1 DEF Reads, store
<1>7. CallInOrder(c)'
  <2>1. CallOfQuote(c)'
    BY <1>1, <1>4, <1>6 DEF CallOfQuote, Frozen
  <2>2. CallAdmitted(c)'
    BY <1>3, <1>4, <1>6 DEF CallAdmitted, Consumed
  <2>3. CallRecorded(c)'
    BY <1>4 DEF CallRecorded, Tail, Audits, At, Submitted
  <2> QED
    BY <2>1, <2>2, <2>3 DEF CallInOrder
<1> QED
  BY <1>1, <1>4, <1>7, FaultsStay, ReaderMoves

LEMMA LoadProposalMoves ==
    ASSUME Inv, NEW c \in Calls, LoadProposal(c)
    PROVE  Inv' /\ StoreGrows
<1>1. Reads /\ UNCHANGED faults /\ call[c].point = "load_proposal"
  BY DEF LoadProposal, Reads, At
<1>2. call[c].point \in Early /\ "load_mapping" \in Early
  BY <1>1 DEF Early, Points, Tail
<1>3. Consumed(call[c].q)
  BY <1>1 DEF Inv, CallsInOrder, CallInOrder, CallAdmitted
<1>4. GoTo(c, "load_mapping") \/ Refuse(c)
  BY DEF LoadProposal
<1>5. CASE GoTo(c, "load_mapping")
  BY <1>1, <1>2, <1>3, <1>5, GoesOnEarly
<1>6. CASE Refuse(c)
  BY <1>1, <1>6, RefusesEarly
<1> QED
  BY <1>4, <1>5, <1>6

LEMMA LoadMappingMoves ==
    ASSUME Inv, NEW c \in Calls, LoadMapping(c)
    PROVE  Inv' /\ StoreGrows
<1>1. Reads /\ UNCHANGED faults /\ call[c].point = "load_mapping"
  BY DEF LoadMapping, Reads, At
<1>2. call[c].point \in Early /\ ~At(c, "idle")
  BY <1>1 DEF Early, Points, Tail, At
<1>3. Consumed(call[c].q) /\ call[c].q \in Quotes
  BY <1>1, <1>2, RequestIsFrozen DEF Inv, CallsInOrder, CallInOrder, CallAdmitted
<1>4. CASE Attached(call[c].q)
  <2>1. EnterTail(c)
    BY <1>4 DEF LoadMapping, Attached
  <2>2. /\ TypeCall' /\ OthersRest(c)
        /\ call'[c].point = "notify_owner" /\ call'[c].retry = "no"
        /\ call'[c].q = call[c].q /\ call'[c].result = "none"
    BY <2>1, EnterTailBegins DEF Inv, Types
  <2>3. Attached(call[c].q)'
    BY <1>1, <1>4, <2>2 DEF Attached, Reads, store
  <2>4. StoreGrows
    BY <1>1, ReadRests
  <2>5. CallInOrder(c)'
    BY <1>2, <2>2, <2>3, <2>4, TailBegins DEF Inv
  <2> QED
    BY <1>1, <2>2, <2>5, FaultsStay, ReaderMoves
<1>5. CASE ~Attached(call[c].q)
  <2>1. call' = [call EXCEPT ![c].point = "find", ![c].retry = "yes"]
    BY <1>5 DEF LoadMapping, Attached
  <2>2. /\ TypeCall' /\ OthersRest(c)
        /\ call'[c].point = "find" /\ call'[c].retry = "yes"
        /\ SameBut(call'[c], call[c])
    BY <2>1, RetryKeeps DEF Inv, Types
  <2>3. SameRequest(c) /\ call'[c].point \in Early
    BY <2>2 DEF SameRequest, SameBut, Early, Points, Tail
  <2> QED
    BY <1>1, <1>2, <1>3, <2>2, <2>3, EarlyReader
<1> QED
  BY <1>4, <1>5

LEMMA ListBusyOutlookMoves ==
    ASSUME Inv, NEW c \in Calls, ListBusyOutlook(c)
    PROVE  Inv' /\ StoreGrows
<1>1. Reads /\ UNCHANGED faults /\ call[c].point = "busy_outlook"
  BY DEF ListBusyOutlook, Reads, At
<1>2. call[c].point \in Early /\ "busy_google" \in Early
  BY <1>1 DEF Early, Points, Tail
<1>3. /\ TypeCall' /\ OthersRest(c) /\ SameRequest(c)
      /\ call'[c].point = "busy_google" /\ call'[c].retry = call[c].retry
  BY BusyOutlookKeeps DEF Inv, Types, SameRequest
<1>4. call'[c].retry = "yes" => Consumed(call[c].q)
  BY <1>3 DEF Inv, CallsInOrder, CallInOrder, CallAdmitted
<1> QED
  BY <1>1, <1>2, <1>3, <1>4, EarlyReader

LEMMA ListBusyGoogleMoves ==
    ASSUME Inv, NEW c \in Calls, ListBusyGoogle(c)
    PROVE  Inv' /\ StoreGrows
<1>1. Reads /\ UNCHANGED faults /\ call[c].point = "busy_google"
  BY DEF ListBusyGoogle, Reads, At
<1>2. call[c].point \in Early /\ {"find_busy", "create", "find"} \subseteq Early
  BY <1>1 DEF Early, Points, Tail
<1>3. call[c].retry = "yes" => Consumed(call[c].q)
  BY DEF Inv, CallsInOrder, CallInOrder, CallAdmitted
<1>4. \/ Refuse(c) \/ GoTo(c, "find_busy") \/ GoTo(c, "find")
      \/ (GoTo(c, "create") /\ Consumed(call[c].q))
  BY <1>3 DEF ListBusyGoogle
<1>5. CASE Refuse(c)
  BY <1>1, <1>5, RefusesEarly
<1>6. CASE GoTo(c, "find_busy")
  BY <1>1, <1>2, <1>6, GoesOnEarly
<1>7. CASE GoTo(c, "find")
  BY <1>1, <1>2, <1>7, GoesOnEarly
<1>8. CASE GoTo(c, "create") /\ Consumed(call[c].q)
  BY <1>1, <1>2, <1>8, GoesOnEarly
<1> QED
  BY <1>4, <1>5, <1>6, <1>7, <1>8

\* The event of a quote is found only if it was made.
LEMMA FoundMoves ==
    ASSUME Inv, Reads, UNCHANGED faults, NEW c \in Calls, call[c].point \in Early,
           EventMade(call[c].q), Found(c)
    PROVE  Inv' /\ StoreGrows
<1>1. {"attach", "submit_found"} \subseteq Early
  BY DEF Early, Points, Tail
<1>2. GoTo(c, "attach") \/ GoTo(c, "submit_found")
  BY DEF Found
<1>3. CASE GoTo(c, "attach")
  BY <1>1, <1>3, GoesOnEarly
<1>4. CASE GoTo(c, "submit_found")
  BY <1>1, <1>4, GoesOnEarly
<1> QED
  BY <1>2, <1>3, <1>4

LEMMA LiveWasMade == \A q : Live(q) => EventMade(q)
BY DEF Live, EventMade

LEMMA FindProposalWhenBusyMoves ==
    ASSUME Inv, NEW c \in Calls, FindProposalWhenBusy(c)
    PROVE  Inv' /\ StoreGrows
<1>1. Reads /\ UNCHANGED faults /\ call[c].point = "find_busy"
  BY DEF FindProposalWhenBusy, Reads, At
<1>2. call[c].point \in Early
  BY <1>1 DEF Early, Points, Tail
<1>3. Refuse(c) \/ (Found(c) /\ EventMade(call[c].q))
  BY LiveWasMade DEF FindProposalWhenBusy
<1>4. CASE Refuse(c)
  BY <1>1, <1>4, RefusesEarly
<1>5. CASE Found(c) /\ EventMade(call[c].q)
  BY <1>1, <1>2, <1>5, FoundMoves
<1> QED
  BY <1>3, <1>4, <1>5

LEMMA FindProposalMoves ==
    ASSUME Inv, NEW c \in Calls, FindProposal(c)
    PROVE  Inv' /\ StoreGrows
<1>1. Reads /\ UNCHANGED faults /\ call[c].point = "find"
  BY DEF FindProposal, Reads, At
<1>2. call[c].point \in Early /\ {"busy_outlook", "submit_new"} \subseteq Early
  BY <1>1 DEF Early, Points, Tail
<1>3. \/ Refuse(c) \/ (Found(c) /\ EventMade(call[c].q))
      \/ GoTo(c, "busy_outlook") \/ GoTo(c, "submit_new")
  BY LiveWasMade DEF FindProposal
<1>4. CASE Refuse(c)
  BY <1>1, <1>4, RefusesEarly
<1>5. CASE Found(c) /\ EventMade(call[c].q)
  BY <1>1, <1>2, <1>5, FoundMoves
<1>6. CASE GoTo(c, "busy_outlook")
  BY <1>1, <1>2, <1>6, GoesOnEarly
<1>7. CASE GoTo(c, "submit_new")
  BY <1>1, <1>2, <1>7, GoesOnEarly
<1> QED
  BY <1>3, <1>4, <1>5, <1>6, <1>7

LEMMA FailMoves ==
    ASSUME Inv, NEW c \in Calls, Fail(c)
    PROVE  Inv' /\ StoreGrows
<1>1. Reads /\ Refuse(c) /\ faults < MaxFaults /\ faults' = faults + 1
  BY DEF Fail, Reads
<1>2. faults' \in 0..MaxFaults
  BY <1>1, SubmissionAssumption DEF Inv, Types, TypeWorld
<1> QED
  BY <1>1, <1>2, RefusedReader

-----------------------------------------------------------------------------
(* Steps that write.                                                       *)

LEMMA WriterMoves ==
    ASSUME Inv, Types', StoreInOrder', StoreGrows, NEW c \in Calls,
           OthersRest(c), CallInOrder(c)'
    PROVE  Inv'
<1>1. CallsInOrder'
  BY OneCallMoves DEF Inv, Types
<1> QED
  BY <1>1 DEF Inv

\* The rows of one quote change and the clock does not.
LEMMA OneQuoteChanges ==
    ASSUME Inv, NEW q \in Quotes, \A p \in Quotes : p # q => Rests(p), Later,
           QuoteInOrder(q)', RecordInOrder(q)', Grows(q)
    PROVE  StoreInOrder' /\ StoreGrows
<1>1. \A p \in Quotes : QuoteInOrder(p)' /\ RecordInOrder(p)' /\ Grows(p)
  <2> SUFFICES ASSUME NEW p \in Quotes
               PROVE  QuoteInOrder(p)' /\ RecordInOrder(p)' /\ Grows(p)
    OBVIOUS
  <2>1. CASE p = q
    BY <2>1
  <2>2. CASE p # q
    BY <2>2, RestsInOrder DEF Inv, StoreInOrder, Types, TypeWorld
  <2> QED
    BY <2>1, <2>2
<1> QED
  BY <1>1 DEF StoreInOrder, StoreGrows

LEMMA NowStays ==
    ASSUME Inv, UNCHANGED now
    PROVE  Later
BY DEF Later, Inv, Types, TypeWorld, Times

LEMMA SubmitAppointmentQuoteMoves ==
    ASSUME Inv, NEW c \in Calls, SubmitAppointmentQuote(c)
    PROVE  Inv' /\ StoreGrows
<1>1. call[c].point \in {"submit_found", "submit_new"}
  BY DEF SubmitAppointmentQuote, At
<1>2. call[c].point \in Early /\ ~At(c, "idle")
  BY <1>1 DEF Early, Points, Tail, At
<1>3. PICK q \in Quotes : q = call[c].q /\ Frozen(q)
  BY <1>2, RequestIsFrozen DEF Inv
<1> DEFINE next == IF At(c, "submit_found") THEN "attach" ELSE "create"
<1>4. /\ UNCHANGED <<mapping, notes, audit, google, outlook, now, faults>>
      /\ IF Consumed(q) \/ ~Valid(q, call[c].durable)
         THEN UNCHANGED <<quote, proposal>>
         ELSE /\ quote' = [quote EXCEPT ![q].state = "consumed",
                                        ![q].consumedAt = call[c].durable]
              /\ proposal' = [proposal EXCEPT ![q] = "pending"]
      /\ IF Consumed(q) \/ Valid(q, call[c].durable) THEN GoTo(c, next) ELSE Refuse(c)
  BY <1>3 DEF SubmitAppointmentQuote, Consumed
<1>5. /\ next \in Early /\ next \in {"attach", "create"}
      /\ next = "attach" => EventMade(q)
  <2>1. next \in {"attach", "create"} /\ (next = "attach" => At(c, "submit_found"))
    OBVIOUS
  <2>2. CallAdmitted(c)
    BY DEF Inv, CallsInOrder, CallInOrder
  <2> QED
    BY <1>3, <2>1, <2>2 DEF Early, Points, Tail, CallAdmitted, At
<1> HIDE DEF next
<1>6. CASE Consumed(q)
  <2>1. Reads /\ UNCHANGED faults /\ GoTo(c, next)
    BY <1>4, <1>6 DEF Reads, store
  <2> QED
    BY <1>2, <1>3, <1>5, <1>6, <2>1, GoesOnEarly
<1>7. CASE ~Consumed(q) /\ ~Valid(q, call[c].durable)
  <2>1. Reads /\ UNCHANGED faults /\ Refuse(c)
    BY <1>4, <1>7 DEF Reads, store
  <2> QED
    BY <2>1, RefusesEarly
<1>8. CASE ~Consumed(q) /\ Valid(q, call[c].durable)
  <2> DEFINE r == [quote[q] EXCEPT !.state = "consumed",
                                   !.consumedAt = call[c].durable]
  <2>1. /\ quote' = [quote EXCEPT ![q] = r]
        /\ proposal' = [proposal EXCEPT ![q] = "pending"]
        /\ GoTo(c, next)
    BY <1>4, <1>8
  <2>2. /\ call[c].durable \in Nat /\ call[c].durable % Second = 0
        /\ quote[q].issuedAt <= call[c].durable
    BY <1>2, <1>3 DEF Inv, CallsInOrder, CallInOrder, CallAdmitted, Early
  <2>3. quote[q] \in QuoteRecords
    BY DEF Inv, Types, TypeQuote
  <2>4. /\ r \in QuoteRecords /\ r.state = "consumed" /\ r.consumedAt = call[c].durable
        /\ r.issuedAt = quote[q].issuedAt /\ r.offered = quote[q].offered
        /\ r.slot = quote[q].slot /\ r.included = quote[q].included
    BY <2>2, <2>3 DEF QuoteRecords
  <2> HIDE DEF r
  <2>5. quote \in [Quotes -> QuoteRecords] /\ proposal \in [Quotes -> ProposalStates]
    BY DEF Inv, Types, TypeQuote, TypeTables
  <2>6. /\ quote'[q] = r /\ proposal'[q] = "pending"
        /\ \A p \in Quotes : p # q => quote'[p] = quote[p] /\ proposal'[p] = proposal[p]
    BY <2>1, <2>5
  <2>7. Later /\ \A p \in Quotes : p # q => Rests(p)
    BY <1>4, <2>6, NowStays DEF Rests
  <2>8. QuoteInOrder(q) /\ RecordInOrder(q)
    BY DEF Inv, StoreInOrder
  <2>9. QuoteInOrder(q)'
    <3>1. /\ quote'[q].issuedAt \in Nat /\ quote'[q].issuedAt <= now'
          /\ quote'[q].slot \in quote'[q].offered
      BY <1>3, <1>4, <2>4, <2>6, <2>8 DEF QuoteInOrder, Frozen
    <3>2. /\ quote'[q].consumedAt \in Nat /\ quote'[q].consumedAt % Second = 0
      BY <2>2, <2>4, <2>6
    <3>3. Valid(q, quote[q].consumedAt)'
      BY <1>8, <2>4, <2>6 DEF Valid
    <3> QED
      BY <2>4, <2>6, <3>1, <3>2, <3>3 DEF QuoteInOrder, Frozen, Consumed
  <2>10. RecordInOrder(q)' /\ Grows(q)
    BY <1>3, <1>4, <1>8, <2>4, <2>6, <2>8
       DEF RecordInOrder, Grows, Consumed, Frozen, EventMade, Attached, Noted,
           Included, Live, QuoteInOrder
  <2>11. StoreInOrder' /\ StoreGrows
    BY <2>7, <2>9, <2>10, OneQuoteChanges
  <2>12. /\ TypeCall' /\ OthersRest(c) /\ call'[c].point = next
         /\ call'[c].retry = call[c].retry /\ SameBut(call'[c], call[c])
    BY <1>5, <2>1, GoToKeeps DEF Inv, Types, Early
  <2>13. SameRequest(c)
    BY <2>12 DEF SameRequest, SameBut
  <2>14. Consumed(call[c].q)' /\ (next = "attach" => EventMade(call[c].q)')
    BY <1>3, <1>4, <1>5, <2>4, <2>6, <2>13 DEF Consumed, EventMade, SameRequest
  <2>15. CallInOrder(c)'
    BY <1>2, <1>5, <2>11, <2>12, <2>13, <2>14, EarlyGoesOn DEF Inv
  <2>16. Types'
    <3>1. TypeQuote'
      BY <2>1, <2>4, <2>5 DEF TypeQuote
    <3>2. TypeTables'
      BY <1>4, <2>1, <2>5 DEF Inv, Types, TypeTables, ProposalStates
    <3> QED
      BY <1>4, <2>12, <3>1, <3>2 DEF Inv, Types, TypeGoogle, TypeWorld
  <2> QED
    BY <2>11, <2>12, <2>15, <2>16, WriterMoves
<1> QED
  BY <1>6, <1>7, <1>8

\* The provider's create is made for a consumed quote.
LEMMA CreatedGrows ==
    ASSUME Inv, NEW c \in Calls, At(c, "create"), google' = Created(c),
           UNCHANGED <<store, now>>
    PROVE  /\ StoreInOrder' /\ StoreGrows
           /\ TypeQuote' /\ TypeTables' /\ TypeGoogle'
<1>1. Later
  BY NowStays
<1>2. PICK q \in Quotes : q = call[c].q /\ Frozen(q)
  BY RequestIsFrozen DEF Inv, At
<1>3. Consumed(q)
  BY <1>2 DEF Inv, CallsInOrder, CallInOrder, CallAdmitted, At
<1>4. TypeQuote' /\ TypeTables'
  BY DEF Inv, Types, TypeQuote, TypeTables, store
<1>5. CASE EventMade(q)
  <2>1. UNCHANGED <<store, google>>
    BY <1>2, <1>5 DEF Created, EventMade
  <2> QED
    BY <1>1, <2>1, StoreRests DEF Inv
<1>6. CASE ~EventMade(q)
  <2> DEFINE r == [state |-> "needs_action", seenGoogle |-> call[c].seenGoogle,
                   seenOutlook |-> call[c].seenOutlook]
  <2>1. google' = [google EXCEPT ![q] = r]
    BY <1>2, <1>6 DEF Created, EventMade
  <2>2. call[c] \in CallRecords
    BY DEF Inv, Types, TypeCall
  <2>3. r \in EventRecords /\ r.state = "needs_action"
    BY <2>2 DEF EventRecords, EventStates, CallRecords
  <2> HIDE DEF r
  <2>4. google \in [Quotes -> EventRecords]
    BY DEF Inv, Types, TypeGoogle
  <2>5. /\ google'[q] = r /\ TypeGoogle'
        /\ \A p \in Quotes : p # q => google'[p] = google[p]
    BY <2>1, <2>3, <2>4 DEF TypeGoogle
  <2>6. \A p \in Quotes : p # q => Rests(p)
    BY <2>5 DEF Rests, store
  <2>7. QuoteInOrder(q) /\ RecordInOrder(q)
    BY DEF Inv, StoreInOrder
  <2>8. QuoteInOrder(q)'
    BY <2>7 DEF QuoteInOrder, Frozen, Consumed, Valid, store
  <2>9. RecordInOrder(q)' /\ Grows(q)
    BY <1>3, <1>6, <2>3, <2>5, <2>7
       DEF RecordInOrder, Grows, Consumed, Frozen, EventMade, Attached, Noted,
           Included, Live, store
  <2> QED
    BY <1>1, <1>4, <2>5, <2>6, <2>8, <2>9, OneQuoteChanges
<1> QED
  BY <1>5, <1>6

LEMMA CreateProposalMoves ==
    ASSUME Inv, NEW c \in Calls, CreateProposal(c) \/ CreateProposalUnanswered(c)
    PROVE  Inv' /\ StoreGrows
<1>1. /\ At(c, "create") /\ google' = Created(c) /\ UNCHANGED <<store, outlook, now>>
      /\ \/ Refuse(c)
         \/ GoTo(c, "attach") /\ google'[call[c].q].state = "needs_action"
  BY DEF CreateProposal, CreateProposalUnanswered
<1>2. /\ StoreInOrder' /\ StoreGrows
      /\ TypeQuote' /\ TypeTables' /\ TypeGoogle'
  BY <1>1, CreatedGrows
<1>3. TypeWorld'
  <2>1. CASE CreateProposal(c)
    BY <2>1 DEF CreateProposal, Inv, Types, TypeWorld
  <2>2. CASE CreateProposalUnanswered(c)
    BY <2>2, SubmissionAssumption DEF CreateProposalUnanswered, Inv, Types, TypeWorld
  <2> QED
    BY <2>1, <2>2
<1>4. CASE Refuse(c)
  <2>1. TypeCall' /\ OthersRest(c) /\ CallInOrder(c)'
    BY <1>4, RefuseIdles, IdleInOrder DEF Inv, Types
  <2> QED
    BY <1>2, <1>3, <2>1, WriterMoves DEF Types
<1>5. CASE GoTo(c, "attach") /\ google'[call[c].q].state = "needs_action"
  <2>1. call[c].point \in Early /\ "attach" \in Early
    BY <1>1 DEF Early, Points, Tail, At
  <2>2. /\ TypeCall' /\ OthersRest(c) /\ call'[c].point = "attach"
        /\ call'[c].retry = call[c].retry /\ SameBut(call'[c], call[c])
    BY <1>5, <2>1, GoToKeeps DEF Inv, Types, Early
  <2>3. SameRequest(c)
    BY <2>2 DEF SameRequest, SameBut
  <2>4. EventMade(call[c].q)'
    BY <1>5, <2>3 DEF EventMade, SameRequest
  <2>5. Consumed(call[c].q)'
    <3>1. Consumed(call[c].q)
      BY <1>1 DEF Inv, CallsInOrder, CallInOrder, CallAdmitted, At
    <3> QED
      BY <1>1, <2>3, <3>1 DEF Consumed, SameRequest, store
  <2>6. CallInOrder(c)'
    BY <1>2, <2>1, <2>2, <2>3, <2>4, <2>5, EarlyGoesOn DEF Inv
  <2> QED
    BY <1>2, <1>3, <2>2, <2>6, WriterMoves DEF Types
<1> QED
  BY <1>1, <1>4, <1>5

LEMMA AttachEventMappingMoves ==
    ASSUME Inv, NEW c \in Calls, AttachEventMapping(c)
    PROVE  Inv' /\ StoreGrows
<1>1. /\ At(c, "attach") /\ ~At(c, "idle") /\ EnterTail(c)
      /\ mapping' = [mapping EXCEPT ![call[c].q] = "attached"]
      /\ UNCHANGED <<quote, proposal, notes, audit, google, outlook, now, faults>>
  BY DEF AttachEventMapping, At
<1>2. PICK q \in Quotes : q = call[c].q /\ Frozen(q)
  BY <1>1, RequestIsFrozen DEF Inv
<1>3. EventMade(q)
  BY <1>1, <1>2 DEF Inv, CallsInOrder, CallInOrder, CallAdmitted, At
<1>4. /\ mapping'[q] = "attached"
      /\ \A p \in Quotes : p # q => mapping'[p] = mapping[p]
      /\ TypeTables'
  BY <1>1, <1>2 DEF Inv, Types, TypeTables
<1>5. Later /\ \A p \in Quotes : p # q => Rests(p)
  BY <1>1, <1>4, NowStays DEF Rests
<1>6. QuoteInOrder(q) /\ RecordInOrder(q)
  BY DEF Inv, StoreInOrder
<1>7. QuoteInOrder(q)'
  BY <1>1, <1>6 DEF QuoteInOrder, Frozen, Consumed, Valid
<1>8. RecordInOrder(q)' /\ Grows(q)
  BY <1>1, <1>3, <1>4, <1>6
     DEF RecordInOrder, Grows, Consumed, Frozen, EventMade, Attached, Noted,
         Included, Live
<1>9. StoreInOrder' /\ StoreGrows
  BY <1>5, <1>7, <1>8, OneQuoteChanges
<1>10. /\ TypeCall' /\ OthersRest(c)
       /\ call'[c].point = "notify_owner" /\ call'[c].retry = "no"
       /\ call'[c].q = call[c].q /\ call'[c].result = "none"
  BY <1>1, EnterTailBegins DEF Inv, Types
<1>11. Attached(call[c].q)'
  BY <1>2, <1>4, <1>10 DEF Attached
<1>12. CallInOrder(c)'
  BY <1>1, <1>9, <1>10, <1>11, TailBegins DEF Inv
<1>13. Types'
  BY <1>1, <1>4, <1>10 DEF Inv, Types, TypeQuote, TypeGoogle, TypeWorld
<1> QED
  BY <1>9, <1>10, <1>12, <1>13, WriterMoves

\* A notification row of an attached submission.
LEMMA NoteGrows ==
    ASSUME Inv, NEW q \in Quotes, NEW r \in Recipients, Attached(q),
           r = "requester" => Included(q),
           notes' = [notes EXCEPT ![q][r] = "queued"] \/ UNCHANGED notes,
           notes[q][r] = "none" => notes' = [notes EXCEPT ![q][r] = "queued"],
           UNCHANGED <<quote, proposal, mapping, audit, google, now>>
    PROVE  StoreInOrder' /\ StoreGrows /\ TypeTables' /\ Noted(q, r)'
<1>1. Later
  BY NowStays
<1>2. notes \in [Quotes -> [Recipients -> {"none", "queued", "moved"}]]
  BY DEF Inv, Types, TypeTables
<1>3. /\ notes' \in [Quotes -> [Recipients -> {"none", "queued", "moved"}]]
      /\ \A p \in Quotes : p # q => notes'[p] = notes[p]
      /\ \A s \in Recipients : s # r => notes'[q][s] = notes[q][s]
      /\ notes[q][r] # "none" => notes'[q][r] # "none"
      /\ notes'[q][r] # "none"
  <2>1. CASE notes' = [notes EXCEPT ![q][r] = "queued"]
    BY <1>2, <2>1
  <2>2. CASE UNCHANGED notes
    BY <1>2, <2>2
  <2> QED
    BY <2>1, <2>2
<1>4. \A p \in Quotes : p # q => Rests(p)
  BY <1>3 DEF Rests
<1>5. QuoteInOrder(q) /\ RecordInOrder(q)
  BY DEF Inv, StoreInOrder
<1>6. QuoteInOrder(q)'
  BY <1>5 DEF QuoteInOrder, Frozen, Consumed, Valid
<1>7. RecordInOrder(q)'
  <2>1. Noted(q, "requester")' => Included(q)
    BY <1>3, <1>5 DEF RecordInOrder, Noted, Recipients
  <2> QED
    BY <1>5, <2>1 DEF RecordInOrder, Consumed, EventMade, Attached, Included
<1>8. Grows(q)
  <2>1. \A s \in Recipients : Noted(q, s) => Noted(q, s)'
    BY <1>3 DEF Noted
  <2> QED
    BY <2>1 DEF Grows, Consumed, Frozen, EventMade, Attached, Live
<1>9. StoreInOrder' /\ StoreGrows
  BY <1>1, <1>4, <1>6, <1>7, <1>8, OneQuoteChanges
<1> QED
  BY <1>3, <1>9 DEF Inv, Types, TypeTables, Noted

\* An audit row of an attached submission.
LEMMA AuditGrows ==
    ASSUME Inv, NEW q \in Quotes, NEW k \in AuditKinds, Attached(q),
           k = "requester" => Included(q),
           audit' = [audit EXCEPT ![q] = @ \cup {k}],
           UNCHANGED <<quote, proposal, mapping, notes, google, now>>
    PROVE  StoreInOrder' /\ StoreGrows /\ TypeTables' /\ k \in audit'[q]
<1>1. Later
  BY NowStays
<1>2. audit \in [Quotes -> SUBSET AuditKinds]
  BY DEF Inv, Types, TypeTables
<1>3. /\ audit' \in [Quotes -> SUBSET AuditKinds]
      /\ \A p \in Quotes : p # q => audit'[p] = audit[p]
      /\ audit'[q] = audit[q] \cup {k}
  BY <1>2
<1>4. \A p \in Quotes : p # q => Rests(p)
  BY <1>3 DEF Rests
<1>5. QuoteInOrder(q) /\ RecordInOrder(q)
  BY DEF Inv, StoreInOrder
<1>6. QuoteInOrder(q)'
  BY <1>5 DEF QuoteInOrder, Frozen, Consumed, Valid
<1>7. RecordInOrder(q)'
  BY <1>3, <1>5 DEF RecordInOrder, Consumed, EventMade, Attached, Included, Noted
<1>8. Grows(q)
  BY <1>3 DEF Grows, Consumed, Frozen, EventMade, Attached, Live, Noted
<1>9. StoreInOrder' /\ StoreGrows
  BY <1>1, <1>4, <1>6, <1>7, <1>8, OneQuoteChanges
<1> QED
  BY <1>3, <1>9 DEF Inv, Types, TypeTables

\* The facts an execution has written by the time it stands in the tail are
\* kept by a step that adds what the new point requires.
LEMMA TailGoesOn ==
    ASSUME CallsInOrder, StoreGrows, NEW c \in Calls, call[c].point \in Tail,
           NEW q \in Quotes, q = call[c].q, call'[c].q = q,
           call'[c].point \in Tail \ {"notify_owner"} \/ Submitted(c)',
           call'[c].point \in Tail \cup {"idle"},
           call'[c].retry = call[c].retry \/ call'[c].retry = "no",
           call'[c].retry = "yes" => call'[c].point # "idle",
           \* what was written before the new point
           Noted(q, "owner")',
           call'[c].point \in {"notify_requester", "audit_requester"} => Included(q),
           call'[c].point \in Audits \/ Submitted(c)'
              => (Included(q) => Noted(q, "requester")'),
           call'[c].point \in Audits \ {"audit_request"} \/ Submitted(c)'
              => "request" \in audit'[q],
           call'[c].point \in {"audit_owner", "audit_requester"} \/ Submitted(c)'
              => "proposal" \in audit'[q],
           At(c, "audit_requester")' \/ Submitted(c)' => "owner" \in audit'[q],
           Submitted(c)' => (Included(q) => "requester" \in audit'[q])
    PROVE  CallInOrder(c)'
<1>1. Frozen(q) /\ Grows(q) /\ CallInOrder(c)
  BY DEF CallsInOrder, CallInOrder, CallOfQuote, StoreGrows, At, Tail
<1>2. CallOfQuote(c)'
  BY <1>1 DEF CallOfQuote, Grows, Frozen
<1>3. CallAdmitted(c)'
  BY <1>1 DEF CallInOrder, CallAdmitted, Tail, At, Grows, Consumed
<1>4. (Included(q)' <=> Included(q)) /\ Attached(q)'
  BY <1>1 DEF Grows, Included, CallInOrder, CallRecorded, Attached
<1>5. CallRecorded(c)'
  BY <1>4 DEF CallRecorded, Included, Attached, Noted
<1> QED
  BY <1>2, <1>3, <1>5 DEF CallInOrder

\* What an execution relies on when it stands at p.
Written(q, p) ==
    /\ Noted(q, "owner")
    /\ p \in {"notify_requester", "audit_requester"} => Included(q)
    /\ p \in Audits => (Included(q) => Noted(q, "requester"))
    /\ p \in Audits \ {"audit_request"} => "request" \in audit[q]
    /\ p \in {"audit_owner", "audit_requester"} => "proposal" \in audit[q]
    /\ p = "audit_requester" => "owner" \in audit[q]

LEMMA TailGoTo ==
    ASSUME Inv, StoreGrows, NEW c \in Calls, call[c].point \in Tail,
           NEW q \in Quotes, q = call[c].q,
           NEW p \in Tail \ {"notify_owner"}, GoTo(c, p), Written(q, p)'
    PROVE  TypeCall' /\ OthersRest(c) /\ CallInOrder(c)'
<1>1. /\ TypeCall' /\ OthersRest(c) /\ call'[c].point = p
      /\ call'[c].retry = call[c].retry /\ SameBut(call'[c], call[c])
  BY GoToKeeps DEF Inv, Types, Tail, Points
<1>2. Frozen(q) /\ Grows(q) /\ CallRecorded(c)
  BY DEF Inv, CallsInOrder, CallInOrder, CallOfQuote, StoreGrows, At, Tail
<1>3. (Included(q)' <=> Included(q)) /\ call'[c].q = q /\ (Submitted(c)' => Submitted(c))
  BY <1>1, <1>2 DEF Grows, Included, SameBut, Submitted
<1>4. Submitted(c)' => /\ Included(q) => Noted(q, "requester")'
                       /\ Included(q) => "requester" \in audit'[q]
                       /\ {"request", "proposal", "owner"} \subseteq audit'[q]
  BY <1>2, <1>3 DEF CallRecorded, Grows, Recipients
<1>5. p # "idle" /\ CallsInOrder
  BY DEF Tail, Inv
<1>6. CallInOrder(c)'
  BY <1>1, <1>3, <1>4, <1>5, TailGoesOn DEF Written, At
<1> QED
  BY <1>1, <1>6

LEMMA TailSucceeds ==
    ASSUME Inv, StoreGrows, NEW c \in Calls, call[c].point \in Tail,
           NEW q \in Quotes, q = call[c].q, Succeed(c), Noted(q, "owner")',
           Included(q) => Noted(q, "requester")',
           Included(q) => "requester" \in audit'[q],
           {"request", "proposal", "owner"} \subseteq audit'[q]
    PROVE  TypeCall' /\ OthersRest(c) /\ CallInOrder(c)'
<1>1. /\ TypeCall' /\ OthersRest(c)
      /\ call'[c].point = "idle" /\ call'[c].retry = "no"
      /\ call'[c].q = call[c].q /\ call'[c].result = "submitted"
  BY SucceedEnds DEF Inv, Types
<1>2. CallsInOrder /\ Submitted(c)'
  BY <1>1 DEF Inv, Submitted
<1>3. ~At(c, "audit_requester")' /\ "idle" \notin Tail /\ "idle" \notin Audits
  BY <1>1 DEF At, Tail, Audits
<1>4. CallInOrder(c)'
  BY <1>1, <1>2, <1>3, TailGoesOn
<1> QED
  BY <1>1, <1>4

LEMMA TailWrites ==
    ASSUME Inv, StoreInOrder', StoreGrows, TypeTables',
           UNCHANGED <<quote, google, outlook, now, faults>>,
           NEW c \in Calls,
           Refuse(c) \/ (TypeCall' /\ OthersRest(c) /\ CallInOrder(c)')
    PROVE  Inv'
<1>1. TypeCall' /\ OthersRest(c) /\ CallInOrder(c)'
  BY RefuseIdles, IdleInOrder DEF Inv, Types
<1>2. Types'
  BY <1>1 DEF Inv, Types, TypeQuote, TypeGoogle, TypeWorld
<1> QED
  BY <1>1, <1>2, WriterMoves

LEMMA TailOfCall ==
    ASSUME Inv, NEW c \in Calls, call[c].point \in Tail
    PROVE  /\ CallRecorded(c)
           /\ \E q \in Quotes : q = call[c].q /\ Frozen(q) /\ Attached(q)
BY RequestIsFrozen DEF Inv, CallsInOrder, CallInOrder, CallRecorded, Tail, At

LEMMA NotifyOwnerMoves ==
    ASSUME Inv, NEW c \in Calls, NotifyOwner(c)
    PROVE  Inv' /\ StoreGrows
<1>1. call[c].point \in Tail /\ call[c].point = "notify_owner"
  BY DEF NotifyOwner, At, Tail
<1>2. PICK q \in Quotes : q = call[c].q /\ Frozen(q) /\ Attached(q)
  BY <1>1, TailOfCall
<1>3. /\ notes' = Enqueued(c, "owner")
      /\ UNCHANGED <<quote, proposal, mapping, audit, google, outlook, now, faults>>
      /\ IF EnqueueRefused(c, "owner") THEN Refuse(c)
         ELSE GoTo(c, IF quote[call[c].q].included = "yes" THEN "notify_requester"
                                                           ELSE "audit_request")
  BY DEF NotifyOwner
<1>4. StoreInOrder' /\ StoreGrows /\ TypeTables' /\ Noted(q, "owner")'
  BY <1>2, <1>3, NoteGrows DEF Enqueued, Recipients
<1>5. CASE Refuse(c)
  BY <1>3, <1>4, <1>5, TailWrites
<1>6. CASE Included(q) /\ GoTo(c, "notify_requester")
  <2>1. Written(q, "notify_requester")'
    BY <1>3, <1>4, <1>6 DEF Written, Included, Audits, Tail
  <2>2. "notify_requester" \in Tail \ {"notify_owner"}
    BY DEF Tail
  <2> QED
    BY <1>1, <1>2, <1>3, <1>4, <1>6, <2>1, <2>2, TailGoTo, TailWrites
<1>7. CASE ~Included(q) /\ GoTo(c, "audit_request")
  <2>1. Written(q, "audit_request")'
    BY <1>3, <1>4, <1>7 DEF Written, Included
  <2>2. "audit_request" \in Tail \ {"notify_owner"}
    BY DEF Tail
  <2> QED
    BY <1>1, <1>2, <1>3, <1>4, <1>7, <2>1, <2>2, TailGoTo, TailWrites
<1> QED
  BY <1>2, <1>3, <1>5, <1>6, <1>7 DEF Included

LEMMA NotifyRequesterMoves ==
    ASSUME Inv, NEW c \in Calls, NotifyRequester(c)
    PROVE  Inv' /\ StoreGrows
<1>1. call[c].point \in Tail /\ call[c].point = "notify_requester"
  BY DEF NotifyRequester, At, Tail
<1>2. PICK q \in Quotes : q = call[c].q /\ Frozen(q) /\ Attached(q)
  BY <1>1, TailOfCall
<1>3. /\ notes' = Enqueued(c, "requester")
      /\ UNCHANGED <<quote, proposal, mapping, audit, google, outlook, now, faults>>
      /\ IF EnqueueRefused(c, "requester") THEN Refuse(c) ELSE GoTo(c, "audit_request")
  BY DEF NotifyRequester
<1>4. Included(q) /\ Noted(q, "owner") /\ "requester" \in Recipients
  BY <1>1, <1>2, TailOfCall DEF CallRecorded, Tail, Recipients
<1>5. StoreInOrder' /\ StoreGrows /\ TypeTables' /\ Noted(q, "requester")'
  BY <1>2, <1>3, <1>4, NoteGrows DEF Enqueued
<1>6. CASE Refuse(c)
  BY <1>3, <1>5, <1>6, TailWrites
<1>7. CASE GoTo(c, "audit_request")
  <2>1. Noted(q, "owner")'
    BY <1>4, <1>5 DEF StoreGrows, Grows, Recipients
  <2>2. Written(q, "audit_request")' /\ "audit_request" \in Tail \ {"notify_owner"}
    BY <1>5, <2>1 DEF Written, Tail
  <2> QED
    BY <1>1, <1>2, <1>3, <1>5, <1>7, <2>2, TailGoTo, TailWrites
<1> QED
  BY <1>3, <1>6, <1>7

AuditFacts(c, point, kind) ==
    /\ call[c].point = point
    /\ audit' = [audit EXCEPT ![call[c].q] = @ \cup {kind}]
    /\ UNCHANGED <<quote, proposal, mapping, notes, google, outlook, now, faults>>

LEMMA AuditWrites ==
    ASSUME Inv, NEW c \in Calls, NEW point \in Audits, NEW kind \in AuditKinds,
           AuditFacts(c, point, kind),
           NEW q \in Quotes, q = call[c].q, kind = "requester" => Included(q)
    PROVE  /\ StoreInOrder' /\ StoreGrows /\ TypeTables' /\ kind \in audit'[q]
           /\ Noted(q, "owner")' /\ (Included(q) => Noted(q, "requester")')
           /\ call[c].point \in Tail /\ CallRecorded(c)
           /\ Included(q)' <=> Included(q)
<1>1. call[c].point \in Tail /\ call[c].point \in Audits
  BY DEF AuditFacts, Audits
<1>2. CallRecorded(c) /\ Attached(q)
  BY <1>1, TailOfCall
<1>3. StoreInOrder' /\ StoreGrows /\ TypeTables' /\ kind \in audit'[q]
  BY <1>2, AuditGrows DEF AuditFacts
<1>4. Noted(q, "owner") /\ (Included(q) => Noted(q, "requester"))
  BY <1>1, <1>2 DEF CallRecorded, Audits
<1> QED
  BY <1>1, <1>2, <1>3, <1>4 DEF AuditFacts, Noted, Included

LEMMA AppendAuditsMoves ==
    ASSUME Inv, NEW c \in Calls, AppendAudits(c)
    PROVE  Inv' /\ StoreGrows
<1>0. call[c].point \in Tail
  BY DEF AppendAudits, AppendAudit, At, Tail
<1>1. PICK q \in Quotes : q = call[c].q /\ Frozen(q) /\ Attached(q)
  BY <1>0, TailOfCall
<1>2. CallRecorded(c)
  BY <1>0, TailOfCall
<1>3. CASE AppendAudit(c, "audit_request", "request", GoTo(c, "audit_proposal"))
  <2>1. AuditFacts(c, "audit_request", "request") /\ GoTo(c, "audit_proposal")
    BY <1>3 DEF AppendAudit, AuditFacts, At
  <2>2. "audit_request" \in Audits /\ "request" \in AuditKinds
        /\ "audit_proposal" \in Tail \ {"notify_owner"}
    BY DEF Audits, Tail, AuditKinds
  <2>3. /\ StoreInOrder' /\ StoreGrows /\ TypeTables' /\ "request" \in audit'[q]
        /\ Noted(q, "owner")' /\ (Included(q) => Noted(q, "requester")')
        /\ Included(q)' <=> Included(q)
    BY <1>1, <2>1, <2>2, AuditWrites
  <2>4. Written(q, "audit_proposal")'
    BY <2>3 DEF Written, Noted, Included
  <2> QED
    BY <1>0, <1>1, <2>1, <2>2, <2>3, <2>4, TailGoTo, TailWrites DEF AuditFacts
<1>4. CASE AppendAudit(c, "audit_proposal", "proposal", GoTo(c, "audit_owner"))
  <2>1. AuditFacts(c, "audit_proposal", "proposal") /\ GoTo(c, "audit_owner")
    BY <1>4 DEF AppendAudit, AuditFacts, At
  <2>2. "audit_proposal" \in Audits /\ "proposal" \in AuditKinds
        /\ "audit_owner" \in Tail \ {"notify_owner"}
    BY DEF Audits, Tail, AuditKinds
  <2>3. /\ StoreInOrder' /\ StoreGrows /\ TypeTables' /\ "proposal" \in audit'[q]
        /\ Noted(q, "owner")' /\ (Included(q) => Noted(q, "requester")')
        /\ Included(q)' <=> Included(q)
    BY <1>1, <2>1, <2>2, AuditWrites
  <2>4. "request" \in audit'[q]
    BY <1>1, <1>2, <2>1, <2>3 DEF CallRecorded, AuditFacts, Audits, Tail, StoreGrows, Grows
  <2>5. Written(q, "audit_owner")'
    BY <2>3, <2>4 DEF Written, Noted, Included
  <2> QED
    BY <1>0, <1>1, <2>1, <2>2, <2>3, <2>5, TailGoTo, TailWrites DEF AuditFacts
<1>5. CASE AppendAudit(c, "audit_owner", "owner",
                       IF quote[call[c].q].included = "yes"
                       THEN GoTo(c, "audit_requester") ELSE Succeed(c))
  <2>1. /\ AuditFacts(c, "audit_owner", "owner")
        /\ IF Included(q) THEN GoTo(c, "audit_requester") ELSE Succeed(c)
    BY <1>1, <1>5 DEF AppendAudit, AuditFacts, At, Included
  <2>2. "audit_owner" \in Audits /\ "owner" \in AuditKinds
        /\ "audit_requester" \in Tail \ {"notify_owner"}
    BY DEF Audits, Tail, AuditKinds
  <2>3. /\ StoreInOrder' /\ StoreGrows /\ TypeTables' /\ "owner" \in audit'[q]
        /\ Noted(q, "owner")' /\ (Included(q) => Noted(q, "requester")')
        /\ Included(q)' <=> Included(q)
    BY <1>1, <2>1, <2>2, AuditWrites
  <2>4. {"request", "proposal"} \subseteq audit'[q]
    BY <1>1, <1>2, <2>1, <2>3 DEF CallRecorded, AuditFacts, Audits, Tail, StoreGrows, Grows
  <2>5. CASE Included(q)
    <3>1. Written(q, "audit_requester")'
      BY <2>3, <2>4, <2>5 DEF Written, Noted, Included
    <3> QED
      BY <1>0, <1>1, <2>1, <2>2, <2>3, <2>5, <3>1, TailGoTo, TailWrites DEF AuditFacts
  <2>6. CASE ~Included(q)
    <3>1. TypeCall' /\ OthersRest(c) /\ CallInOrder(c)'
      BY <1>0, <1>1, <2>1, <2>3, <2>4, <2>6, TailSucceeds
    <3> QED
      BY <2>1, <2>3, <3>1, TailWrites DEF AuditFacts
  <2> QED
    BY <2>5, <2>6
<1>6. CASE AppendAudit(c, "audit_requester", "requester", Succeed(c))
  <2>1. AuditFacts(c, "audit_requester", "requester") /\ Succeed(c)
    BY <1>6 DEF AppendAudit, AuditFacts, At
  <2>2. "audit_requester" \in Audits /\ "requester" \in AuditKinds
    BY DEF Audits, Tail, AuditKinds
  <2>3. Included(q)
    BY <1>1, <1>2, <2>1 DEF CallRecorded, AuditFacts
  <2>4. /\ StoreInOrder' /\ StoreGrows /\ TypeTables' /\ "requester" \in audit'[q]
        /\ Noted(q, "owner")' /\ (Included(q) => Noted(q, "requester")')
    BY <1>1, <2>1, <2>2, <2>3, AuditWrites
  <2>5. {"request", "proposal", "owner"} \subseteq audit'[q]
    BY <1>1, <1>2, <2>1, <2>4
       DEF CallRecorded, AuditFacts, At, Audits, Tail, StoreGrows, Grows
  <2>6. TypeCall' /\ OthersRest(c) /\ CallInOrder(c)'
    BY <1>0, <1>1, <2>1, <2>4, <2>5, TailSucceeds
  <2> QED
    BY <2>1, <2>4, <2>6, TailWrites DEF AuditFacts
<1> QED
  BY <1>3, <1>4, <1>5, <1>6 DEF AppendAudits

LEMMA AdvanceMoves ==
    ASSUME Inv, NEW c \in Calls, Advance(c)
    PROVE  Inv' /\ StoreGrows
BY LoadProposalMoves, LoadMappingMoves, ListBusyOutlookMoves, ListBusyGoogleMoves,
   FindProposalWhenBusyMoves, FindProposalMoves, SubmitAppointmentQuoteMoves,
   CreateProposalMoves, AttachEventMappingMoves, NotifyOwnerMoves,
   NotifyRequesterMoves, AppendAuditsMoves
   DEF Advance

-----------------------------------------------------------------------------
(* Steps that move no execution.                                           *)

LEMMA CallsRest ==
    ASSUME Inv, UNCHANGED call, StoreInOrder', StoreGrows,
           TypeQuote', TypeGoogle', TypeTables', TypeWorld'
    PROVE  Inv'
<1>1. TypeCall'
  BY DEF Inv, Types, TypeCall
<1>2. \A c \in Calls : CallInOrder(c)'
  BY CallStays DEF Inv, Types, CallsInOrder
<1> QED
  BY <1>1, <1>2 DEF Inv, Types, CallsInOrder

\* A quote that is not consumed has nothing but its row.
LEMMA OnlyConsumedHasMore ==
    ASSUME Inv, NEW q \in Quotes, ~Consumed(q)
    PROVE  /\ proposal[q] = "none" /\ ~EventMade(q) /\ ~Attached(q) /\ audit[q] = {}
           /\ \A r \in Recipients : ~Noted(q, r)
BY DEF Inv, StoreInOrder, QuoteInOrder, RecordInOrder

\* The row of a quote that is not consumed changes to another such row.
LEMMA QuoteRowChanges ==
    ASSUME Inv, NEW q \in Quotes, ~Frozen(q), NEW r \in QuoteRecords,
           quote' = [quote EXCEPT ![q] = r],
           UNCHANGED <<proposal, mapping, notes, audit, google, outlook, call, now, faults>>,
           r.state \in {"issued", "prepared"}, r.consumedAt = NoTime,
           r.issuedAt \in Nat, r.issuedAt <= now,
           r.state = "issued" => r.slot = NoTime,
           r.state = "prepared" => r.slot \in r.offered
    PROVE  Inv' /\ StoreGrows
<1>1. quote \in [Quotes -> QuoteRecords] /\ ~Consumed(q)
  BY DEF Inv, Types, TypeQuote, Frozen, Consumed
<1>2. quote'[q] = r /\ (\A p \in Quotes : p # q => quote'[p] = quote[p]) /\ TypeQuote'
  BY <1>1 DEF TypeQuote
<1>3. Later /\ \A p \in Quotes : p # q => Rests(p)
  BY <1>2, NowStays DEF Rests
<1>4. /\ proposal[q] = "none" /\ ~EventMade(q) /\ ~Attached(q) /\ audit[q] = {}
      /\ \A s \in Recipients : ~Noted(q, s)
  BY <1>1, OnlyConsumedHasMore
<1>5. QuoteInOrder(q)'
  BY <1>2, <1>4 DEF QuoteInOrder, Frozen, Consumed
<1>6. RecordInOrder(q)'
  BY <1>2, <1>4 DEF RecordInOrder, EventMade, Attached, Noted, Consumed, Recipients
<1>7. Grows(q)
  BY <1>1, <1>4 DEF Grows, EventMade, Attached, Noted
<1>8. StoreInOrder' /\ StoreGrows
  BY <1>3, <1>5, <1>6, <1>7, OneQuoteChanges
<1>9. TypeGoogle' /\ TypeTables' /\ TypeWorld'
  BY DEF Inv, Types, TypeGoogle, TypeTables, TypeWorld
<1> QED
  BY <1>2, <1>8, <1>9, CallsRest

LEMMA SearchSlotsMoves ==
    ASSUME Inv, NEW q \in Quotes, SearchSlots(q)
    PROVE  Inv' /\ StoreGrows
<1> DEFINE offer == Offer(now)
           r == [NoQuote EXCEPT !.state = "issued", !.issuedAt = now, !.offered = offer]
<1>1. offer \subseteq Starts /\ now \in Times /\ now \in Nat
  BY DEF Offer, Inv, Types, TypeWorld, Times
<1>2. /\ quote' = [quote EXCEPT ![q] = r] /\ ~Frozen(q)
      /\ UNCHANGED <<proposal, mapping, notes, audit, google, outlook, call, now, faults>>
  BY DEF SearchSlots, Frozen
<1> HIDE DEF offer
<1>3. /\ r \in QuoteRecords /\ r.state = "issued" /\ r.issuedAt = now
      /\ r.slot = NoTime /\ r.consumedAt = NoTime
  BY <1>1 DEF QuoteRecords, NoQuote
<1> HIDE DEF r
<1>4. /\ r.state \in {"issued", "prepared"} /\ r.state # "prepared"
      /\ r.issuedAt \in Nat /\ r.issuedAt <= now
  BY <1>1, <1>3
<1> QED
  BY <1>2, <1>3, <1>4, QuoteRowChanges

LEMMA PrepareRequestMoves ==
    ASSUME Inv, NEW q \in Quotes, NEW s \in Starts, NEW inc \in {"yes", "no"},
           PrepareRequest(q, s, inc)
    PROVE  Inv' /\ StoreGrows
<1> DEFINE r == [quote[q] EXCEPT !.state = "prepared", !.slot = s, !.included = inc]
<1>1. /\ quote[q] \in QuoteRecords /\ quote[q].issuedAt \in Nat
      /\ quote[q].issuedAt <= now /\ quote[q].consumedAt = NoTime
      /\ s \in quote[q].offered /\ ~Frozen(q)
  BY DEF Inv, Types, TypeQuote, StoreInOrder, QuoteInOrder, PrepareRequest, Frozen,
         Consumed
<1>2. /\ quote' = [quote EXCEPT ![q] = r]
      /\ UNCHANGED <<proposal, mapping, notes, audit, google, outlook, call, now, faults>>
  BY DEF PrepareRequest
<1>3. /\ r \in QuoteRecords /\ r.state = "prepared" /\ r.slot = s
      /\ r.issuedAt = quote[q].issuedAt /\ r.offered = quote[q].offered
      /\ r.consumedAt = quote[q].consumedAt
  BY <1>1 DEF QuoteRecords
<1> HIDE DEF r
<1> QED
  BY <1>1, <1>2, <1>3, QuoteRowChanges

LEMMA TransitionProposalMoves ==
    ASSUME Inv, NEW q \in Quotes, NEW s \in Outcomes, TransitionProposal(q, s)
    PROVE  Inv' /\ StoreGrows
<1>1. /\ proposal[q] = "pending" /\ proposal' = [proposal EXCEPT ![q] = s]
      /\ UNCHANGED <<quote, mapping, notes, audit, google, outlook, call, now, faults>>
  BY DEF TransitionProposal
<1>2. s \in {"accepted", "declined", "expired"}
  BY SubmissionAssumption
<1>3. /\ proposal'[q] = s /\ (\A p \in Quotes : p # q => proposal'[p] = proposal[p])
      /\ TypeTables'
  BY <1>1, <1>2 DEF Inv, Types, TypeTables, ProposalStates
<1>4. Later /\ \A p \in Quotes : p # q => Rests(p)
  BY <1>1, <1>3, NowStays DEF Rests
<1>5. QuoteInOrder(q) /\ RecordInOrder(q) /\ Consumed(q)
  BY <1>1, OnlyConsumedHasMore DEF Inv, StoreInOrder
<1>6. QuoteInOrder(q)' /\ RecordInOrder(q)' /\ Grows(q)
  BY <1>1, <1>2, <1>3, <1>5
     DEF QuoteInOrder, RecordInOrder, Grows, Frozen, Consumed, Valid, EventMade,
         Attached, Noted, Included, Live
<1>7. StoreInOrder' /\ StoreGrows
  BY <1>4, <1>6, OneQuoteChanges
<1>8. TypeQuote' /\ TypeGoogle' /\ TypeWorld'
  BY <1>1 DEF Inv, Types, TypeQuote, TypeGoogle, TypeWorld
<1> QED
  BY <1>1, <1>3, <1>7, <1>8, CallsRest

LEMMA OwnerAnswersMoves ==
    ASSUME Inv, NEW q \in Quotes, NEW s \in Answers, OwnerAnswers(q, s)
    PROVE  Inv' /\ StoreGrows
<1> DEFINE r == [google[q] EXCEPT !.state = s]
<1>1. /\ Live(q) /\ google' = [google EXCEPT ![q] = r]
      /\ UNCHANGED <<store, outlook, call, now, faults>>
  BY DEF OwnerAnswers
<1>2. s \in {"accepted", "declined", "deleted"} /\ google[q] \in EventRecords
  BY SubmissionAssumption DEF Inv, Types, TypeGoogle
<1>3. /\ r \in EventRecords /\ r.state = s
      /\ r.seenGoogle = google[q].seenGoogle /\ r.seenOutlook = google[q].seenOutlook
  BY <1>2 DEF EventRecords, EventStates
<1> HIDE DEF r
<1>4. /\ google'[q] = r /\ (\A p \in Quotes : p # q => google'[p] = google[p])
      /\ TypeGoogle'
  BY <1>1, <1>3 DEF Inv, Types, TypeGoogle
<1>5. Later /\ \A p \in Quotes : p # q => Rests(p)
  BY <1>1, <1>4, NowStays DEF Rests, store
<1>6. QuoteInOrder(q) /\ RecordInOrder(q) /\ EventMade(q)
  BY <1>1, LiveWasMade DEF Inv, StoreInOrder
<1>7. QuoteInOrder(q)' /\ RecordInOrder(q)' /\ Grows(q)
  BY <1>1, <1>2, <1>3, <1>4, <1>6
     DEF QuoteInOrder, RecordInOrder, Grows, Frozen, Consumed, Valid, EventMade,
         Attached, Noted, Included, Live, store
<1>8. StoreInOrder' /\ StoreGrows
  BY <1>5, <1>7, OneQuoteChanges
<1>9. TypeQuote' /\ TypeTables' /\ TypeWorld'
  BY <1>1 DEF Inv, Types, TypeQuote, TypeTables, TypeWorld, store
<1> QED
  BY <1>1, <1>4, <1>8, <1>9, CallsRest

LEMMA DeliveryMovedMoves ==
    ASSUME Inv, NEW q \in Quotes, NEW r \in Recipients, DeliveryMoved(q, r)
    PROVE  Inv' /\ StoreGrows
<1>1. /\ notes[q][r] = "queued" /\ notes' = [notes EXCEPT ![q][r] = "moved"]
      /\ UNCHANGED <<quote, proposal, mapping, audit, google, outlook, call, now, faults>>
  BY DEF DeliveryMoved
<1>2. notes \in [Quotes -> [Recipients -> {"none", "queued", "moved"}]]
  BY DEF Inv, Types, TypeTables
<1>3. /\ notes' \in [Quotes -> [Recipients -> {"none", "queued", "moved"}]]
      /\ \A p \in Quotes : p # q => notes'[p] = notes[p]
      /\ \A s \in Recipients : s # r => notes'[q][s] = notes[q][s]
      /\ notes'[q][r] = "moved"
  BY <1>1, <1>2
<1>4. \A s \in Recipients : Noted(q, s)' <=> Noted(q, s)
  BY <1>1, <1>3 DEF Noted
<1>5. Later /\ \A p \in Quotes : p # q => Rests(p)
  BY <1>1, <1>3, NowStays DEF Rests
<1>6. QuoteInOrder(q) /\ RecordInOrder(q)
  BY DEF Inv, StoreInOrder
<1>7. QuoteInOrder(q)'
  BY <1>1, <1>6 DEF QuoteInOrder, Frozen, Consumed, Valid
<1>8. RecordInOrder(q)' /\ Grows(q)
  BY <1>1, <1>4, <1>6
     DEF RecordInOrder, Grows, Consumed, Frozen, EventMade, Attached, Included, Live,
         Recipients
<1>9. StoreInOrder' /\ StoreGrows
  BY <1>5, <1>7, <1>8, OneQuoteChanges
<1>10. TypeQuote' /\ TypeGoogle' /\ TypeTables' /\ TypeWorld'
  BY <1>1, <1>3 DEF Inv, Types, TypeQuote, TypeGoogle, TypeTables, TypeWorld
<1> QED
  BY <1>1, <1>9, <1>10, CallsRest

LEMMA WorldMoves ==
    ASSUME Inv, Tick \/ \E s \in OwnerStarts : OwnerBooks(s)
    PROVE  Inv' /\ StoreGrows
<1>1. UNCHANGED <<store, google, call>>
  BY DEF Tick, OwnerBooks
<1>2. Later /\ TypeWorld'
  <2>1. now \in 0..MaxTime /\ MaxTime \in Nat /\ TypeWorld
    BY SubmissionAssumption DEF Inv, Types, TypeWorld, Times
  <2>2. CASE Tick
    BY <2>1, <2>2 DEF Tick, Later, TypeWorld, Times
  <2>3. CASE \E s \in OwnerStarts : OwnerBooks(s)
    BY <2>1, <2>3 DEF OwnerBooks, Later, TypeWorld, Times
  <2> QED
    BY <2>2, <2>3
<1>3. StoreInOrder' /\ StoreGrows /\ TypeQuote' /\ TypeGoogle' /\ TypeTables'
  BY <1>1, <1>2, StoreRests DEF Inv
<1> QED
  BY <1>1, <1>2, <1>3, CallsRest

-----------------------------------------------------------------------------
(* The invariant.                                                          *)

LEMMA InitHolds == Init => Inv
<1> SUFFICES ASSUME Init
             PROVE  Inv
  OBVIOUS
<1>1. NoQuote \in QuoteRecords /\ NoEvent \in EventRecords
  BY DEF NoQuote, NoEvent, QuoteRecords, EventRecords, EventStates
<1>2. TypeQuote /\ TypeGoogle /\ TypeCall
  BY <1>1, IdleIsTyped DEF Init, TypeQuote, TypeGoogle, TypeCall
<1>3. TypeTables /\ TypeWorld
  BY SubmissionAssumption DEF Init, TypeTables, TypeWorld, ProposalStates, Times
<1>4. \A q \in Quotes : QuoteInOrder(q) /\ RecordInOrder(q)
  BY DEF Init, NoQuote, NoEvent, QuoteInOrder, RecordInOrder, Frozen, Consumed,
         EventMade, Attached, Noted, Recipients
<1>5. \A c \in Calls : CallInOrder(c)
  BY DEF Init, Idle, CallInOrder, CallOfQuote, CallAdmitted, CallRecorded, At,
         Submitted, Tail, Audits
<1> QED
  BY <1>2, <1>3, <1>4, <1>5 DEF Inv, Types, StoreInOrder, CallsInOrder

LEMMA NextHolds == Inv /\ [Next]_vars => Inv' /\ StoreGrows
<1> SUFFICES ASSUME Inv, [Next]_vars
             PROVE  Inv' /\ StoreGrows
  OBVIOUS
<1>1. ASSUME NEW q \in Quotes, SearchSlots(q)
      PROVE  Inv' /\ StoreGrows
  BY <1>1, SearchSlotsMoves
<1>2. ASSUME NEW q \in Quotes, NEW s \in Starts, NEW inc \in {"yes", "no"},
             PrepareRequest(q, s, inc)
      PROVE  Inv' /\ StoreGrows
  BY <1>2, PrepareRequestMoves
<1>3. ASSUME NEW c \in Calls, NEW q \in Quotes, Submit(c, q)
      PROVE  Inv' /\ StoreGrows
  BY <1>3, SubmitMoves
<1>4. ASSUME NEW c \in Calls, Advance(c)
      PROVE  Inv' /\ StoreGrows
  BY <1>4, AdvanceMoves
<1>5. ASSUME NEW c \in Calls, CreateProposalUnanswered(c) \/ Fail(c)
      PROVE  Inv' /\ StoreGrows
  BY <1>5, CreateProposalMoves, FailMoves
<1>6. CASE Tick \/ \E s \in OwnerStarts : OwnerBooks(s)
  BY <1>6, WorldMoves
<1>7. ASSUME NEW q \in Quotes, NEW s \in Outcomes, TransitionProposal(q, s)
      PROVE  Inv' /\ StoreGrows
  BY <1>7, TransitionProposalMoves
<1>8. ASSUME NEW q \in Quotes, NEW s \in Answers, OwnerAnswers(q, s)
      PROVE  Inv' /\ StoreGrows
  BY <1>8, OwnerAnswersMoves
<1>9. ASSUME NEW q \in Quotes, NEW r \in Recipients, DeliveryMoved(q, r)
      PROVE  Inv' /\ StoreGrows
  BY <1>9, DeliveryMovedMoves
<1>10. CASE UNCHANGED vars
  <2>1. UNCHANGED <<store, google, call, now>> /\ Later /\ TypeWorld'
    BY <1>10, NowStays DEF vars, Inv, Types, TypeWorld
  <2>2. StoreInOrder' /\ StoreGrows /\ TypeQuote' /\ TypeGoogle' /\ TypeTables'
    BY <2>1, StoreRests DEF Inv
  <2> QED
    BY <2>1, <2>2, CallsRest
<1> QED
  BY <1>1, <1>2, <1>3, <1>4, <1>5, <1>6, <1>7, <1>8, <1>9, <1>10
     DEF Next, NextService, NextOthers

LEMMA Invariance == Spec => []Inv
<1>1. Inv /\ [Next]_vars => Inv'
  BY NextHolds
<1> QED
  BY <1>1, InitHolds, PTL DEF Spec

\* Every variable keeps its type.
THEOREM TypeCorrect == Spec => []TypeOK
<1>1. Inv => TypeOK
  BY TypesSuffice DEF Inv
<1> QED
  BY <1>1, Invariance, PTL

\* A client that is told its request was submitted finds the event and the
\* whole record, whatever failed and however many executions ran at once.
THEOREM SubmittedRecorded == Spec => []SubmittedIsRecorded
<1>1. Inv => SubmittedIsRecorded
  <2> SUFFICES ASSUME Inv, NEW c \in Calls, call[c].result = "submitted"
               PROVE  /\ quote[call[c].q].state = "consumed"
                      /\ Recorded(call[c].q)
                      /\ google[call[c].q].state # "none"
    BY DEF SubmittedIsRecorded
  <2>1. Submitted(c) /\ CallRecorded(c) /\ CallOfQuote(c)
    BY DEF Submitted, Inv, CallsInOrder, CallInOrder
  <2>2. PICK q \in Quotes : q = call[c].q
    BY <2>1 DEF CallOfQuote
  <2>3. /\ Attached(q) /\ Noted(q, "owner")
        /\ Included(q) => Noted(q, "requester")
        /\ {"request", "proposal", "owner"} \subseteq audit[q]
        /\ Included(q) => "requester" \in audit[q]
    BY <2>1, <2>2 DEF CallRecorded
  <2>4. /\ EventMade(q) /\ Consumed(q)
        /\ Noted(q, "requester") \/ "requester" \in audit[q] => Included(q)
    BY <2>3 DEF Inv, StoreInOrder, RecordInOrder
  <2>5. audit[q] \subseteq AuditKinds
    BY DEF Inv, Types, TypeTables
  <2>6. audit[q] = IF Included(q) THEN AuditKinds ELSE AuditKinds \ {"requester"}
    BY <2>3, <2>4, <2>5 DEF AuditKinds
  <2> QED
    BY <2>2, <2>3, <2>4, <2>6
       DEF Recorded, Attached, Noted, Included, EventMade, Consumed
<1> QED
  BY <1>1, Invariance, PTL

\* The stored time of a submission is a whole second within the validity of
\* the quote, and only a consumed quote has a proposal.
THEOREM ConsumedValid == Spec => []ConsumedWhileValid
<1>1. Inv => ConsumedWhileValid
  BY DEF Inv, StoreInOrder, QuoteInOrder, ConsumedWhileValid, Frozen, Consumed
<1> QED
  BY <1>1, Invariance, PTL

\* No step takes back what is durable.
THEOREM DurableKept == Spec => DurableProgress
<1> DEFINE Progress ==
        \A q \in Quotes :
          /\ quote[q].slot # NoTime => quote'[q].slot = quote[q].slot
          /\ quote[q].consumedAt # NoTime
                => quote'[q].consumedAt = quote[q].consumedAt
          /\ proposal[q] \notin {"none", "pending"} => proposal'[q] = proposal[q]
          /\ mapping[q] = "attached" => mapping'[q] = "attached"
          /\ \A r \in Recipients : notes[q][r] # "none" => notes'[q][r] # "none"
          /\ audit[q] \subseteq audit'[q]
<1>1. Inv /\ [Next]_vars => [Progress]_vars
  <2> SUFFICES ASSUME Inv, StoreGrows, NEW q \in Quotes
               PROVE  /\ quote[q].slot # NoTime => quote'[q].slot = quote[q].slot
                      /\ quote[q].consumedAt # NoTime
                            => quote'[q].consumedAt = quote[q].consumedAt
                      /\ proposal[q] \notin {"none", "pending"}
                            => proposal'[q] = proposal[q]
                      /\ mapping[q] = "attached" => mapping'[q] = "attached"
                      /\ \A r \in Recipients :
                            notes[q][r] # "none" => notes'[q][r] # "none"
                      /\ audit[q] \subseteq audit'[q]
    BY NextHolds
  <2>1. Grows(q) /\ QuoteInOrder(q)
    BY DEF StoreGrows, Inv, StoreInOrder
  <2> QED
    BY <2>1 DEF Grows, QuoteInOrder, Attached, Noted
<1> QED
  BY <1>1, Invariance, PTL DEF Spec, DurableProgress

-----------------------------------------------------------------------------
(* The saga implements RecordedEffect.                                     *)

Announced(q) == audit[q] # {} \/ \E r \in Recipients : notes[q][r] # "none"

LEMMA InitImplements == Init => Effect!Init
BY DEF Init, NoQuote, NoEvent, Effect!Init

\* None of the four facts about the quote changes.
ShowsTheSame(p) ==
    /\ Consumed(p)' <=> Consumed(p)
    /\ EventMade(p)' <=> EventMade(p)
    /\ Attached(p)' <=> Attached(p)
    /\ Announced(p)' <=> Announced(p)

OthersShow(q) == \A p \in Quotes : p # q => ShowsTheSame(p)

LEMMA Invisible ==
    ASSUME \A q \in Quotes : ShowsTheSame(q)
    PROVE  [Effect!Next]_(Effect!effectVars)
BY DEF Effect!effectVars, ShowsTheSame, Consumed, EventMade, Attached, Announced

LEMMA Unseen ==
    ASSUME \A q \in Quotes : Rests(q)
    PROVE  [Effect!Next]_(Effect!effectVars)
<1>1. \A q \in Quotes : ShowsTheSame(q)
  BY DEF Rests, ShowsTheSame, Consumed, EventMade, Attached, Announced
<1> QED
  BY <1>1, Invisible

LEMMA AdmitSeen ==
    ASSUME NEW q \in Quotes, OthersShow(q), ~Consumed(q), Consumed(q)',
           EventMade(q)' <=> EventMade(q), Attached(q)' <=> Attached(q),
           Announced(q)' <=> Announced(q)
    PROVE  [Effect!Next]_(Effect!effectVars)
<1>1. Effect!Admit(q)
  BY DEF Effect!Admit, OthersShow, ShowsTheSame, Consumed, EventMade, Attached, Announced
<1> QED
  BY <1>1 DEF Effect!Next

LEMMA PerformSeen ==
    ASSUME NEW q \in Quotes, OthersShow(q), Consumed(q), ~EventMade(q), EventMade(q)',
           Consumed(q)' <=> Consumed(q), Attached(q)' <=> Attached(q),
           Announced(q)' <=> Announced(q)
    PROVE  [Effect!Next]_(Effect!effectVars)
<1>1. Effect!Perform(q)
  BY DEF Effect!Perform, OthersShow, ShowsTheSame, Consumed, EventMade, Attached, Announced
<1> QED
  BY <1>1 DEF Effect!Next

LEMMA RecordSeen ==
    ASSUME NEW q \in Quotes, OthersShow(q), EventMade(q), Attached(q)',
           Consumed(q)' <=> Consumed(q), EventMade(q)' <=> EventMade(q),
           Announced(q)' <=> Announced(q)
    PROVE  [Effect!Next]_(Effect!effectVars)
<1>1. CASE Attached(q)
  <2>1. \A p \in Quotes : ShowsTheSame(p)
    BY <1>1 DEF OthersShow, ShowsTheSame
  <2> QED
    BY <2>1, Invisible
<1>2. CASE ~Attached(q)
  <2>1. Effect!Record(q)
    BY <1>2 DEF Effect!Record, OthersShow, ShowsTheSame, Consumed, EventMade, Attached, Announced
  <2> QED
    BY <2>1 DEF Effect!Next
<1> QED
  BY <1>1, <1>2

LEMMA AnnounceSeen ==
    ASSUME NEW q \in Quotes, OthersShow(q), Attached(q), Announced(q)',
           Consumed(q)' <=> Consumed(q), EventMade(q)' <=> EventMade(q),
           Attached(q)' <=> Attached(q)
    PROVE  [Effect!Next]_(Effect!effectVars)
<1>1. CASE Announced(q)
  <2>1. \A p \in Quotes : ShowsTheSame(p)
    BY <1>1 DEF OthersShow, ShowsTheSame
  <2> QED
    BY <2>1, Invisible
<1>2. CASE ~Announced(q)
  <2>1. Effect!Announce(q)
    BY <1>2 DEF Effect!Announce, OthersShow, ShowsTheSame, Consumed, EventMade, Attached, Announced
  <2> QED
    BY <2>1 DEF Effect!Next
<1> QED
  BY <1>1, <1>2


LEMMA OthersRestShow ==
    ASSUME NEW q \in Quotes, \A p \in Quotes : p # q => Rests(p)
    PROVE  OthersShow(q)
BY DEF OthersShow, ShowsTheSame, Rests, Consumed, EventMade, Attached, Announced

LEMMA OneShowsTheSame ==
    ASSUME NEW q \in Quotes, OthersShow(q), ShowsTheSame(q)
    PROVE  [Effect!Next]_(Effect!effectVars)
BY Invisible DEF OthersShow

\* Preparation comes before admission.
LEMMA PreparationUnseen ==
    ASSUME Inv, NEW q \in Quotes,
           SearchSlots(q) \/ \E s \in Starts, inc \in {"yes", "no"} : PrepareRequest(q, s, inc)
    PROVE  [Effect!Next]_(Effect!effectVars)
<1>1. quote \in [Quotes -> QuoteRecords]
  BY DEF Inv, Types, TypeQuote
<1>2. /\ UNCHANGED <<proposal, mapping, notes, audit, google>>
      /\ \A p \in Quotes : p # q => quote'[p] = quote[p]
      /\ quote[q].state # "consumed"
  BY <1>1 DEF SearchSlots, PrepareRequest
<1>3. quote'[q].state # "consumed"
  <2>1. CASE SearchSlots(q)
    <3> DEFINE r == [NoQuote EXCEPT !.state = "issued", !.issuedAt = now,
                                    !.offered = Offer(now)]
    <3>1. quote' = [quote EXCEPT ![q] = r]
      BY <2>1 DEF SearchSlots
    <3>2. r.state = "issued"
      BY DEF NoQuote
    <3> HIDE DEF r
    <3> QED
      BY <1>1, <3>1, <3>2
  <2>2. ASSUME NEW s \in Starts, NEW inc \in {"yes", "no"}, PrepareRequest(q, s, inc)
        PROVE  quote'[q].state # "consumed"
    <3> DEFINE r == [quote[q] EXCEPT !.state = "prepared", !.slot = s, !.included = inc]
    <3>1. quote' = [quote EXCEPT ![q] = r]
      BY <2>2 DEF PrepareRequest
    <3>2. r.state = "prepared"
      BY <1>1 DEF QuoteRecords
    <3> HIDE DEF r
    <3> QED
      BY <1>1, <3>1, <3>2
  <2> QED
    BY <2>1, <2>2
<1>4. \A p \in Quotes : p # q => Rests(p)
  BY <1>2 DEF Rests
<1>5. ShowsTheSame(q)
  BY <1>2, <1>3 DEF ShowsTheSame, Consumed, EventMade, Attached, Announced
<1> QED
  BY <1>4, <1>5, OthersRestShow, OneShowsTheSame

LEMMA UntouchedUnseen ==
    ASSUME UNCHANGED <<store, google>>
    PROVE  [Effect!Next]_(Effect!effectVars)
<1>1. \A q \in Quotes : Rests(q)
  BY DEF Rests, store
<1> QED
  BY <1>1, Unseen

LEMMA SubmissionAdmits ==
    ASSUME Inv, NEW c \in Calls, SubmitAppointmentQuote(c)
    PROVE  [Effect!Next]_(Effect!effectVars)
<1>1. ~At(c, "idle")
  BY DEF SubmitAppointmentQuote, At
<1>2. PICK q \in Quotes : q = call[c].q /\ Frozen(q)
  BY <1>1, RequestIsFrozen DEF Inv
<1>3. /\ UNCHANGED <<mapping, notes, audit, google>>
      /\ IF Consumed(q) \/ ~Valid(q, call[c].durable)
         THEN UNCHANGED <<quote, proposal>>
         ELSE /\ quote' = [quote EXCEPT ![q].state = "consumed",
                                        ![q].consumedAt = call[c].durable]
              /\ proposal' = [proposal EXCEPT ![q] = "pending"]
  BY <1>2 DEF SubmitAppointmentQuote, Consumed
<1>4. CASE UNCHANGED <<quote, proposal>>
  BY <1>3, <1>4, UntouchedUnseen DEF store
<1>5. CASE ~Consumed(q) /\ quote' = [quote EXCEPT ![q].state = "consumed",
                                                  ![q].consumedAt = call[c].durable]
                        /\ proposal' = [proposal EXCEPT ![q] = "pending"]
  <2>1. quote \in [Quotes -> QuoteRecords] /\ proposal \in [Quotes -> ProposalStates]
    BY DEF Inv, Types, TypeQuote, TypeTables
  <2>2. \A p \in Quotes : p # q => Rests(p)
    BY <1>3, <1>5, <2>1 DEF Rests
  <2> DEFINE r == [quote[q] EXCEPT !.state = "consumed",
                                   !.consumedAt = call[c].durable]
  <2>3. quote' = [quote EXCEPT ![q] = r]
    BY <1>5
  <2>4. r.state = "consumed"
    BY <2>1 DEF QuoteRecords
  <2> HIDE DEF r
  <2>5. Consumed(q)'
    BY <2>1, <2>3, <2>4 DEF Consumed
  <2>6. /\ EventMade(q)' <=> EventMade(q)
        /\ Attached(q)' <=> Attached(q)
        /\ Announced(q)' <=> Announced(q)
    BY <1>3 DEF EventMade, Attached, Announced
  <2> QED
    BY <1>5, <2>2, <2>5, <2>6, OthersRestShow, AdmitSeen
<1> QED
  BY <1>3, <1>4, <1>5

LEMMA CreationPerforms ==
    ASSUME Inv, NEW c \in Calls, CreateProposal(c) \/ CreateProposalUnanswered(c)
    PROVE  [Effect!Next]_(Effect!effectVars)
<1>1. At(c, "create") /\ ~At(c, "idle") /\ google' = Created(c) /\ UNCHANGED store
  BY DEF CreateProposal, CreateProposalUnanswered, At
<1>2. PICK q \in Quotes : q = call[c].q /\ Frozen(q)
  BY <1>1, RequestIsFrozen DEF Inv
<1>3. Consumed(q)
  BY <1>1, <1>2 DEF Inv, CallsInOrder, CallInOrder, CallAdmitted, At
<1>4. CASE EventMade(q)
  <2>1. UNCHANGED <<store, google>>
    BY <1>1, <1>2, <1>4 DEF Created, EventMade
  <2> QED
    BY <2>1, UntouchedUnseen
<1>5. CASE ~EventMade(q)
  <2>1. google' = [google EXCEPT ![q] =
                     [state |-> "needs_action", seenGoogle |-> call[c].seenGoogle,
                      seenOutlook |-> call[c].seenOutlook]]
    BY <1>1, <1>2, <1>5 DEF Created, EventMade
  <2>2. google \in [Quotes -> EventRecords]
    BY DEF Inv, Types, TypeGoogle
  <2>3. EventMade(q)' /\ \A p \in Quotes : p # q => google'[p] = google[p]
    BY <2>1, <2>2 DEF EventMade
  <2>4. \A p \in Quotes : p # q => Rests(p)
    BY <1>1, <2>3 DEF Rests, store
  <2>5. /\ Consumed(q)' <=> Consumed(q)
        /\ Attached(q)' <=> Attached(q)
        /\ Announced(q)' <=> Announced(q)
    BY <1>1 DEF Consumed, Attached, Announced, store
  <2> QED
    BY <1>3, <1>5, <2>3, <2>4, <2>5, OthersRestShow, PerformSeen
<1> QED
  BY <1>4, <1>5

LEMMA MappingRecords ==
    ASSUME Inv, NEW c \in Calls, AttachEventMapping(c)
    PROVE  [Effect!Next]_(Effect!effectVars)
<1>1. /\ At(c, "attach") /\ ~At(c, "idle")
      /\ mapping' = [mapping EXCEPT ![call[c].q] = "attached"]
      /\ UNCHANGED <<quote, proposal, notes, audit, google>>
  BY DEF AttachEventMapping, At
<1>2. PICK q \in Quotes : q = call[c].q /\ Frozen(q)
  BY <1>1, RequestIsFrozen DEF Inv
<1>3. EventMade(q)
  BY <1>1, <1>2 DEF Inv, CallsInOrder, CallInOrder, CallAdmitted, At
<1>4. Attached(q)' /\ \A p \in Quotes : p # q => mapping'[p] = mapping[p]
  BY <1>1, <1>2 DEF Inv, Types, TypeTables, Attached
<1>5. \A p \in Quotes : p # q => Rests(p)
  BY <1>1, <1>4 DEF Rests
<1>6. /\ Consumed(q)' <=> Consumed(q)
      /\ EventMade(q)' <=> EventMade(q)
      /\ Announced(q)' <=> Announced(q)
  BY <1>1 DEF Consumed, EventMade, Announced
<1> QED
  BY <1>3, <1>4, <1>5, <1>6, OthersRestShow, RecordSeen

LEMMA TailAnnounces ==
    ASSUME Inv, NEW c \in Calls,
           NotifyOwner(c) \/ NotifyRequester(c) \/ AppendAudits(c)
    PROVE  [Effect!Next]_(Effect!effectVars)
<1>1. call[c].point \in Tail /\ UNCHANGED <<quote, proposal, mapping, google>>
  BY DEF NotifyOwner, NotifyRequester, AppendAudits, AppendAudit, At, Tail
<1>2. PICK q \in Quotes : q = call[c].q /\ Frozen(q) /\ Attached(q)
  BY <1>1, TailOfCall
<1>3. /\ notes \in [Quotes -> [Recipients -> {"none", "queued", "moved"}]]
      /\ audit \in [Quotes -> SUBSET AuditKinds]
  BY DEF Inv, Types, TypeTables
<1>4. /\ Announced(q)'
      /\ \A p \in Quotes : p # q => notes'[p] = notes[p] /\ audit'[p] = audit[p]
  <2>1. ASSUME NEW r \in Recipients, notes' = Enqueued(c, r), UNCHANGED audit
        PROVE  /\ notes'[q][r] # "none"
               /\ \A p \in Quotes : p # q => notes'[p] = notes[p] /\ audit'[p] = audit[p]
    <3>1. CASE notes[q][r] = "none"
      BY <1>2, <1>3, <2>1, <3>1 DEF Enqueued
    <3>2. CASE notes[q][r] # "none"
      BY <1>2, <2>1, <3>2 DEF Enqueued
    <3> QED
      BY <3>1, <3>2
  <2>2. CASE NotifyOwner(c)
    BY <2>1, <2>2 DEF NotifyOwner, Recipients, Announced
  <2>3. CASE NotifyRequester(c)
    BY <2>1, <2>3 DEF NotifyRequester, Recipients, Announced
  <2>4. CASE AppendAudits(c)
    <3>1. PICK k \in AuditKinds : /\ audit' = [audit EXCEPT ![q] = @ \cup {k}]
                                  /\ UNCHANGED notes
      BY <1>2, <2>4 DEF AppendAudits, AppendAudit, AuditKinds
    <3> QED
      BY <1>3, <3>1 DEF Announced
  <2> QED
    BY <2>2, <2>3, <2>4
<1>5. \A p \in Quotes : p # q => Rests(p)
  BY <1>1, <1>4 DEF Rests
<1>6. /\ Consumed(q)' <=> Consumed(q)
      /\ EventMade(q)' <=> EventMade(q)
      /\ Attached(q)' <=> Attached(q)
  BY <1>1 DEF Consumed, EventMade, Attached
<1> QED
  BY <1>2, <1>4, <1>5, <1>6, OthersRestShow, AnnounceSeen

\* What the owner and the delivery worker do to a submission takes nothing back.
LEMMA OthersUnseen ==
    ASSUME Inv, NextOthers
    PROVE  [Effect!Next]_(Effect!effectVars)
<1>1. ASSUME NEW q \in Quotes, NEW s \in Outcomes, TransitionProposal(q, s)
      PROVE  [Effect!Next]_(Effect!effectVars)
  <2>1. \A p \in Quotes : ShowsTheSame(p)
    BY <1>1 DEF TransitionProposal, ShowsTheSame, Consumed, EventMade, Attached, Announced
  <2> QED
    BY <2>1, Invisible
<1>2. ASSUME NEW q \in Quotes, NEW s \in Answers, OwnerAnswers(q, s)
      PROVE  [Effect!Next]_(Effect!effectVars)
  <2>1. google \in [Quotes -> EventRecords] /\ s # "none"
    BY SubmissionAssumption DEF Inv, Types, TypeGoogle
  <2>2. \A p \in Quotes : EventMade(p)' <=> EventMade(p)
    BY <1>2, <2>1 DEF OwnerAnswers, Live, EventMade, EventRecords
  <2>3. \A p \in Quotes : ShowsTheSame(p)
    BY <1>2, <2>2 DEF OwnerAnswers, ShowsTheSame, Consumed, Attached, Announced, store
  <2> QED
    BY <2>3, Invisible
<1>3. ASSUME NEW q \in Quotes, NEW r \in Recipients, DeliveryMoved(q, r)
      PROVE  [Effect!Next]_(Effect!effectVars)
  <2>1. notes \in [Quotes -> [Recipients -> {"none", "queued", "moved"}]]
    BY DEF Inv, Types, TypeTables
  <2>2. \A p \in Quotes : \A s \in Recipients :
           notes'[p][s] # "none" <=> notes[p][s] # "none"
    BY <1>3, <2>1 DEF DeliveryMoved
  <2>3. \A p \in Quotes : ShowsTheSame(p)
    BY <1>3, <2>2 DEF DeliveryMoved, ShowsTheSame, Consumed, EventMade, Attached, Announced
  <2> QED
    BY <2>3, Invisible
<1> QED
  BY <1>1, <1>2, <1>3 DEF NextOthers

LEMMA NextImplements == Inv /\ [Next]_vars => [Effect!Next]_(Effect!effectVars)
<1> SUFFICES ASSUME Inv, [Next]_vars
             PROVE  [Effect!Next]_(Effect!effectVars)
  OBVIOUS
<1>1. ASSUME NEW q \in Quotes,
             SearchSlots(q) \/ \E s \in Starts, inc \in {"yes", "no"} : PrepareRequest(q, s, inc)
      PROVE  [Effect!Next]_(Effect!effectVars)
  BY <1>1, PreparationUnseen
<1>2. ASSUME NEW c \in Calls,
             \/ \E q \in Quotes : Submit(c, q)
             \/ LoadProposal(c) \/ LoadMapping(c) \/ ListBusyOutlook(c)
             \/ ListBusyGoogle(c) \/ FindProposalWhenBusy(c) \/ FindProposal(c)
             \/ Fail(c)
      PROVE  [Effect!Next]_(Effect!effectVars)
  <2>1. UNCHANGED <<store, google>>
    BY <1>2 DEF Submit, LoadProposal, LoadMapping, ListBusyOutlook, ListBusyGoogle,
                FindProposalWhenBusy, FindProposal, Fail
  <2> QED
    BY <2>1, UntouchedUnseen
<1>3. ASSUME NEW c \in Calls, SubmitAppointmentQuote(c)
      PROVE  [Effect!Next]_(Effect!effectVars)
  BY <1>3, SubmissionAdmits
<1>4. ASSUME NEW c \in Calls, CreateProposal(c) \/ CreateProposalUnanswered(c)
      PROVE  [Effect!Next]_(Effect!effectVars)
  BY <1>4, CreationPerforms
<1>5. ASSUME NEW c \in Calls, AttachEventMapping(c)
      PROVE  [Effect!Next]_(Effect!effectVars)
  BY <1>5, MappingRecords
<1>6. ASSUME NEW c \in Calls, NotifyOwner(c) \/ NotifyRequester(c) \/ AppendAudits(c)
      PROVE  [Effect!Next]_(Effect!effectVars)
  BY <1>6, TailAnnounces
<1>7. CASE Tick \/ (\E s \in OwnerStarts : OwnerBooks(s)) \/ UNCHANGED vars
  <2>1. UNCHANGED <<store, google>>
    BY <1>7 DEF Tick, OwnerBooks, vars
  <2> QED
    BY <2>1, UntouchedUnseen
<1>8. CASE NextOthers
  BY <1>8, OthersUnseen
<1> QED
  BY <1>1, <1>2, <1>3, <1>4, <1>5, <1>6, <1>7, <1>8 DEF Next, NextService, Advance

\* Every request is admitted, performed, recorded and announced in this order
\* and never taken back: the refinement the runs check, for any instance.
THEOREM SubmissionsAreRecordedEffects == Spec => ImplementsEffect
<1>1. Spec => [][Effect!Next]_(Effect!effectVars)
  BY Invariance, NextImplements, PTL DEF Spec
<1> QED
  BY <1>1, InitImplements, PTL DEF Spec, ImplementsEffect, Effect!Spec

-----------------------------------------------------------------------------
(* No booking over an event that was known.                                *)

\* The event of q, made or about to be made, against what its request saw.
Apart(q, seenG, seenO) ==
    /\ \A p \in seenG \ {q} : Live(p) => ~Overlaps(quote[q].slot, quote[p].slot)
    /\ \A t \in seenO : ~Overlaps(quote[q].slot, t)

EventApart(q) ==
    EventMade(q) => /\ \A p \in google[q].seenGoogle : EventMade(p)
                    /\ Apart(q, google[q].seenGoogle, google[q].seenOutlook)

\* Where an execution has rechecked both calendars.
Rechecked(c) ==
    \/ At(c, "submit_new")
    \/ At(c, "create")
    \/ At(c, "find") /\ call[c].retry = "no"

CallApart(c) ==
    /\ \A p \in call[c].seenGoogle : EventMade(p)
    /\ call[c].seenOutlook \subseteq outlook
    /\ At(c, "busy_google") /\ call[c].busy = "no"
          => \A t \in call[c].seenOutlook : ~Overlaps(Slot(c), t)
    /\ Rechecked(c) => Apart(call[c].q, call[c].seenGoogle, call[c].seenOutlook)

EventsApart == \A q \in Quotes : EventApart(q)
CallsApart == \A c \in Calls : CallApart(c)

LEMMA ApartStays ==
    ASSUME Inv, StoreGrows, NEW q \in Quotes, Frozen(q),
           NEW seenG \in SUBSET Quotes, NEW seenO,
           \A p \in seenG : EventMade(p), Apart(q, seenG, seenO)
    PROVE  /\ \A p \in seenG \ {q} :
                 Live(p)' => ~Overlaps(quote'[q].slot, quote'[p].slot)
           /\ \A t \in seenO : ~Overlaps(quote'[q].slot, t)
           /\ \A p \in seenG : EventMade(p)'
<1>1. quote'[q].slot = quote[q].slot
  BY DEF StoreGrows, Grows
<1>2. ASSUME NEW p \in seenG
      PROVE  /\ quote'[p].slot = quote[p].slot /\ EventMade(p)'
             /\ Live(p)' => Live(p)
  <2>1. EventMade(p) /\ Consumed(p) /\ Frozen(p)
    BY <1>2 DEF Inv, StoreInOrder, RecordInOrder, Consumed, Frozen
  <2> QED
    BY <1>2, <2>1 DEF StoreGrows, Grows
<1> QED
  BY <1>1, <1>2 DEF Apart

LEMMA EventStaysApart ==
    ASSUME Inv, StoreGrows, NEW q \in Quotes, EventApart(q), EventMade(q)
    PROVE  EventApart(q)'
<1>1. Frozen(q) /\ google[q].seenGoogle \in SUBSET Quotes
  BY DEF Inv, StoreInOrder, RecordInOrder, Consumed, Frozen, Types, TypeGoogle,
         EventRecords
<1>2. /\ google'[q].seenGoogle = google[q].seenGoogle
      /\ google'[q].seenOutlook = google[q].seenOutlook
  BY DEF StoreGrows, Grows
<1>3. /\ \A p \in google[q].seenGoogle : EventMade(p)
      /\ Apart(q, google[q].seenGoogle, google[q].seenOutlook)
  BY DEF EventApart
<1>4. /\ \A p \in google[q].seenGoogle \ {q} :
            Live(p)' => ~Overlaps(quote'[q].slot, quote'[p].slot)
      /\ \A t \in google[q].seenOutlook : ~Overlaps(quote'[q].slot, t)
      /\ \A p \in google[q].seenGoogle : EventMade(p)'
  BY <1>1, <1>3, ApartStays
<1> QED
  BY <1>2, <1>4 DEF EventApart, Apart

\* No new event: those that were made stay apart.
LEMMA EventsStayApart ==
    ASSUME Inv, StoreGrows, EventsApart, \A q \in Quotes : EventMade(q)' => EventMade(q)
    PROVE  EventsApart'
<1> SUFFICES ASSUME NEW q \in Quotes, EventMade(q)'
             PROVE  EventApart(q)'
  BY DEF EventsApart, EventApart
<1> QED
  BY EventStaysApart DEF EventsApart

\* An execution keeps what it saw and goes on to a point whose facts hold.
LEMMA CallGoesOnApart ==
    ASSUME Inv, StoreGrows, CallsApart, outlook \subseteq outlook', NEW c \in Calls,
           call'[c].q = call[c].q, call'[c].seenGoogle = call[c].seenGoogle,
           call'[c].seenOutlook = call[c].seenOutlook,
           Rechecked(c)' \/ At(c, "busy_google")' => ~At(c, "idle"),
           At(c, "busy_google")' /\ call'[c].busy = "no"
              => \A t \in call[c].seenOutlook : ~Overlaps(Slot(c), t),
           Rechecked(c)' => Apart(call[c].q, call[c].seenGoogle, call[c].seenOutlook)
    PROVE  CallApart(c)'
<1>1. /\ \A p \in call[c].seenGoogle : EventMade(p)
      /\ call[c].seenOutlook \subseteq outlook
  BY DEF CallsApart, CallApart
<1>2. call[c].seenGoogle \in SUBSET Quotes
  BY DEF Inv, Types, TypeCall, CallRecords
<1>3. /\ \A p \in call'[c].seenGoogle : EventMade(p)'
      /\ call'[c].seenOutlook \subseteq outlook'
  <2>1. \A p \in Quotes : EventMade(p) => EventMade(p)'
    BY DEF StoreGrows, Grows
  <2> QED
    BY <1>1, <1>2, <2>1
<1>4. CASE ~(Rechecked(c)' \/ At(c, "busy_google")')
  BY <1>3, <1>4 DEF CallApart
<1>5. CASE Rechecked(c)' \/ At(c, "busy_google")'
  <2>1. PICK q \in Quotes : q = call[c].q /\ Frozen(q)
    BY <1>5, RequestIsFrozen DEF Inv
  <2>2. quote'[q].slot = quote[q].slot
    BY <2>1 DEF StoreGrows, Grows
  <2>3. At(c, "busy_google")' /\ call'[c].busy = "no"
          => \A t \in call'[c].seenOutlook : ~Overlaps(Slot(c)', t)
    BY <2>1, <2>2 DEF Slot
  <2>4. ASSUME Rechecked(c)'
        PROVE  Apart(call[c].q, call[c].seenGoogle, call[c].seenOutlook)'
    <3>1. Apart(q, call[c].seenGoogle, call[c].seenOutlook)
      BY <2>1, <2>4 DEF Apart
    <3> DEFINE G == call[c].seenGoogle
               O == call[c].seenOutlook
    <3>2. /\ \A p \in G \ {q} : Live(p)' => ~Overlaps(quote'[q].slot, quote'[p].slot)
          /\ \A t \in O : ~Overlaps(quote'[q].slot, t)
      BY <1>1, <1>2, <2>1, <3>1, ApartStays
    <3> QED
      BY <2>1, <3>2 DEF Apart
  <2> QED
    BY <1>3, <2>3, <2>4 DEF CallApart
<1> QED
  BY <1>4, <1>5

LEMMA CallStaysApart ==
    ASSUME Inv, StoreGrows, CallsApart, outlook \subseteq outlook', NEW c \in Calls,
           call'[c] = call[c]
    PROVE  CallApart(c)'
<1>1. /\ Rechecked(c)' => Rechecked(c) /\ ~At(c, "idle")
      /\ At(c, "busy_google")' => At(c, "busy_google") /\ ~At(c, "idle")
  BY DEF Rechecked, At
<1>2. CallApart(c)
  BY DEF CallsApart
<1> QED
  BY <1>1, <1>2, CallGoesOnApart DEF CallApart

\* A step of one execution that makes no event.
LEMMA OneMovesApart ==
    ASSUME Inv, StoreGrows, EventsApart, CallsApart, UNCHANGED <<google, outlook>>,
           NEW c \in Calls, OthersRest(c), CallApart(c)'
    PROVE  EventsApart' /\ CallsApart'
<1>1. EventsApart'
  BY EventsStayApart DEF EventMade
<1>2. CallsApart'
  BY CallStaysApart DEF CallsApart, OthersRest
<1> QED
  BY <1>1, <1>2

LEMMA ForgetsSeen ==
    ASSUME TypeCall, NEW c \in Calls, Refuse(c) \/ EnterTail(c) \/ Succeed(c)
    PROVE  OthersRest(c) /\ CallApart(c)'
<1>1. OthersRest(c) /\ call'[c].point \in {"idle", "notify_owner"}
  BY RefuseIdles, EnterTailBegins, SucceedEnds DEF Idle
<1>2. call'[c].seenGoogle = {} /\ call'[c].seenOutlook = {}
  <2>1. CASE Refuse(c)
    BY <2>1, RefuseIdles DEF Idle
  <2>2. CASE EnterTail(c)
    BY <2>2 DEF TypeCall, EnterTail, Idle
  <2>3. CASE Succeed(c)
    BY <2>3 DEF TypeCall, Succeed, Idle
  <2> QED
    BY <2>1, <2>2, <2>3
<1> QED
  BY <1>1, <1>2 DEF CallApart, Rechecked, At

\* GoTo keeps the calendars an execution saw.
LEMMA GoToApart ==
    ASSUME Inv, StoreGrows, CallsApart, outlook \subseteq outlook', NEW c \in Calls,
           ~At(c, "idle"), NEW p \in Points, p # "busy_google", GoTo(c, p),
           p \in {"submit_new", "create"} \/ (p = "find" /\ call[c].retry = "no")
              => Apart(call[c].q, call[c].seenGoogle, call[c].seenOutlook)
    PROVE  OthersRest(c) /\ CallApart(c)'
<1>1. /\ OthersRest(c) /\ call'[c].point = p
      /\ call'[c].retry = call[c].retry /\ SameBut(call'[c], call[c])
  BY GoToKeeps DEF Inv, Types
<1>2. /\ Rechecked(c)' => p \in {"submit_new", "create"} \/ (p = "find" /\ call[c].retry = "no")
      /\ ~At(c, "busy_google")'
  BY <1>1 DEF Rechecked, At
<1>3. CallApart(c)'
  BY <1>1, <1>2, CallGoesOnApart DEF SameBut
<1> QED
  BY <1>1, <1>3

LEMMA SubmitApart ==
    ASSUME Inv, StoreGrows, EventsApart, CallsApart,
           NEW c \in Calls, NEW q \in Quotes, Submit(c, q)
    PROVE  EventsApart' /\ CallsApart'
<1>1. /\ UNCHANGED <<store, google, outlook>> /\ Frozen(q)
  BY DEF Submit, Frozen
<1>2. now \in Nat /\ quote[q].issuedAt \in Nat /\ quote[q].issuedAt <= now
  BY <1>1 DEF Inv, Types, TypeWorld, Times, StoreInOrder, QuoteInOrder, Frozen
<1>3. Durable(q, now) \in Nat
  BY <1>2, DurableIsWhole
<1>4. /\ OthersRest(c)
      /\ call'[c].point \in {"load_proposal", "busy_outlook"}
      /\ call'[c].seenGoogle = {p \in Quotes : Live(p)}
      /\ call'[c].seenOutlook = outlook
  BY <1>3, SubmitBegins DEF Inv
<1>5. \A p \in call'[c].seenGoogle : EventMade(p)'
  BY <1>1, <1>4, LiveWasMade DEF EventMade
<1>6. CallApart(c)'
  BY <1>1, <1>4, <1>5 DEF CallApart, Rechecked, At
<1> QED
  BY <1>1, <1>4, <1>6, OneMovesApart

LEMMA LoadMappingApart ==
    ASSUME Inv, StoreGrows, EventsApart, CallsApart, NEW c \in Calls, LoadMapping(c)
    PROVE  EventsApart' /\ CallsApart'
<1>1. UNCHANGED <<google, outlook>> /\ ~At(c, "idle")
  BY DEF LoadMapping, At
<1>2. CASE EnterTail(c)
  BY <1>1, <1>2, ForgetsSeen, OneMovesApart DEF Inv, Types
<1>3. CASE call' = [call EXCEPT ![c].point = "find", ![c].retry = "yes"]
  <2>1. /\ OthersRest(c) /\ call'[c].point = "find" /\ call'[c].retry = "yes"
        /\ SameBut(call'[c], call[c])
    BY <1>3, RetryKeeps DEF Inv, Types
  <2>2. ~Rechecked(c)' /\ ~At(c, "busy_google")'
    BY <2>1 DEF Rechecked, At
  <2>3. CallApart(c)'
    BY <1>1, <2>1, <2>2, CallGoesOnApart DEF SameBut
  <2> QED
    BY <1>1, <2>1, <2>3, OneMovesApart
<1> QED
  BY <1>2, <1>3 DEF LoadMapping

LEMMA ListBusyOutlookApart ==
    ASSUME Inv, StoreGrows, EventsApart, CallsApart, NEW c \in Calls, ListBusyOutlook(c)
    PROVE  EventsApart' /\ CallsApart'
<1>1. UNCHANGED <<google, outlook>> /\ ~At(c, "idle")
  BY DEF ListBusyOutlook, At
<1>2. /\ OthersRest(c) /\ call'[c].point = "busy_google"
      /\ call'[c].busy = IF OutlookBusy(Slot(c)) THEN "yes" ELSE "no"
      /\ call'[c].q = call[c].q
      /\ call'[c].seenGoogle = call[c].seenGoogle
      /\ call'[c].seenOutlook = call[c].seenOutlook
  BY BusyOutlookKeeps DEF Inv, Types
<1>3. ~Rechecked(c)'
  BY <1>2 DEF Rechecked, At
<1>4. call'[c].busy = "no" => \A t \in call[c].seenOutlook : ~Overlaps(Slot(c), t)
  <2>1. call[c].seenOutlook \subseteq outlook
    BY DEF CallsApart, CallApart
  <2>2. call'[c].busy = "no" => ~OutlookBusy(Slot(c))
    BY <1>2
  <2> QED
    BY <2>1, <2>2 DEF OutlookBusy
<1>5. CallApart(c)'
  BY <1>1, <1>2, <1>3, <1>4, CallGoesOnApart
<1> QED
  BY <1>1, <1>2, <1>5, OneMovesApart

\* The second list completes the recheck.
LEMMA ListBusyGoogleApart ==
    ASSUME Inv, StoreGrows, EventsApart, CallsApart, NEW c \in Calls, ListBusyGoogle(c)
    PROVE  EventsApart' /\ CallsApart'
<1>1. /\ UNCHANGED <<google, outlook>> /\ ~At(c, "idle") /\ At(c, "busy_google")
      /\ outlook \subseteq outlook'
  BY DEF ListBusyGoogle, At
<1>2. CASE call[c].busy = "yes" \/ GoogleBusy(Slot(c))
  <2>1. CASE Refuse(c)
    BY <1>1, <2>1, ForgetsSeen, OneMovesApart DEF Inv, Types
  <2>2. CASE GoTo(c, "find_busy")
    <3>1. "find_busy" \in Points
      BY DEF Points
    <3>2. OthersRest(c) /\ CallApart(c)'
      BY <1>1, <2>2, <3>1, GoToApart
    <3> QED
      BY <1>1, <3>2, OneMovesApart
  <2> QED
    BY <1>2, <2>1, <2>2 DEF ListBusyGoogle
<1>3. CASE ~(call[c].busy = "yes" \/ GoogleBusy(Slot(c)))
  <2> DEFINE p == IF call[c].retry = "yes" THEN "create" ELSE "find"
  <2>1. GoTo(c, p)
    BY <1>3 DEF ListBusyGoogle
  <2>2. p \in Points /\ p # "busy_google"
    BY DEF Points
  <2>3. call[c].busy = "no"
    BY <1>3 DEF Inv, Types, TypeCall, CallRecords
  <2>4. \A t \in call[c].seenOutlook : ~Overlaps(Slot(c), t)
    BY <1>1, <2>3 DEF CallsApart, CallApart
  <2>5. call[c].seenGoogle \subseteq Quotes
    BY DEF Inv, Types, TypeCall, CallRecords
  <2>6. Apart(call[c].q, call[c].seenGoogle, call[c].seenOutlook)
    BY <1>3, <2>4, <2>5 DEF GoogleBusy, Apart, Slot
  <2> HIDE DEF p
  <2>7. OthersRest(c) /\ CallApart(c)'
    BY <1>1, <2>1, <2>2, <2>6, GoToApart
  <2> QED
    BY <1>1, <2>7, OneMovesApart
<1> QED
  BY <1>2, <1>3

\* A GoTo after which nothing need have been rechecked.
LEMMA PlainGoToApart ==
    ASSUME Inv, StoreGrows, EventsApart, CallsApart, UNCHANGED <<google, outlook>>,
           NEW c \in Calls, ~At(c, "idle"),
           NEW p \in Points \ {"submit_new", "create", "find", "busy_google"}, GoTo(c, p)
    PROVE  EventsApart' /\ CallsApart'
<1>1. OthersRest(c) /\ CallApart(c)'
  BY GoToApart
<1> QED
  BY <1>1, OneMovesApart

LEMMA FoundApart ==
    ASSUME Inv, StoreGrows, EventsApart, CallsApart, UNCHANGED <<google, outlook>>,
           NEW c \in Calls, ~At(c, "idle"), Found(c)
    PROVE  EventsApart' /\ CallsApart'
<1>1. {"attach", "submit_found"}
        \subseteq Points \ {"submit_new", "create", "find", "busy_google"}
  BY DEF Points
<1>2. CASE GoTo(c, "attach")
  BY <1>1, <1>2, PlainGoToApart
<1>3. CASE GoTo(c, "submit_found")
  BY <1>1, <1>3, PlainGoToApart
<1> QED
  BY <1>2, <1>3 DEF Found

LEMMA ForgettingApart ==
    ASSUME Inv, StoreGrows, EventsApart, CallsApart, UNCHANGED <<google, outlook>>,
           NEW c \in Calls, Refuse(c) \/ EnterTail(c) \/ Succeed(c)
    PROVE  EventsApart' /\ CallsApart'
BY ForgetsSeen, OneMovesApart DEF Inv, Types

LEMMA FindProposalApart ==
    ASSUME Inv, StoreGrows, EventsApart, CallsApart, NEW c \in Calls, FindProposal(c)
    PROVE  EventsApart' /\ CallsApart'
<1>1. /\ UNCHANGED <<google, outlook>> /\ ~At(c, "idle") /\ At(c, "find")
      /\ outlook \subseteq outlook'
  BY DEF FindProposal, At
<1>2. \/ Refuse(c) \/ Found(c) \/ GoTo(c, "busy_outlook")
      \/ (GoTo(c, "submit_new") /\ call[c].retry # "yes")
  BY DEF FindProposal
<1>3. CASE Refuse(c)
  BY <1>1, <1>3, ForgettingApart
<1>4. CASE Found(c)
  BY <1>1, <1>4, FoundApart
<1>5. CASE GoTo(c, "busy_outlook")
  <2>1. "busy_outlook" \in Points \ {"submit_new", "create", "find", "busy_google"}
    BY DEF Points
  <2> QED
    BY <1>1, <1>5, <2>1, PlainGoToApart
<1>6. CASE GoTo(c, "submit_new") /\ call[c].retry # "yes"
  <2>1. call[c].retry = "no"
    BY <1>6 DEF Inv, Types, TypeCall, CallRecords
  <2>2. Apart(call[c].q, call[c].seenGoogle, call[c].seenOutlook)
    BY <1>1, <2>1 DEF CallsApart, CallApart, Rechecked
  <2>3. "submit_new" \in Points /\ "submit_new" # "busy_google"
    BY DEF Points
  <2>4. OthersRest(c) /\ CallApart(c)'
    BY <1>1, <1>6, <2>2, <2>3, GoToApart
  <2> QED
    BY <1>1, <2>4, OneMovesApart
<1> QED
  BY <1>2, <1>3, <1>4, <1>5, <1>6

LEMMA SubmitAppointmentQuoteApart ==
    ASSUME Inv, StoreGrows, EventsApart, CallsApart,
           NEW c \in Calls, SubmitAppointmentQuote(c)
    PROVE  EventsApart' /\ CallsApart'
<1>1. UNCHANGED <<google, outlook>> /\ ~At(c, "idle") /\ outlook \subseteq outlook'
  BY DEF SubmitAppointmentQuote, At
<1>2. \/ Refuse(c) \/ GoTo(c, "attach")
      \/ (GoTo(c, "create") /\ At(c, "submit_new"))
  BY DEF SubmitAppointmentQuote
<1>3. CASE Refuse(c)
  BY <1>1, <1>3, ForgettingApart
<1>4. CASE GoTo(c, "attach")
  <2>1. "attach" \in Points \ {"submit_new", "create", "find", "busy_google"}
    BY DEF Points
  <2> QED
    BY <1>1, <1>4, <2>1, PlainGoToApart
<1>5. CASE GoTo(c, "create") /\ At(c, "submit_new")
  <2>1. Apart(call[c].q, call[c].seenGoogle, call[c].seenOutlook)
    BY <1>5 DEF CallsApart, CallApart, Rechecked
  <2>2. "create" \in Points /\ "create" # "busy_google"
    BY DEF Points
  <2>3. OthersRest(c) /\ CallApart(c)'
    BY <1>1, <1>5, <2>1, <2>2, GoToApart
  <2> QED
    BY <1>1, <2>3, OneMovesApart
<1> QED
  BY <1>2, <1>3, <1>4, <1>5

\* The event is made against the recheck of the execution that makes it.
LEMMA CreationApart ==
    ASSUME Inv, StoreGrows, EventsApart, CallsApart, NEW c \in Calls,
           CreateProposal(c) \/ CreateProposalUnanswered(c)
    PROVE  EventsApart' /\ CallsApart'
<1>1. /\ At(c, "create") /\ ~At(c, "idle") /\ google' = Created(c)
      /\ UNCHANGED outlook /\ outlook \subseteq outlook'
      /\ Refuse(c) \/ GoTo(c, "attach")
  BY DEF CreateProposal, CreateProposalUnanswered, At
<1>2. PICK q \in Quotes : q = call[c].q /\ Frozen(q)
  BY <1>1, RequestIsFrozen DEF Inv
<1> DEFINE G == call[c].seenGoogle
           O == call[c].seenOutlook
<1>3. /\ \A p \in G : EventMade(p)
      /\ Apart(q, G, O) /\ G \in SUBSET Quotes
  BY <1>1, <1>2 DEF CallsApart, CallApart, Rechecked, Inv, Types, TypeCall, CallRecords
<1>4. EventApart(q)'
  <2>1. CASE EventMade(q)
    BY <2>1, EventStaysApart DEF EventsApart
  <2>2. CASE ~EventMade(q)
    <3>1. google' = [google EXCEPT ![q] = [state |-> "needs_action",
                       seenGoogle |-> G, seenOutlook |-> O]]
      BY <1>1, <1>2, <2>2 DEF Created, EventMade
    <3>2. google'[q].seenGoogle = G /\ google'[q].seenOutlook = O
      BY <3>1 DEF Inv, Types, TypeGoogle
    <3> HIDE DEF G, O
    <3>3. /\ \A p \in G \ {q} : Live(p)' => ~Overlaps(quote'[q].slot, quote'[p].slot)
          /\ \A t \in O : ~Overlaps(quote'[q].slot, t)
          /\ \A p \in G : EventMade(p)'
      BY <1>2, <1>3, ApartStays
    <3> QED
      BY <3>2, <3>3 DEF EventApart, Apart
  <2> QED
    BY <2>1, <2>2
<1>5. \A p \in Quotes : p # q => (EventMade(p)' => EventMade(p))
  BY <1>1, <1>2 DEF Created, EventMade, Inv, Types, TypeGoogle
<1>6. EventsApart'
  <2> SUFFICES ASSUME NEW p \in Quotes, EventMade(p)', p # q
               PROVE  EventApart(p)'
    BY <1>4 DEF EventsApart, EventApart
  <2> QED
    BY <1>5, EventStaysApart DEF EventsApart
<1>7. OthersRest(c) /\ CallApart(c)'
  <2>1. CASE Refuse(c)
    BY <2>1, ForgetsSeen DEF Inv, Types
  <2>2. CASE GoTo(c, "attach")
    <3>1. "attach" \in Points
      BY DEF Points
    <3> QED
      BY <1>1, <2>2, <3>1, GoToApart
  <2> QED
    BY <1>1, <2>1, <2>2
<1>8. CallsApart'
  BY <1>1, <1>7, CallStaysApart DEF CallsApart, OthersRest
<1> QED
  BY <1>6, <1>8

\* The tail has nothing to do with the calendars.
LEMMA TailApart ==
    ASSUME Inv, StoreGrows, EventsApart, CallsApart, NEW c \in Calls,
           NotifyOwner(c) \/ NotifyRequester(c) \/ AppendAudits(c)
    PROVE  EventsApart' /\ CallsApart'
<1>1. UNCHANGED <<google, outlook>> /\ ~At(c, "idle")
  BY DEF NotifyOwner, NotifyRequester, AppendAudits, AppendAudit, At
<1> DEFINE P == {"notify_requester", "audit_request", "audit_proposal", "audit_owner",
                 "audit_requester"}
<1>2. P \subseteq Points \ {"submit_new", "create", "find", "busy_google"}
  BY DEF Points
<1>3. Refuse(c) \/ Succeed(c) \/ \E p \in P : GoTo(c, p)
  <2>1. CASE NotifyOwner(c)
    BY <2>1 DEF NotifyOwner
  <2>2. CASE NotifyRequester(c)
    BY <2>2 DEF NotifyRequester
  <2>3. CASE AppendAudits(c)
    BY <2>3 DEF AppendAudits, AppendAudit
  <2> QED
    BY <2>1, <2>2, <2>3
<1>4. CASE Refuse(c) \/ Succeed(c)
  BY <1>1, <1>4, ForgettingApart
<1>5. ASSUME NEW p \in P, GoTo(c, p)
      PROVE  EventsApart' /\ CallsApart'
  BY <1>1, <1>2, <1>5, PlainGoToApart
<1> QED
  BY <1>3, <1>4, <1>5

LEMMA AdvanceApart ==
    ASSUME Inv, StoreGrows, EventsApart, CallsApart, NEW c \in Calls, Advance(c)
    PROVE  EventsApart' /\ CallsApart'
<1>1. CASE LoadProposal(c)
  <2>1. /\ UNCHANGED <<google, outlook>> /\ ~At(c, "idle")
        /\ GoTo(c, "load_mapping") \/ Refuse(c)
    BY <1>1 DEF LoadProposal, At
  <2>2. "load_mapping" \in Points \ {"submit_new", "create", "find", "busy_google"}
    BY DEF Points
  <2> QED
    BY <2>1, <2>2, PlainGoToApart, ForgettingApart
<1>2. CASE FindProposalWhenBusy(c)
  <2>1. /\ UNCHANGED <<google, outlook>> /\ ~At(c, "idle")
        /\ Found(c) \/ Refuse(c)
    BY <1>2 DEF FindProposalWhenBusy, At
  <2> QED
    BY <2>1, FoundApart, ForgettingApart
<1>3. CASE AttachEventMapping(c)
  BY <1>3, ForgettingApart DEF AttachEventMapping
<1> QED
  BY <1>1, <1>2, <1>3, LoadMappingApart, ListBusyOutlookApart, ListBusyGoogleApart,
     FindProposalApart, SubmitAppointmentQuoteApart, CreationApart, TailApart
     DEF Advance

LEMMA WorldApart ==
    ASSUME Inv, StoreGrows, EventsApart, CallsApart,
           UNCHANGED call, outlook \subseteq outlook',
           \A q \in Quotes : EventMade(q)' => EventMade(q)
    PROVE  EventsApart' /\ CallsApart'
BY EventsStayApart, CallStaysApart DEF CallsApart

LEMMA NextApart ==
    ASSUME Inv, StoreGrows, EventsApart, CallsApart, [Next]_vars
    PROVE  EventsApart' /\ CallsApart'
<1>1. ASSUME NEW c \in Calls, NEW q \in Quotes, Submit(c, q)
      PROVE  EventsApart' /\ CallsApart'
  BY <1>1, SubmitApart
<1>2. ASSUME NEW c \in Calls, Advance(c) \/ CreateProposalUnanswered(c)
      PROVE  EventsApart' /\ CallsApart'
  BY <1>2, AdvanceApart, CreationApart
<1>3. ASSUME NEW c \in Calls, Fail(c)
      PROVE  EventsApart' /\ CallsApart'
  BY <1>3, ForgettingApart DEF Fail
<1>4. ASSUME NEW q \in Quotes, NEW s \in Answers, OwnerAnswers(q, s)
      PROVE  EventsApart' /\ CallsApart'
  <2>1. UNCHANGED <<call, outlook>> /\ outlook \subseteq outlook'
    BY <1>4 DEF OwnerAnswers
  <2>2. \A p \in Quotes : EventMade(p)' => EventMade(p)
    BY <1>4 DEF OwnerAnswers, Live, EventMade, Inv, Types, TypeGoogle
  <2> QED
    BY <2>1, <2>2, WorldApart
<1>5. CASE \/ \E q \in Quotes : \/ SearchSlots(q)
                                \/ \E s \in Starts, inc \in {"yes", "no"} :
                                      PrepareRequest(q, s, inc)
                                \/ \E s \in Outcomes : TransitionProposal(q, s)
                                \/ \E r \in Recipients : DeliveryMoved(q, r)
           \/ \E s \in OwnerStarts : OwnerBooks(s)
           \/ Tick
           \/ UNCHANGED vars
  <2>1. UNCHANGED <<call, google>> /\ outlook \subseteq outlook'
    BY <1>5 DEF SearchSlots, PrepareRequest, TransitionProposal, DeliveryMoved,
                OwnerBooks, Tick, vars
  <2>2. \A p \in Quotes : EventMade(p)' => EventMade(p)
    BY <2>1 DEF EventMade
  <2> QED
    BY <2>1, <2>2, WorldApart
<1> QED
  BY <1>1, <1>2, <1>3, <1>4, <1>5 DEF Next, NextService, NextOthers

LEMMA InitApart == Init => EventsApart /\ CallsApart
BY DEF Init, NoEvent, Idle, EventsApart, CallsApart, EventApart, CallApart, EventMade,
       Rechecked, At

\* A submission never books over what was in the calendars when it was
\* called: only requests that overlap in time can double-book.
THEOREM NoKnownDoubleBooking == Spec => []NoBookingOverKnownEvent
<1>1. Inv /\ EventsApart /\ CallsApart /\ [Next]_vars
        => Inv' /\ EventsApart' /\ CallsApart'
  BY NextHolds, NextApart
<1>2. Init => Inv /\ EventsApart /\ CallsApart
  BY InitHolds, InitApart
<1>3. EventsApart => NoBookingOverKnownEvent
  BY LiveWasMade DEF EventsApart, EventApart, Apart, NoBookingOverKnownEvent
<1> QED
  BY <1>1, <1>2, <1>3, PTL DEF Spec
=============================================================================
