------------------------ MODULE AppointmentSubmission ------------------------
(***************************************************************************)
(* An appointment request from the quote offered to a caller to the        *)
(* pending Google proposal and its notifications (pa/service.rs over       *)
(* pa/store.rs).                                                           *)
(*                                                                         *)
(* PaService::submit_request is a saga: store transactions and awaited     *)
(* calendar calls, each of which can fail or be the last one before a      *)
(* crash, repeated by the client until it succeeds.  Every call it makes   *)
(* is one step here, and several calls, of the same or of different        *)
(* drafts, run at the same time.  A quote is prepared into at most one     *)
(* draft, a draft has at most one proposal, a proposal at most one event   *)
(* mapping: all of them are indexed by the quote.                          *)
(***************************************************************************)
EXTENDS Integers, FiniteSets

CONSTANTS
    Quotes,         \* quote identifiers (and the drafts prepared from them)
    Calls,          \* concurrent executions of submit_request
    Starts,         \* start instants of the slots the owner can offer
    SlotLength,     \* duration of an appointment
    MeetingBuffer,  \* AvailabilityPolicy::meeting_buffer
    MinimumNotice,  \* AvailabilityPolicy::minimum_notice
    QuoteLifetime,  \* validity of a quote
    OwnerStarts,    \* start instants the owner may book himself in Outlook
    Answers,        \* what the owner may do to an invitation
    Outcomes,       \* what a pending proposal may become
    Second,         \* clock instants per whole second
    MaxTime,        \* bound: last instant of the clock
    MaxFaults       \* bound: failed calls, lost answers and crashes

ASSUME SubmissionAssumption ==
    /\ Starts \subseteq Nat /\ OwnerStarts \subseteq Nat
    /\ Answers \subseteq {"accepted", "declined", "deleted"}
    /\ Outcomes \subseteq {"accepted", "declined", "expired"}
    /\ SlotLength \in Nat \ {0} /\ MeetingBuffer \in Nat
    /\ MinimumNotice \in Nat /\ QuoteLifetime \in Nat \ {0}
    /\ Second \in Nat \ {0} /\ MaxTime \in Nat /\ MaxFaults \in Nat

VARIABLES
    quote,     \* tables appointment_quotes and appointment_drafts
    proposal,  \* table proposals
    mapping,   \* table event_mappings
    notes,     \* the notification_outbox rows of a proposal
    audit,     \* the audit_events rows of a submission
    google,    \* proposal events in the owner's Google calendar
    outlook,   \* start instants of the owner's Outlook events
    call,      \* the executions of submit_request
    now,       \* wall clock
    faults     \* history: faults so far

store == <<quote, proposal, mapping, notes, audit>>
vars == <<store, google, outlook, call, now, faults>>

Times == 0..MaxTime
NoTime == -1
Recipients == {"owner", "requester"}
AuditKinds == {"request", "proposal", "owner", "requester"}
ProposalStates == {"none", "pending", "accepted", "declined", "expired"}
EventStates == {"none", "needs_action", "accepted", "declined", "deleted"}

\* Where an execution of submit_request is: before the named call.
Points == {"idle", "load_proposal", "load_mapping", "busy_outlook",
           "busy_google", "find_busy", "find", "submit_found", "submit_new",
           "create", "attach", "notify_owner", "notify_requester",
           "audit_request", "audit_proposal", "audit_owner",
           "audit_requester"}

NoQuote == [state |-> "none", issuedAt |-> NoTime, offered |-> {},
            slot |-> NoTime, included |-> "no", consumedAt |-> NoTime]

NoEvent == [state |-> "none", seenGoogle |-> {}, seenOutlook |-> {}]

Idle == [point |-> "idle", q |-> "none", at |-> NoTime, durable |-> NoTime,
         retry |-> "no", busy |-> "no", seenGoogle |-> {}, seenOutlook |-> {},
         result |-> "none"]

Init ==
    /\ quote = [q \in Quotes |-> NoQuote]
    /\ proposal = [q \in Quotes |-> "none"]
    /\ mapping = [q \in Quotes |-> "none"]
    /\ notes = [q \in Quotes |-> [r \in Recipients |-> "none"]]
    /\ audit = [q \in Quotes |-> {}]
    /\ google = [q \in Quotes |-> NoEvent]
    /\ outlook = {}
    /\ call = [c \in Calls |-> Idle]
    /\ now = 0
    /\ faults = 0

-----------------------------------------------------------------------------
(* Calendars.                                                              *)

Live(q) == google[q].state \notin {"none", "deleted"}

\* busy_overlaps on the half-open interval [s, s + SlotLength) widened by the
\* meeting buffer on both sides.
Overlaps(s, t) ==
    /\ t < s + SlotLength + MeetingBuffer
    /\ t + SlotLength > s - MeetingBuffer

GoogleBusy(s) == \E q \in Quotes : Live(q) /\ Overlaps(s, quote[q].slot)
OutlookBusy(s) == \E t \in outlook : Overlaps(s, t)

-----------------------------------------------------------------------------
(* Offering and preparing an appointment.                                  *)

\* search_slots: only free slots with enough notice are offered; without one
\* nothing is stored.
Offer(n) == {s \in Starts : /\ s >= n + MinimumNotice
                            /\ ~GoogleBusy(s) /\ ~OutlookBusy(s)}

SearchSlots(q) ==
    /\ quote[q].state = "none"
    /\ Offer(now) # {}
    /\ quote' = [quote EXCEPT ![q] = [NoQuote EXCEPT !.state = "issued",
                    !.issuedAt = now, !.offered = Offer(now)]]
    /\ UNCHANGED <<proposal, mapping, notes, audit, google, outlook, call, now, faults>>

Valid(q, n) == quote[q].issuedAt <= n /\ n < quote[q].issuedAt + QuoteLifetime

\* prepare_request: the first valid choice freezes the draft; an exact retry
\* returns it and any other choice is a conflict, both without a change.
PrepareRequest(q, s, inc) ==
    /\ quote[q].state = "issued"
    /\ Valid(q, now)
    /\ s \in quote[q].offered
    /\ quote' = [quote EXCEPT ![q].state = "prepared", ![q].slot = s,
                              ![q].included = inc]
    /\ UNCHANGED <<proposal, mapping, notes, audit, google, outlook, call, now, faults>>

-----------------------------------------------------------------------------
(* submit_request, one store transaction or calendar call at a time.       *)

At(c, p) == call[c].point = p
Slot(c) == quote[call[c].q].slot

\* The execution goes on with point p, or returns an error (Conflict,
\* NoAvailability, a store or calendar failure: the client may call again), or
\* returns the submitted request.
GoTo(c, p) == call' = [call EXCEPT ![c].point = p]
Refuse(c) == call' = [call EXCEPT ![c] = Idle]
Succeed(c) == call' = [call EXCEPT ![c] = [Idle EXCEPT !.q = call[c].q,
                                                       !.result = "submitted"]]

\* The local writes after the mapping need nothing but the draft.
EnterTail(c) == call' = [call EXCEPT ![c] = [Idle EXCEPT !.q = call[c].q,
                                                !.point = "notify_owner"]]

\* Mutation of Durable: the time of the call is stored as it is.
DurableUntruncated(q, n) == n

\* canonicalize_submission_timestamp: the whole second of n, or the next one
\* when the quote was issued within that second.
Durable(q, n) ==
    LET whole == (n \div Second) * Second
    IN  IF whole >= quote[q].issuedAt THEN whole ELSE whole + Second

DurableOk(q, n) ==
    \/ Durable(q, n) <= n
    \/ Durable(q, n) < quote[q].issuedAt + QuoteLifetime

\* A client calls (or repeats) submit_request with the current time: the quote
\* is loaded by its draft and its validity is checked unless it is consumed.
Submit(c, q) ==
    /\ At(c, "idle")
    /\ quote[q].state \in {"prepared", "consumed"}
    /\ quote[q].state = "prepared" => Valid(q, now)
    /\ DurableOk(q, now)
    /\ call' = [call EXCEPT ![c] = [Idle EXCEPT
            !.point = IF quote[q].state = "consumed" THEN "load_proposal"
                                                     ELSE "busy_outlook",
            !.q = q, !.at = now, !.durable = Durable(q, now),
            !.seenGoogle = {p \in Quotes : Live(p)}, !.seenOutlook = outlook]]
    /\ UNCHANGED <<store, google, outlook, now, faults>>

LoadProposal(c) ==
    /\ At(c, "load_proposal")
    /\ IF proposal[call[c].q] = "pending"
       THEN GoTo(c, "load_mapping")
       ELSE Refuse(c)
    /\ UNCHANGED <<store, google, outlook, now, faults>>

\* Mutation of LoadMapping: an unmapped proposal is rechecked for free time
\* without looking for the event it may have created before.
LoadMappingWithoutLookup(c) ==
    /\ At(c, "load_mapping")
    /\ IF mapping[call[c].q] = "attached"
       THEN EnterTail(c)
       ELSE call' = [call EXCEPT ![c].point = "busy_outlook", ![c].retry = "yes"]
    /\ UNCHANGED <<store, google, outlook, now, faults>>

LoadMapping(c) ==
    /\ At(c, "load_mapping")
    /\ IF mapping[call[c].q] = "attached"
       THEN EnterTail(c)
       ELSE call' = [call EXCEPT ![c].point = "find", ![c].retry = "yes"]
    /\ UNCHANGED <<store, google, outlook, now, faults>>

ListBusyOutlook(c) ==
    /\ At(c, "busy_outlook")
    /\ call' = [call EXCEPT ![c].point = "busy_google",
                   ![c].busy = IF OutlookBusy(Slot(c)) THEN "yes" ELSE "no"]
    /\ UNCHANGED <<store, google, outlook, now, faults>>

\* The recheck of a first submission comes before find_proposal and ends, if
\* the interval is busy, in a look for its own event; that of a repeated one
\* comes after it and ends the request.
ListBusyGoogle(c) ==
    /\ At(c, "busy_google")
    /\ IF call[c].busy = "yes" \/ GoogleBusy(Slot(c))
       THEN IF call[c].retry = "yes" THEN Refuse(c)
                                     ELSE GoTo(c, "find_busy")
       ELSE GoTo(c, IF call[c].retry = "yes" THEN "create" ELSE "find")
    /\ UNCHANGED <<store, google, outlook, now, faults>>

\* validate_pending_google_event: one attendee, the owner, who did not answer.
PendingEvent(q) == google[q].state = "needs_action"

Found(c) == GoTo(c, IF call[c].retry = "yes" THEN "attach" ELSE "submit_found")

FindProposalWhenBusy(c) ==
    /\ At(c, "find_busy")
    /\ IF ~Live(call[c].q) THEN Refuse(c)
       ELSE IF PendingEvent(call[c].q) THEN Found(c)
       ELSE Refuse(c)
    /\ UNCHANGED <<store, google, outlook, now, faults>>

\* Mutation of FindProposal: a repeated submission trusts its first recheck.
FindProposalWithoutRecheck(c) ==
    /\ At(c, "find")
    /\ IF Live(call[c].q)
       THEN IF PendingEvent(call[c].q) THEN Found(c) ELSE Refuse(c)
       ELSE IF call[c].retry = "yes" THEN GoTo(c, "create")
       ELSE IF Slot(c) < call[c].at + MinimumNotice
            THEN Refuse(c)
            ELSE GoTo(c, "submit_new")
    /\ UNCHANGED <<store, google, outlook, now, faults>>

FindProposal(c) ==
    /\ At(c, "find")
    /\ IF Live(call[c].q)
       THEN IF PendingEvent(call[c].q) THEN Found(c) ELSE Refuse(c)
       ELSE IF call[c].retry = "yes" THEN GoTo(c, "busy_outlook")
       ELSE IF Slot(c) < call[c].at + MinimumNotice
            THEN Refuse(c)
            ELSE GoTo(c, "submit_new")
    /\ UNCHANGED <<store, google, outlook, now, faults>>

\* submit_appointment_quote: the first call consumes the quote and creates its
\* proposal, a later one returns that proposal whatever became of it.
SubmitAppointmentQuote(c) ==
    LET q == call[c].q
        consumed == quote[q].state = "consumed"
        valid == Valid(q, call[c].durable)
    IN
    /\ At(c, "submit_found") \/ At(c, "submit_new")
    /\ IF consumed \/ ~valid
       THEN UNCHANGED <<quote, proposal>>
       ELSE /\ quote' = [quote EXCEPT ![q].state = "consumed",
                                      ![q].consumedAt = call[c].durable]
            /\ proposal' = [proposal EXCEPT ![q] = "pending"]
    /\ IF consumed \/ valid
       THEN GoTo(c, IF At(c, "submit_found") THEN "attach" ELSE "create")
       ELSE Refuse(c)
    /\ UNCHANGED <<mapping, notes, audit, google, outlook, now, faults>>

\* The provider's create: one event per operation key, the same event again
\* for an exact retry, and a conflict once it was deleted.
Created(c) ==
    IF google[call[c].q].state = "none"
    THEN [google EXCEPT ![call[c].q] =
            [state |-> "needs_action", seenGoogle |-> call[c].seenGoogle,
             seenOutlook |-> call[c].seenOutlook]]
    ELSE google

\* Mutation of CreateProposal: the event identity is not stored before the
\* notifications.
CreateProposalUnmapped(c) ==
    /\ At(c, "create")
    /\ google' = Created(c)
    /\ IF google'[call[c].q].state = "needs_action"
       THEN EnterTail(c) ELSE Refuse(c)
    /\ UNCHANGED <<store, outlook, now, faults>>

CreateProposal(c) ==
    /\ At(c, "create")
    /\ google' = Created(c)
    /\ IF google'[call[c].q].state = "needs_action"
       THEN GoTo(c, "attach") ELSE Refuse(c)
    /\ UNCHANGED <<store, outlook, now, faults>>

\* The event was created but the answer was a failure or never came.
CreateProposalUnanswered(c) ==
    /\ At(c, "create")
    /\ faults < MaxFaults
    /\ google' = Created(c)
    /\ Refuse(c)
    /\ faults' = faults + 1
    /\ UNCHANGED <<store, outlook, now>>

AttachEventMapping(c) ==
    /\ At(c, "attach")
    /\ mapping' = [mapping EXCEPT ![call[c].q] = "attached"]
    /\ EnterTail(c)
    /\ UNCHANGED <<quote, proposal, notes, audit, google, outlook, now, faults>>

\* enqueue_notification with available_at = consumed_at: a new row, or the
\* existing one unless its available_at was moved by a failed delivery.
Enqueued(c, r) ==
    IF notes[call[c].q][r] = "none" THEN [notes EXCEPT ![call[c].q][r] = "queued"]
                                    ELSE notes

EnqueueRefused(c, r) == notes[call[c].q][r] = "moved"

\* Mutation of NotifyOwner: the requester is forgotten.
NotifyOwnerOnly(c) ==
    /\ At(c, "notify_owner")
    /\ notes' = Enqueued(c, "owner")
    /\ IF EnqueueRefused(c, "owner") THEN Refuse(c) ELSE GoTo(c, "audit_request")
    /\ UNCHANGED <<quote, proposal, mapping, audit, google, outlook, now, faults>>

NotifyOwner(c) ==
    /\ At(c, "notify_owner")
    /\ notes' = Enqueued(c, "owner")
    /\ IF EnqueueRefused(c, "owner") THEN Refuse(c)
       ELSE GoTo(c, IF quote[call[c].q].included = "yes" THEN "notify_requester"
                                                         ELSE "audit_request")
    /\ UNCHANGED <<quote, proposal, mapping, audit, google, outlook, now, faults>>

NotifyRequester(c) ==
    /\ At(c, "notify_requester")
    /\ notes' = Enqueued(c, "requester")
    /\ IF EnqueueRefused(c, "requester") THEN Refuse(c)
       ELSE GoTo(c, "audit_request")
    /\ UNCHANGED <<quote, proposal, mapping, audit, google, outlook, now, faults>>

\* Mutation of AppendAudit: the caller's position is taken for the event type.
AppendAuditOfPoint(c, point, kind, done) ==
    /\ At(c, point)
    /\ audit' = [audit EXCEPT ![call[c].q] = @ \cup {point}]
    /\ done
    /\ UNCHANGED <<quote, proposal, mapping, notes, google, outlook, now, faults>>

\* append_submission_audit: all of them carry consumed_at, so a repetition is
\* exact and accepted.
AppendAudit(c, point, kind, done) ==
    /\ At(c, point)
    /\ audit' = [audit EXCEPT ![call[c].q] = @ \cup {kind}]
    /\ done
    /\ UNCHANGED <<quote, proposal, mapping, notes, google, outlook, now, faults>>

AppendAudits(c) ==
    \/ AppendAudit(c, "audit_request", "request", GoTo(c, "audit_proposal"))
    \/ AppendAudit(c, "audit_proposal", "proposal", GoTo(c, "audit_owner"))
    \/ AppendAudit(c, "audit_owner", "owner",
                   IF quote[call[c].q].included = "yes"
                   THEN GoTo(c, "audit_requester") ELSE Succeed(c))
    \/ AppendAudit(c, "audit_requester", "requester", Succeed(c))

\* A store or calendar call fails without an effect, or the process stops.
Fail(c) ==
    /\ ~At(c, "idle")
    /\ faults < MaxFaults
    /\ Refuse(c)
    /\ faults' = faults + 1
    /\ UNCHANGED <<store, google, outlook, now>>

Advance(c) ==
    \/ LoadProposal(c) \/ LoadMapping(c)
    \/ ListBusyOutlook(c) \/ ListBusyGoogle(c)
    \/ FindProposalWhenBusy(c) \/ FindProposal(c)
    \/ SubmitAppointmentQuote(c) \/ CreateProposal(c) \/ AttachEventMapping(c)
    \/ NotifyOwner(c) \/ NotifyRequester(c) \/ AppendAudits(c)

-----------------------------------------------------------------------------
(* Everybody else.                                                         *)

\* transition_proposal
TransitionProposal(q, next) ==
    /\ proposal[q] = "pending"
    /\ proposal' = [proposal EXCEPT ![q] = next]
    /\ UNCHANGED <<quote, mapping, notes, audit, google, outlook, call, now, faults>>

\* The owner answers the invitation in Google Calendar, or deletes it.
OwnerAnswers(q, answer) ==
    /\ Live(q)
    /\ google[q].state # answer
    /\ google' = [google EXCEPT ![q].state = answer]
    /\ UNCHANGED <<store, outlook, call, now, faults>>

\* The owner enters an appointment of his own in Outlook.
OwnerBooks(s) ==
    /\ s \notin outlook
    /\ outlook' = outlook \cup {s}
    /\ UNCHANGED <<store, google, call, now, faults>>

\* A delivery of the notification failed and reschedule_notification moved
\* its available_at (NotificationOutbox).
DeliveryMoved(q, r) ==
    /\ notes[q][r] = "queued"
    /\ notes' = [notes EXCEPT ![q][r] = "moved"]
    /\ UNCHANGED <<quote, proposal, mapping, audit, google, outlook, call, now, faults>>

Tick ==
    /\ now < MaxTime
    /\ now' = now + 1
    /\ UNCHANGED <<store, google, outlook, call, faults>>

\* Callers and the service alone.
NextService ==
    \/ \E q \in Quotes : SearchSlots(q)
    \/ \E q \in Quotes, s \in Starts, inc \in {"yes", "no"} : PrepareRequest(q, s, inc)
    \/ \E c \in Calls, q \in Quotes : Submit(c, q)
    \/ \E c \in Calls : Advance(c)
    \/ \E c \in Calls : CreateProposalUnanswered(c) \/ Fail(c)
    \/ \E s \in OwnerStarts : OwnerBooks(s)
    \/ Tick

\* The owner and the delivery worker act on a submission, finished or not.
NextOthers ==
    \/ \E q \in Quotes, s \in Outcomes : TransitionProposal(q, s)
    \/ \E q \in Quotes, s \in Answers : OwnerAnswers(q, s)
    \/ \E q \in Quotes, r \in Recipients : DeliveryMoved(q, r)

Next == NextService \/ NextOthers

Spec == Init /\ [][Next]_vars

\* An execution that was started runs on (or fails), and the client of every
\* prepared draft keeps calling submit_request.  Nothing else is forced.
Fairness ==
    /\ \A c \in Calls : WF_vars(Advance(c))
    /\ \A q \in Quotes : SF_vars(\E c \in Calls : Submit(c, q))

LiveSpec == Spec /\ Fairness

-----------------------------------------------------------------------------
(* Properties.                                                             *)

TypeOK ==
    /\ \A q \in Quotes :
          /\ quote[q].state \in {"none", "issued", "prepared", "consumed"}
          /\ quote[q].issuedAt \in Times \cup {NoTime}
          /\ quote[q].offered \subseteq Starts
          /\ quote[q].slot \in Starts \cup {NoTime}
          /\ quote[q].included \in {"yes", "no"}
          /\ quote[q].consumedAt \in Nat \cup {NoTime}
          /\ google[q].state \in EventStates
          /\ google[q].seenGoogle \subseteq Quotes
          /\ google[q].seenOutlook \subseteq OwnerStarts
    /\ proposal \in [Quotes -> ProposalStates]
    /\ mapping \in [Quotes -> {"none", "attached"}]
    /\ notes \in [Quotes -> [Recipients -> {"none", "queued", "moved"}]]
    /\ audit \in [Quotes -> SUBSET AuditKinds]
    /\ outlook \subseteq OwnerStarts
    /\ \A c \in Calls : call[c].point \in Points
    /\ now \in Times
    /\ faults \in 0..MaxFaults

\* Everything a successful submission leaves behind.
Recorded(q) ==
    /\ mapping[q] = "attached"
    /\ notes[q]["owner"] # "none"
    /\ notes[q]["requester"] # "none" <=> quote[q].included = "yes"
    /\ audit[q] = IF quote[q].included = "yes" THEN AuditKinds
                  ELSE AuditKinds \ {"requester"}

\* A client that was told "submitted" finds the whole record in the store, and
\* an event was created for it, whichever other executions, failures and owner
\* actions were interleaved.
SubmittedIsRecorded ==
    \A c \in Calls : call[c].result = "submitted" =>
       /\ quote[call[c].q].state = "consumed"
       /\ Recorded(call[c].q)
       /\ google[call[c].q].state # "none"

\* A quote is consumed at a whole second at which it was valid, although the
\* time the client passed was truncated, and exactly when it has a proposal.
ConsumedWhileValid ==
    \A q \in Quotes :
       /\ quote[q].state = "consumed" <=> proposal[q] # "none"
       /\ quote[q].state = "consumed" =>
             /\ Valid(q, quote[q].consumedAt)
             /\ quote[q].consumedAt % Second = 0
             /\ quote[q].slot \in quote[q].offered

\* The saga is RecordedEffect: the quote is consumed, then its event created,
\* then the identity stored, and only then is anybody notified and anything
\* audited, each once, whatever fails, is repeated or runs at the same time.
Effect == INSTANCE RecordedEffect WITH
    Requests <- Quotes,
    admitted <- {q \in Quotes : quote[q].state = "consumed"},
    performed <- {q \in Quotes : google[q].state # "none"},
    recorded <- {q \in Quotes : mapping[q] = "attached"},
    announced <- {q \in Quotes : \/ audit[q] # {}
                                \/ \E r \in Recipients : notes[q][r] # "none"}

ImplementsEffect == Effect!Spec

\* An event never overlaps (buffer included) another proposal event or an
\* Outlook event that was in the calendar when the submission that created it
\* was called: only submissions that run at the same time can double-book.
NoBookingOverKnownEvent ==
    \A q \in Quotes : Live(q) =>
       /\ \A p \in google[q].seenGoogle \ {q} :
             Live(p) => ~Overlaps(quote[q].slot, quote[p].slot)
       /\ \A t \in google[q].seenOutlook : ~Overlaps(quote[q].slot, t)

\* Once the event exists, the client's retries complete the record: no prefix
\* of the calls that a fault may leave behind blocks the rest.
EventIsRecorded == \A q \in Quotes : google[q].state # "none" ~> Recorded(q)

\* The owner answered, the proposal was decided or a delivery was moved: the
\* submission is refused from then on.
Disturbed(q) ==
    \/ proposal[q] \notin {"none", "pending"}
    \/ google[q].state \in {"accepted", "declined", "deleted"}
    \/ \E r \in Recipients : notes[q][r] = "moved"

\* EventIsRecorded with everybody else acting at any time: only what they do to
\* this very submission can stop the retries from completing it.
RecordedUnlessDisturbed ==
    \A q \in Quotes : google[q].state # "none" ~> Recorded(q) \/ Disturbed(q)

\* What is durable stays: the draft is frozen, consumed_at is written once, a
\* proposal that was answered keeps its answer, and no mapping, notification
\* or audit row of a submission is taken back.
DurableProgress ==
    [][\A q \in Quotes :
          /\ quote[q].slot # NoTime => quote'[q].slot = quote[q].slot
          /\ quote[q].consumedAt # NoTime
                => quote'[q].consumedAt = quote[q].consumedAt
          /\ proposal[q] \notin {"none", "pending"} => proposal'[q] = proposal[q]
          /\ mapping[q] = "attached" => mapping'[q] = "attached"
          /\ \A r \in Recipients : notes[q][r] # "none" => notes'[q][r] # "none"
          /\ audit[q] \subseteq audit'[q]]_vars
=============================================================================
